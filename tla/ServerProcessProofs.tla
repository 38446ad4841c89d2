-------------------------- MODULE ServerProcessProofs --------------------------
(***************************************************************************)
(* The safety properties of ServerProcess, for any calls and runs; and     *)
(* those of ServiceInstance, which runs the process and the migrations as  *)
(* their modules say, so that the theorems about each hold of it.          *)
(***************************************************************************)
EXTENDS ServiceInstance, MigrationsProofs

\* The set-up comes before everything else.
LEMMA SetUpProviderKeeps ==
    ASSUME ProcessInv, NEW i \in DOMAIN Providers, SetUpProvider(i)
    PROVE  ProcessInv'
<1>1. StaysStopped'
  BY DEF ProcessInv, SetUpProvider, StaysStopped, servers, calls, GrpcCalls,
     HttpCalls, Running
<1>2. ProvidersShutDown'
  BY DEF ProcessInv, SetUpProvider, ProvidersShutDown, ReturnsInOrder
<1>3. ProcessTypeOK' /\ ReturnsInOrder'
  BY DEF ProcessInv, SetUpProvider, ProcessTypeOK, ReturnsInOrder, servers,
     calls, database
<1>4. QED
  BY <1>1, <1>2, <1>3 DEF ProcessInv

\* What was up is taken down on the way out.
LEMMA SetUpFailsKeeps ==
    ASSUME ProcessInv, SetUpFails
    PROVE  ProcessInv'
<1>1. ProcessTypeOK'
  BY DEF ProcessInv, SetUpFails, ProcessTypeOK, servers, calls, database,
     AllDown
<1>2. StaysStopped'
  BY DEF ProcessInv, SetUpFails, StaysStopped, servers, calls, GrpcCalls,
     HttpCalls, Running
<1>3. ProvidersShutDown'
  BY DEF ProcessInv, SetUpFails, ProvidersShutDown, AllDown
<1>4. ReturnsInOrder'
  BY DEF ProcessInv, SetUpFails, ReturnsInOrder
<1>5. QED
  BY <1>1, <1>2, <1>3, <1>4 DEF ProcessInv

\* An error makes main.run return before it serves.
LEMMA InitServicesKeeps ==
    ASSUME ProcessInv, InitServices
    PROVE  ProcessInv'
<1>1. error' \in BOOLEAN /\ main' \in {"migrate", "returning"}
  BY DEF ProcessInv, InitServices, ProcessTypeOK, ReturnError
<1>2. ProcessTypeOK'
  BY <1>1 DEF ProcessInv, InitServices, ProcessTypeOK, servers, calls,
     database
<1>3. StaysStopped'
  BY DEF ProcessInv, InitServices, StaysStopped, servers, calls, GrpcCalls,
     HttpCalls, Running
<1>4. ReturnsInOrder'
  BY DEF ProcessInv, InitServices, ReturnsInOrder, ReturnError
<1>5. ProvidersShutDown'
  BY DEF ProcessInv, InitServices, ProvidersShutDown
<1>6. QED
  BY <1>2, <1>3, <1>4, <1>5 DEF ProcessInv

\* As InitServices; the pool may be open afterwards.
LEMMA MigrateKeeps ==
    ASSUME ProcessInv, Migrate
    PROVE  ProcessInv'
<1>1. error' \in BOOLEAN /\ main' \in {"listen", "returning"}
  BY DEF ProcessInv, Migrate, ProcessTypeOK, ReturnError
<1>2. ProcessTypeOK'
  BY <1>1 DEF ProcessInv, Migrate, ProcessTypeOK, servers, calls, database
<1>3. StaysStopped'
  BY DEF ProcessInv, Migrate, StaysStopped, servers, calls, GrpcCalls,
     HttpCalls, Running
<1>4. ReturnsInOrder'
  BY DEF ProcessInv, Migrate, ReturnsInOrder, ReturnError
<1>5. ProvidersShutDown'
  BY DEF ProcessInv, Migrate, ProvidersShutDown
<1>6. QED
  BY <1>2, <1>3, <1>4, <1>5 DEF ProcessInv

\* The servers start only while nothing is being stopped.
LEMMA StartServerKeeps ==
    ASSUME ProcessInv, StartServer
    PROVE  ProcessInv'
<1>1. error' \in BOOLEAN
  BY DEF ProcessInv, StartServer, ProcessTypeOK, ReturnError
<1>2. /\ main' \in {"serving", "returning"}
      /\ grpc' \in {grpc, "serving"}
      /\ httpServer' \in {httpServer, "serving"}
  BY DEF StartServer, ReturnError, servers
<1>3. ProcessTypeOK'
  BY <1>1, <1>2 DEF ProcessInv, StartServer, ProcessTypeOK, calls, database
<1>4. StaysStopped'
  BY DEF ProcessInv, StartServer, StaysStopped, AtWait, AtClose
<1>5. ReturnsInOrder'
  BY DEF ProcessInv, StartServer, ReturnsInOrder, ReturnError
<1>6. ProvidersShutDown'
  BY DEF ProcessInv, StartServer, ProvidersShutDown
<1>7. QED
  BY <1>3, <1>4, <1>5, <1>6 DEF ProcessInv

\* A gRPC server that has stopped accepts nothing.
LEMMA RpcArrivesKeeps ==
    ASSUME ProcessInv, NEW r \in Rpcs, RpcArrives(r)
    PROVE  ProcessInv'
<1>1. StaysStopped'
  BY DEF ProcessInv, RpcArrives, StaysStopped, control, Running, AcceptsRpcs
<1>2. ProcessTypeOK' /\ ReturnsInOrder' /\ ProvidersShutDown'
  BY DEF ProcessInv, RpcArrives, ProcessTypeOK, ReturnsInOrder,
     ProvidersShutDown, control, servers, database
<1>3. QED
  BY <1>1, <1>2 DEF ProcessInv

\* One call less.
LEMMA RpcReturnsKeeps ==
    ASSUME ProcessInv, NEW r \in Rpcs, RpcReturns(r)
    PROVE  ProcessInv'
<1>1. StaysStopped'
  BY DEF ProcessInv, RpcReturns, StaysStopped, control, GrpcCalls, Running
<1>2. ProcessTypeOK' /\ ReturnsInOrder' /\ ProvidersShutDown'
  BY DEF ProcessInv, RpcReturns, ProcessTypeOK, ReturnsInOrder,
     ProvidersShutDown, control, servers, database
<1>3. QED
  BY <1>1, <1>2 DEF ProcessInv

\* An idle connection is not a call.
LEMMA ConnectKeeps ==
    ASSUME ProcessInv, NEW h \in Conns, Connect(h)
    PROVE  ProcessInv'
<1>1. StaysStopped'
  BY DEF ProcessInv, Connect, StaysStopped, control, servers, GrpcCalls,
     Running
<1>2. ProcessTypeOK' /\ ReturnsInOrder' /\ ProvidersShutDown'
  BY DEF ProcessInv, Connect, ProcessTypeOK, ReturnsInOrder,
     ProvidersShutDown, control, servers, database
<1>3. QED
  BY <1>1, <1>2 DEF ProcessInv

\* Nothing is forwarded to a gRPC server that has stopped, and no request
\* is read by an HTTP server that has.
LEMMA HttpRequestKeeps ==
    ASSUME ProcessInv, NEW h \in Conns, HttpRequest(h)
    PROVE  ProcessInv'
<1>1. StaysStopped'
  BY DEF ProcessInv, HttpRequest, StaysStopped, ProcessTypeOK, control,
     servers, GrpcCalls, Running, AcceptsRpcs
<1>2. ProcessTypeOK' /\ ReturnsInOrder' /\ ProvidersShutDown'
  BY DEF ProcessInv, HttpRequest, ProcessTypeOK, ReturnsInOrder,
     ProvidersShutDown, control, servers, database
<1>3. QED
  BY <1>1, <1>2 DEF ProcessInv

\* One call less.
LEMMA HttpAnswerKeeps ==
    ASSUME ProcessInv, NEW h \in Conns, HttpAnswer(h)
    PROVE  ProcessInv'
<1>1. StaysStopped'
  BY DEF ProcessInv, HttpAnswer, StaysStopped, control, servers, GrpcCalls,
     Running
<1>2. ProcessTypeOK' /\ ReturnsInOrder' /\ ProvidersShutDown'
  BY DEF ProcessInv, HttpAnswer, ProcessTypeOK, ReturnsInOrder,
     ProvidersShutDown, control, servers, database
<1>3. QED
  BY <1>1, <1>2 DEF ProcessInv

\* There is no call to launch from once the goroutine waits for the runs.
LEMMA LaunchKeeps ==
    ASSUME ProcessInv, NEW c \in Rpcs \cup Conns, NEW r \in Runs, Launch(c, r)
    PROVE  ProcessInv'
<1>1. StaysStopped'
  BY DEF ProcessInv, Launch, StaysStopped, control, AtWait
<1>2. ProcessTypeOK' /\ ReturnsInOrder' /\ ProvidersShutDown'
  BY DEF ProcessInv, Launch, ProcessTypeOK, ReturnsInOrder,
     ProvidersShutDown, control, servers, database
<1>3. QED
  BY <1>1, <1>2 DEF ProcessInv

\* One run less.
LEMMA RunEndsKeeps ==
    ASSUME ProcessInv, NEW r \in Runs, RunEnds(r)
    PROVE  ProcessInv'
<1>1. StaysStopped'
  BY DEF ProcessInv, RunEnds, StaysStopped, control, servers, GrpcCalls,
     HttpCalls
<1>2. ProcessTypeOK' /\ ReturnsInOrder' /\ ProvidersShutDown'
  BY DEF ProcessInv, RunEnds, ProcessTypeOK, ReturnsInOrder,
     ProvidersShutDown, control, servers, database
<1>3. QED
  BY <1>1, <1>2 DEF ProcessInv

\* Connections of the pool are not what the order is about.
LEMMA AcquireKeeps ==
    ASSUME ProcessInv, NEW c \in Clients, Acquire(c)
    PROVE  ProcessInv'
<1>1. StaysStopped'
  BY DEF ProcessInv, Acquire, StaysStopped, control, servers, calls,
     GrpcCalls, HttpCalls, Running
<1>2. ProcessTypeOK' /\ ReturnsInOrder' /\ ProvidersShutDown'
  BY DEF ProcessInv, Acquire, ProcessTypeOK, ReturnsInOrder,
     ProvidersShutDown, control, servers, calls
<1>3. QED
  BY <1>1, <1>2 DEF ProcessInv

\* As Acquire.
LEMMA ReleaseKeeps ==
    ASSUME ProcessInv, NEW c \in Clients, Release(c)
    PROVE  ProcessInv'
<1>1. StaysStopped'
  BY DEF ProcessInv, Release, StaysStopped, control, servers, calls,
     GrpcCalls, HttpCalls, Running
<1>2. ProcessTypeOK' /\ ReturnsInOrder' /\ ProvidersShutDown'
  BY DEF ProcessInv, Release, ProcessTypeOK, ReturnsInOrder,
     ProvidersShutDown, control, servers, calls
<1>3. QED
  BY <1>1, <1>2 DEF ProcessInv

\* The signal is only noted.
LEMMA SignalKeeps ==
    ASSUME ProcessInv, Signal
    PROVE  ProcessInv'
<1>1. StaysStopped'
  BY DEF ProcessInv, Signal, StaysStopped, servers, calls, GrpcCalls,
     HttpCalls, Running
<1>2. ProcessTypeOK' /\ ReturnsInOrder' /\ ProvidersShutDown'
  BY DEF ProcessInv, Signal, ProcessTypeOK, ReturnsInOrder,
     ProvidersShutDown, servers, calls, database
<1>3. QED
  BY <1>1, <1>2 DEF ProcessInv

\* A killed process is neither ok nor in error.
LEMMA KilledKeeps ==
    ASSUME ProcessInv, Killed
    PROVE  ProcessInv'
<1>1. StaysStopped'
  BY DEF ProcessInv, Killed, StaysStopped, servers, calls, GrpcCalls,
     HttpCalls, Running
<1>2. ProcessTypeOK' /\ ReturnsInOrder' /\ ProvidersShutDown'
  BY DEF ProcessInv, Killed, ProcessTypeOK, ReturnsInOrder,
     ProvidersShutDown, servers, calls, database
<1>3. QED
  BY <1>1, <1>2 DEF ProcessInv

\* The goroutine starts at its first step.
LEMMA BeginStopKeeps ==
    ASSUME ProcessInv, BeginStop
    PROVE  ProcessInv'
<1>1. StaysStopped'
  BY DEF ProcessInv, BeginStop, StaysStopped, AtWait, AtClose
<1>2. ProcessTypeOK' /\ ReturnsInOrder' /\ ProvidersShutDown'
  BY DEF ProcessInv, BeginStop, ProcessTypeOK, ReturnsInOrder,
     ProvidersShutDown, calls, database
<1>3. QED
  BY <1>1, <1>2 DEF ProcessInv

\* What was promised within the grace period is not promised any more.
LEMMA GraceExpiresKeeps ==
    ASSUME ProcessInv, GraceExpires
    PROVE  ProcessInv'
<1>1. StaysStopped'
  BY DEF ProcessInv, GraceExpires, StaysStopped, servers, calls, GrpcCalls,
     Running
<1>2. ProcessTypeOK' /\ ReturnsInOrder' /\ ProvidersShutDown'
  BY DEF ProcessInv, GraceExpires, ProcessTypeOK, ReturnsInOrder,
     ProvidersShutDown, servers, calls, database
<1>3. QED
  BY <1>1, <1>2 DEF ProcessInv

\* The goroutine is done.
LEMMA MainReturnsKeeps ==
    ASSUME ProcessInv, MainReturns
    PROVE  ProcessInv'
<1>1. StaysStopped'
  BY DEF ProcessInv, MainReturns, StaysStopped, servers, calls, GrpcCalls,
     HttpCalls, Running
<1>2. ProcessTypeOK' /\ ReturnsInOrder' /\ ProvidersShutDown'
  BY DEF ProcessInv, MainReturns, ProcessTypeOK, ReturnsInOrder,
     ProvidersShutDown, servers, calls, database
<1>3. QED
  BY <1>1, <1>2 DEF ProcessInv

\* A forced exit is neither ok nor in error.
LEMMA ForcedExitKeeps ==
    ASSUME ProcessInv, ForcedExit
    PROVE  ProcessInv'
<1>1. StaysStopped'
  BY DEF ProcessInv, ForcedExit, StaysStopped, servers, calls, GrpcCalls,
     Running
<1>2. ProcessTypeOK' /\ ReturnsInOrder' /\ ProvidersShutDown'
  BY DEF ProcessInv, ForcedExit, ProcessTypeOK, ReturnsInOrder,
     ProvidersShutDown, servers, calls, database
<1>3. QED
  BY <1>1, <1>2 DEF ProcessInv

\* A deferred function runs.
LEMMA ShutdownProviderKeeps ==
    ASSUME ProcessInv, NEW i \in DOMAIN Providers, ShutdownProvider(i)
    PROVE  ProcessInv'
<1>1. StaysStopped'
  BY DEF ProcessInv, ShutdownProvider, StaysStopped, servers, calls,
     GrpcCalls, HttpCalls, Running
<1>2. ProcessTypeOK' /\ ReturnsInOrder' /\ ProvidersShutDown'
  BY DEF ProcessInv, ShutdownProvider, ProcessTypeOK, ReturnsInOrder,
     ProvidersShutDown, servers, calls, database
<1>3. QED
  BY <1>1, <1>2 DEF ProcessInv

\* Every provider is down, and without an error the goroutine is done.
LEMMA ProcessEndsKeeps ==
    ASSUME ProcessInv, ProcessEnds
    PROVE  ProcessInv'
<1>1. StaysStopped'
  BY DEF ProcessInv, ProcessEnds, StaysStopped, servers, calls, GrpcCalls,
     HttpCalls, Running
<1>2. ProcessTypeOK' /\ ReturnsInOrder' /\ ProvidersShutDown'
  BY DEF ProcessInv, ProcessEnds, ProcessTypeOK, ReturnsInOrder,
     ProvidersShutDown, servers, calls, database
<1>3. QED
  BY <1>1, <1>2 DEF ProcessInv

\* The gRPC server has no call when it has stopped.
LEMMA GracefulStopKeeps ==
    ASSUME ProcessInv, GracefulStop
    PROVE  ProcessInv'
<1>1. StaysStopped'
  BY DEF ProcessInv, GracefulStop, StaysStopped, calls, GrpcCalls,
     StopperAt, AtWait, AtClose
<1>2. ReturnsInOrder'
  BY DEF ProcessInv, GracefulStop, ReturnsInOrder, StopperAt
<1>3. ProcessTypeOK' /\ ProvidersShutDown'
  BY DEF ProcessInv, GracefulStop, ProcessTypeOK, ProvidersShutDown, calls,
     database
<1>4. QED
  BY <1>1, <1>2, <1>3 DEF ProcessInv

\* An idle connection is not a call.
LEMMA CloseIdleKeeps ==
    ASSUME ProcessInv, NEW h \in Conns, CloseIdle(h)
    PROVE  ProcessInv'
<1>1. StaysStopped'
  BY DEF ProcessInv, CloseIdle, StaysStopped, control, servers, GrpcCalls,
     HttpCalls, Running
<1>2. ProcessTypeOK' /\ ReturnsInOrder' /\ ProvidersShutDown'
  BY DEF ProcessInv, CloseIdle, ProcessTypeOK, ReturnsInOrder,
     ProvidersShutDown, control, servers, database
<1>3. QED
  BY <1>1, <1>2 DEF ProcessInv

\* The connections are closed, unless the grace period has passed.
LEMMA HttpShutdownKeeps ==
    ASSUME ProcessInv, HttpShutdown
    PROVE  ProcessInv'
<1>1. ProcessTypeOK'
  BY DEF ProcessInv, HttpShutdown, ProcessTypeOK, calls, database, AtWait
<1>2. StaysStopped'
  BY DEF ProcessInv, HttpShutdown, StaysStopped, calls, GrpcCalls,
     HttpCalls, StopperAt, AtClose
<1>3. ReturnsInOrder'
  BY DEF ProcessInv, HttpShutdown, ReturnsInOrder, StopperAt, Alive
<1>4. ProvidersShutDown'
  BY DEF ProcessInv, HttpShutdown, ProvidersShutDown
<1>5. QED
  BY <1>1, <1>2, <1>3, <1>4 DEF ProcessInv

\* No run is left.
LEMMA ExecutorWaitKeeps ==
    ASSUME ProcessInv, ExecutorWait
    PROVE  ProcessInv'
<1>1. ProcessTypeOK'
  BY DEF ProcessInv, ExecutorWait, ProcessTypeOK, servers, calls, database,
     AtWait, AtClose
<1>2. StaysStopped'
  BY DEF ProcessInv, ExecutorWait, StaysStopped, servers, calls, GrpcCalls,
     HttpCalls, Running, StopperAt, AtWait
<1>3. ReturnsInOrder'
  BY DEF ProcessInv, ExecutorWait, ReturnsInOrder, StopperAt
<1>4. ProvidersShutDown'
  BY DEF ProcessInv, ExecutorWait, ProvidersShutDown
<1>5. QED
  BY <1>1, <1>2, <1>3, <1>4 DEF ProcessInv

\* Only the pool changes.
LEMMA BeginCloseKeeps ==
    ASSUME ProcessInv, BeginClose
    PROVE  ProcessInv'
<1>1. StaysStopped'
  BY DEF ProcessInv, BeginClose, StaysStopped, control, servers, calls,
     GrpcCalls, HttpCalls, Running
<1>2. ProcessTypeOK' /\ ReturnsInOrder' /\ ProvidersShutDown'
  BY DEF ProcessInv, BeginClose, ProcessTypeOK, ReturnsInOrder,
     ProvidersShutDown, control, servers, calls
<1>3. QED
  BY <1>1, <1>2 DEF ProcessInv

\* The goroutine goes from one Close to the next, or is done.
LEMMA EndCloseKeeps ==
    ASSUME ProcessInv, EndClose
    PROVE  ProcessInv'
<1>1. ProcessTypeOK'
  BY DEF ProcessInv, EndClose, ProcessTypeOK, servers, calls, AtWait,
     AtClose
<1>2. StaysStopped'
  BY DEF ProcessInv, EndClose, StaysStopped, servers, calls, GrpcCalls,
     HttpCalls, Running, StopperAt, AtWait, AtClose
<1>3. ReturnsInOrder' /\ ProvidersShutDown'
  BY DEF ProcessInv, EndClose, ReturnsInOrder, ProvidersShutDown
<1>4. QED
  BY <1>1, <1>2, <1>3 DEF ProcessInv

\* No step of MainNext breaks the invariant.
LEMMA MainNextKeeps ==
    ASSUME ProcessInv, MainNext
    PROVE  ProcessInv'
<1>1. CASE \E i \in DOMAIN Providers : SetUpProvider(i)
  BY <1>1, SetUpProviderKeeps
<1>2. CASE \E i \in DOMAIN Providers : ShutdownProvider(i)
  BY <1>2, ShutdownProviderKeeps
<1>3. CASE SetUpFails
  BY <1>3, SetUpFailsKeeps
<1>4. CASE InitServices
  BY <1>4, InitServicesKeeps
<1>5. CASE Migrate
  BY <1>5, MigrateKeeps
<1>6. CASE StartServer
  BY <1>6, StartServerKeeps
<1>7. CASE BeginStop
  BY <1>7, BeginStopKeeps
<1>8. CASE MainReturns
  BY <1>8, MainReturnsKeeps
<1>9. CASE ForcedExit
  BY <1>9, ForcedExitKeeps
<1>10. CASE ProcessEnds
  BY <1>10, ProcessEndsKeeps
<1>11. QED
  BY <1>1, <1>2, <1>3, <1>4, <1>5, <1>6, <1>7, <1>8, <1>9, <1>10 DEF
     MainNext

\* No step of StopperNext breaks the invariant.
LEMMA StopperNextKeeps ==
    ASSUME ProcessInv, StopperNext
    PROVE  ProcessInv'
<1>1. CASE GracefulStop
  BY <1>1, GracefulStopKeeps
<1>2. CASE HttpShutdown
  BY <1>2, HttpShutdownKeeps
<1>3. CASE ExecutorWait
  BY <1>3, ExecutorWaitKeeps
<1>4. CASE BeginClose
  BY <1>4, BeginCloseKeeps
<1>5. CASE EndClose
  BY <1>5, EndCloseKeeps
<1>6. CASE \E h \in Conns : CloseIdle(h)
  BY <1>6, CloseIdleKeeps
<1>7. QED
  BY <1>1, <1>2, <1>3, <1>4, <1>5, <1>6 DEF StopperNext

\* No step of CallsNext breaks the invariant.
LEMMA CallsNextKeeps ==
    ASSUME ProcessInv, CallsNext
    PROVE  ProcessInv'
<1>1. CASE \E r \in Rpcs : RpcArrives(r)
  BY <1>1, RpcArrivesKeeps
<1>2. CASE \E r \in Rpcs : RpcReturns(r)
  BY <1>2, RpcReturnsKeeps
<1>3. CASE \E h \in Conns : Connect(h)
  BY <1>3, ConnectKeeps
<1>4. CASE \E h \in Conns : HttpRequest(h)
  BY <1>4, HttpRequestKeeps
<1>5. CASE \E h \in Conns : HttpAnswer(h)
  BY <1>5, HttpAnswerKeeps
<1>6. CASE \E r \in Runs : RunEnds(r)
  BY <1>6, RunEndsKeeps
<1>7. CASE \E c \in Rpcs \cup Conns, r \in Runs : Launch(c, r)
  BY <1>7, LaunchKeeps
<1>8. CASE \E c \in Clients : Acquire(c)
  BY <1>8, AcquireKeeps
<1>9. CASE \E c \in Clients : Release(c)
  BY <1>9, ReleaseKeeps
<1>10. QED
  BY <1>1, <1>2, <1>3, <1>4, <1>5, <1>6, <1>7, <1>8, <1>9 DEF CallsNext

\* Every step of the process keeps the invariant.
LEMMA StepKeeps ==
    ASSUME ProcessInv, [ProcessNext]_processVars
    PROVE  ProcessInv'
<1>1. CASE MainNext \/ StopperNext \/ CallsNext
  BY <1>1, MainNextKeeps, StopperNextKeeps, CallsNextKeeps
<1>2. CASE Signal \/ Killed \/ GraceExpires
  BY <1>2, SignalKeeps, KilledKeeps, GraceExpiresKeeps
<1>3. CASE UNCHANGED processVars
  <2>1. UNCHANGED <<control, servers, calls, database>>
    BY <1>3 DEF processVars
  <2>2. ProcessTypeOK'
    BY <2>1 DEF ProcessInv, ProcessTypeOK, control, servers, calls, database
  <2>3. StaysStopped'
    BY <2>1 DEF ProcessInv, StaysStopped, GrpcCalls, HttpCalls, Running,
       control, servers, calls
  <2>4. ReturnsInOrder' /\ ProvidersShutDown'
    BY <2>1 DEF ProcessInv, ReturnsInOrder, ProvidersShutDown, control
  <2>5. QED
    BY <2>2, <2>3, <2>4 DEF ProcessInv
<1>4. QED
  BY <1>1, <1>2, <1>3 DEF ProcessNext

\* A process that has not begun has stopped nothing.
LEMMA InitHolds ==
    ASSUME ProcessInit
    PROVE  ProcessInv
<1>1. ProcessTypeOK
  BY DEF ProcessInit, ProcessTypeOK
<1>2. StaysStopped
  BY DEF ProcessInit, StaysStopped, AtWait, AtClose
<1>3. ReturnsInOrder /\ ProvidersShutDown
  BY DEF ProcessInit, ReturnsInOrder, ProvidersShutDown
<1>4. QED
  BY <1>1, <1>2, <1>3 DEF ProcessInv

\* The goroutine that stops everything runs behind main.run, and what it has
\* stopped stays stopped.
THEOREM ProcessInvariant == ProcessSpec => []ProcessInv
<1>1. ProcessInit => ProcessInv
  BY InitHolds
<1>2. ProcessInv /\ [ProcessNext]_processVars => ProcessInv'
  BY StepKeeps
<1>3. QED
  BY <1>1, <1>2, PTL DEF ProcessSpec

\* Close is called when every run and every gRPC call has ended, and within the
\* grace period every HTTP call too, for any number of calls and runs.
THEOREM PoolIsClosedLast == ProcessSpec => []WorkEndsBeforeClose
<1>1. ProcessInv => WorkEndsBeforeClose
  BY DEF ProcessInv, StaysStopped, WorkEndsBeforeClose, AtWait
<1>2. QED
  BY <1>1, ProcessInvariant, PTL

\* A process that ends with status 0 leaves no work behind.
THEOREM ExitIsOrderly == ProcessSpec => []OrderlyExit
<1>1. ProcessInv => OrderlyExit
  BY DEF ProcessInv, StaysStopped, ReturnsInOrder, OrderlyExit, AtWait,
     AtClose
<1>2. QED
  BY <1>1, ProcessInvariant, PTL

\* Whoever returns from main.run has shut down the providers it has set up.
THEOREM ProvidersAreShutDown == ProcessSpec => []ProvidersShutDown
<1>1. ProcessInv => ProvidersShutDown
  BY DEF ProcessInv
<1>2. QED
  BY <1>1, ProcessInvariant, PTL

\* A step that starts a run is a Launch, by a call of the gRPC server.
LEMMA OnlyLaunchAdds ==
    ASSUME ProcessInv, [ProcessNext]_processVars, stopper \in AtWait
    PROVE  Running' \subseteq Running
<1>1. GrpcCalls = {}
  BY DEF ProcessInv, StaysStopped
<1>2. CASE MainNext
  BY <1>2 DEF MainNext, SetUpProvider, ShutdownProvider, SetUpFails,
     InitServices, Migrate, StartServer, BeginStop, MainReturns, ForcedExit,
     ProcessEnds, Running, calls
<1>3. CASE StopperNext
  BY <1>3 DEF StopperNext, GracefulStop, HttpShutdown, ExecutorWait,
     BeginClose, EndClose, CloseIdle, Running, calls
<1>4. CASE CallsNext
  BY <1>1, <1>4 DEF ProcessInv, ProcessTypeOK, CallsNext, RpcArrives,
     RpcReturns, Connect, HttpRequest, HttpAnswer, RunEnds, Launch, Acquire,
     Release, Running, calls
<1>5. CASE Signal \/ Killed \/ GraceExpires
  BY <1>5 DEF Signal, Killed, GraceExpires, Running, calls
<1>6. CASE UNCHANGED processVars
  BY <1>6 DEF processVars, Running, calls
<1>7. QED
  BY <1>2, <1>3, <1>4, <1>5, <1>6 DEF ProcessNext

\* Executor.Wait misses no run: none starts once it has been called, for any
\* number of calls and runs.
THEOREM WaitMissesNoRun == ProcessSpec => NoLaunchWhileWaiting
<1>1. ProcessInv /\ [ProcessNext]_processVars
        => [Running' \subseteq Running \/ stopper \notin AtWait]_processVars
  BY OnlyLaunchAdds
<1>2. QED
  BY <1>1, ProcessInvariant, PTL DEF ProcessSpec, NoLaunchWhileWaiting

----------------------------------------------------------------------------
(* The pool of the process is a ConnectionPool *)

\* Only Close closes the pool.
ClosedByClose == pool = "closing" => stopper \in {"close", "reclose"}

\* The pool is being closed only while the goroutine is at one of its two calls
\* of Close.
LEMMA ClosedByCloseKeeps ==
    ASSUME ProcessInv, ClosedByClose, [ProcessNext]_processVars
    PROVE  ClosedByClose'
<1>1. CASE MainNext
  <2>1. CASE Migrate \/ BeginStop
    BY <2>1 DEF ProcessInv, ClosedByClose, StaysStopped, Migrate, BeginStop,
       database
  <2>2. CASE ~(Migrate \/ BeginStop)
    BY <1>1, <2>2 DEF MainNext, SetUpProvider, ShutdownProvider, SetUpFails,
       InitServices, StartServer, MainReturns, ForcedExit, ProcessEnds,
       ClosedByClose, database
  <2>3. QED
    BY <2>1, <2>2
<1>2. CASE StopperNext
  BY <1>2 DEF StopperNext, GracefulStop, HttpShutdown, ExecutorWait,
     BeginClose, EndClose, CloseIdle, StopperAt, ClosedByClose,
     control, database
<1>3. CASE CallsNext
  BY <1>3 DEF CallsNext, RpcArrives, RpcReturns, Connect, HttpRequest,
     HttpAnswer, RunEnds, Launch, Acquire, Release,
     ClosedByClose, control, database
<1>4. CASE \/ Signal \/ Killed \/ GraceExpires
          \/ UNCHANGED processVars
  BY <1>4 DEF Signal, Killed, GraceExpires, processVars,
     ClosedByClose, control, database
<1>5. QED
  BY <1>1, <1>2, <1>3, <1>4 DEF ProcessNext

\* One step of the abstract pool, or none.
SharedStep == [Shared!ConnectionPoolNext]_<<pool, users>>

\* main.run opens a pool to migrate, before anything can close one.
LEMMA MainNextShares ==
    ASSUME ProcessInv, ClosedByClose, MainNext
    PROVE  SharedStep
<1>1. CASE Migrate
  <2>1. stopper = "idle"
    BY <1>1 DEF Migrate, ProcessInv, StaysStopped
  <2>2. pool # "closing"
    BY <2>1 DEF ClosedByClose
  <2>3. pool \in {"none", "open"} /\ pool' \in {pool, "open"} /\ users' = users
    BY <1>1, <2>2 DEF Migrate, ProcessInv, ProcessTypeOK
  <2>4. QED
    BY <2>3 DEF SharedStep, Shared!ConnectionPoolNext, Shared!Open
<1>2. CASE ~Migrate
  <2>1. UNCHANGED database
    BY <1>2 DEF MainNext, SetUpProvider, ShutdownProvider, SetUpFails,
       InitServices, StartServer, BeginStop, MainReturns, ForcedExit,
       ProcessEnds
  <2>2. QED
    BY <2>1 DEF SharedStep, database
<1>3. QED
  BY <1>1, <1>2

\* The second Close finds no pool, unless a callback has opened another.
LEMMA StopperNextShares ==
    ASSUME ProcessInv, StopperNext
    PROVE  SharedStep
<1>1. CASE BeginClose
  BY <1>1 DEF BeginClose, SharedStep, Shared!ConnectionPoolNext,
     Shared!BeginClose
<1>2. CASE EndClose
  <2>1. pool \in {"none", "closing"}
    BY <1>2 DEF EndClose, ProcessInv, ProcessTypeOK
  <2>2. QED
    BY <1>2, <2>1 DEF EndClose, SharedStep, Shared!ConnectionPoolNext,
       Shared!EndClose
<1>3. CASE ~(BeginClose \/ EndClose)
  <2>1. UNCHANGED database
    BY <1>3 DEF StopperNext, GracefulStop, HttpShutdown, ExecutorWait,
       CloseIdle
  <2>2. QED
    BY <2>1 DEF SharedStep, database
<1>4. QED
  BY <1>1, <1>2, <1>3

\* Whoever gets a connection gets one of an open pool.
LEMMA CallsNextShares ==
    ASSUME CallsNext
    PROVE  SharedStep
<1>1. ASSUME NEW c \in Clients, Acquire(c)
      PROVE  SharedStep
  BY <1>1 DEF Acquire, SharedStep, Shared!ConnectionPoolNext, Shared!Lease
<1>2. ASSUME NEW c \in Clients, Release(c)
      PROVE  SharedStep
  BY <1>2 DEF Release, SharedStep, Shared!ConnectionPoolNext, Shared!Return
<1>3. CASE UNCHANGED database
  BY <1>3 DEF SharedStep, database
<1>4. QED
  BY <1>1, <1>2, <1>3 DEF CallsNext, RpcArrives, RpcReturns, Connect,
     HttpRequest, HttpAnswer, RunEnds, Launch

\* The pool that the process shares behaves as the one of the manager, PgPool:
\* both implement ConnectionPool, for any number of clients.
THEOREM ProcessSharesPool == ProcessSpec => SharesPool
<1>1. ProcessInit => Shared!ConnectionPoolInit
  BY DEF ProcessInit, Shared!ConnectionPoolInit
<1>2. ClosedByClose /\ ProcessInv /\ [ProcessNext]_processVars => SharedStep
  <2> SUFFICES ASSUME ClosedByClose, ProcessInv, [ProcessNext]_processVars
               PROVE  SharedStep
    OBVIOUS
  <2>1. CASE MainNext \/ StopperNext \/ CallsNext
    BY <2>1, MainNextShares, StopperNextShares, CallsNextShares
  <2>2. CASE \/ Signal \/ Killed \/ GraceExpires
            \/ UNCHANGED processVars
    BY <2>2 DEF Signal, Killed, GraceExpires, processVars, SharedStep,
       database
  <2>3. QED
    BY <2>1, <2>2 DEF ProcessNext
<1>3. ProcessInit => ClosedByClose
  BY DEF ProcessInit, ClosedByClose
<1>4. /\ ClosedByClose /\ ProcessInv /\ [ProcessNext]_processVars
      => ClosedByClose'
  BY ClosedByCloseKeeps
<1>5. QED
  BY <1>1, <1>2, <1>3, <1>4, ProcessInvariant, PTL
     DEF ProcessSpec, SharesPool, Shared!ConnectionPoolSpec, SharedStep

----------------------------------------------------------------------------
(* The composition with the migrations *)

\* A step of the composition is one of the process, or leaves it alone.
LEMMA StepOfProcess ==
    ASSUME [InstanceNext]_instanceVars
    PROVE  [ProcessNext]_processVars
<1>1. CASE CallMigrate
  BY <1>1 DEF CallMigrate, ProcessNext, MainNext
<1>2. CASE MigrateReturns
  BY <1>2 DEF MigrateReturns, ProcessNext, MainNext
<1>3. CASE RunMigrate \/ ProcessGoes \/ OthersGo
  BY <1>3 DEF RunMigrate, ProcessGoes, OthersGo
<1>4. CASE UNCHANGED instanceVars
  BY <1>4 DEF instanceVars
<1>5. QED
  BY <1>1, <1>2, <1>3, <1>4 DEF InstanceNext

\* A step of the composition is one of the instances, or leaves the database
\* alone.
LEMMA StepOfMigrations ==
    ASSUME [InstanceNext]_instanceVars
    PROVE  [MigrationNext]_migrationVars
<1>1. CASE CallMigrate \/ RunMigrate
  BY <1>1, InstanceAssumption DEF CallMigrate, RunMigrate, MigrationNext
<1>2. CASE MigrateReturns
  BY <1>2 DEF MigrateReturns
<1>3. CASE ProcessGoes
  BY <1>3, InstanceAssumption DEF ProcessGoes, SchemaKept, MigrationNext
<1>4. CASE OthersGo
  BY <1>4 DEF OthersGo, MigrationNext
<1>5. CASE UNCHANGED instanceVars
  BY <1>5 DEF instanceVars
<1>6. QED
  BY <1>1, <1>2, <1>3, <1>4, <1>5 DEF InstanceNext

\* The process of an instance is a process of ServerProcess, whatever the
\* database does: all that is proved of ProcessSpec holds of it.
THEOREM InstanceIsProcess == InstanceSpec => ProcessSpec
<1>1. InstanceInit => ProcessInit
  BY DEF InstanceInit
<1>2. [InstanceNext]_instanceVars => [ProcessNext]_processVars
  BY StepOfProcess
<1>3. QED
  BY <1>1, <1>2, PTL DEF InstanceSpec, ProcessSpec

\* The instance that the process belongs to migrates as Migrations says: all
\* that is proved of MigrationSpec holds of the composition.
THEOREM InstanceMigrates == InstanceSpec => MigrationSpec
<1>1. InstanceInit => MigrationInit
  BY DEF InstanceInit
<1>2. [InstanceNext]_instanceVars => [MigrationNext]_migrationVars
  BY StepOfMigrations
<1>3. QED
  BY <1>1, <1>2, PTL DEF InstanceSpec, MigrationSpec

\* Another instance, or the repair, does not move Self.
LEMMA OthersKeepSelf ==
    ASSUME MigrationInv, OthersGo
    PROVE  pc'[Self] = pc[Self]
<1>1. pc \in [Instances -> InstancePC]
  BY DEF MigrationInv, MigrationTypeOK
<1>2. CASE Repair
  BY <1>2 DEF Repair
<1>3. ASSUME NEW i \in Instances \ {Self},
             Start(i) \/ MigrateStep(i) \/ Crash(i)
      PROVE  pc'[Self] = pc[Self]
  BY <1>1, <1>3, InstanceAssumption DEF Start, MigrateStep, Crash,
     PrepareSchema, CheckVersion, TakeLock, LockTimesOut, ReadVersion,
     BeginMigration, ApplyMigration, MigrationFails, EndMigration, Goto
<1>4. QED
  BY <1>2, <1>3 DEF OthersGo

\* No step of the process alone brings it to its servers but by StartServer.
LEMMA ServersStartOnce ==
    ASSUME SelfServes, ProcessNext,
           main \in {"services", "migrate"} => main' \in {main, "gone"}
    PROVE  /\ main' \in {"listen", "serving"} => main \in {"listen", "serving"}
           /\ grpc' # "none" => grpc # "none" \/ main \in {"listen", "serving"}
           /\ main' \in {"otel", "services", "migrate"} =>
                 ~error' /\ grpc' = "none"
           /\ stopper' # "idle" => grpc' # "none"
           /\ main = "gone" => main' = "gone"
<1>1. CASE CallsNext
  BY <1>1 DEF CallsNext, RpcArrives, RpcReturns, Connect, HttpRequest,
     HttpAnswer, RunEnds, Launch, Acquire, Release, control, servers,
     SelfServes
<1>2. CASE StopperNext
  BY <1>2 DEF StopperNext, GracefulStop, HttpShutdown, ExecutorWait,
     BeginClose, EndClose, CloseIdle, StopperAt, control, servers, SelfServes
<1>3. CASE Signal \/ Killed \/ GraceExpires
  BY <1>3 DEF Signal, Killed, GraceExpires, servers, SelfServes
<1>4. CASE MainNext
  <2>1. CASE \E i \in DOMAIN Providers : SetUpProvider(i)
    BY <2>1 DEF SetUpProvider, servers, SelfServes
  <2>2. CASE \E i \in DOMAIN Providers : ShutdownProvider(i)
    BY <2>2 DEF ShutdownProvider, servers, SelfServes
  <2>3. CASE SetUpFails \/ MainReturns \/ ForcedExit \/ ProcessEnds
    BY <2>3 DEF SetUpFails, MainReturns, ForcedExit, ProcessEnds, servers,
       SelfServes
  <2>4. CASE InitServices \/ Migrate
    BY <2>4 DEF InitServices, Migrate, ReturnError, servers, SelfServes
  <2>5. CASE StartServer
    BY <2>5 DEF StartServer, ReturnError, servers, SelfServes
  <2>6. CASE BeginStop
    BY <2>6 DEF BeginStop, SelfServes
  <2>7. QED
    BY <1>4, <2>1, <2>2, <2>3, <2>4, <2>5, <2>6 DEF MainNext
<1>5. QED
  BY <1>1, <1>2, <1>3, <1>4 DEF ProcessNext

\* A process that has come to its servers is an instance that serves.
LEMMA ServingKept ==
    ASSUME MigrationInv, SelfServes, [InstanceNext]_instanceVars
    PROVE  SelfServes'
<1>1. CASE CallMigrate
  BY <1>1 DEF SelfServes, CallMigrate, InitServices, ReturnError, Alive,
     servers
<1>2. CASE RunMigrate
  BY <1>2 DEF SelfServes, RunMigrate, processVars, control, servers, Alive
<1>3. CASE MigrateReturns
  BY <1>3 DEF SelfServes, MigrateReturns, Migrate, ReturnError, Alive,
     servers, migrationVars
<1>4. CASE ProcessGoes
  <2>1. main' # "gone" => UNCHANGED migrationVars
    BY <1>4 DEF ProcessGoes, SchemaKept
  <2>2. main' # "gone" => pc' = pc
    BY <2>1 DEF migrationVars
  <2>3. QED
    BY <1>4, <2>2, ServersStartOnce DEF ProcessGoes, SelfServes, Alive
<1>5. CASE OthersGo
  BY <1>5, OthersKeepSelf DEF SelfServes, OthersGo, processVars, control,
     servers, Alive
<1>6. CASE UNCHANGED instanceVars
  BY <1>6 DEF instanceVars, SelfServes, processVars, migrationVars, control,
     servers, Alive
<1>7. QED
  BY <1>1, <1>2, <1>3, <1>4, <1>5, <1>6 DEF InstanceNext

\* As long as the process takes calls, its schema is the latest, for any number
\* of instances and of migrations.
THEOREM ProcessServesMigrated == InstanceSpec => []ServesMigrated
<1>1. InstanceInit => SelfServes
  BY DEF InstanceInit, ProcessInit, SelfServes
<1>2. MigrationInv /\ SelfServes /\ [InstanceNext]_instanceVars => SelfServes'
  BY ServingKept
<1>3. InstanceSpec => []MigrationInv
  BY InstanceMigrates, MigrationInvariant, PTL
<1>4. MigrationInv /\ SelfServes => ServesMigrated
  BY InstanceAssumption DEF MigrationInv, SelfServes, ServesMigrated,
     ServesLatest
<1>5. QED
  BY <1>1, <1>2, <1>3, <1>4, PTL DEF InstanceSpec
==============================================================================
