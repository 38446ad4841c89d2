SPECIFICATION InstanceSpec
CONSTANTS
    i1 = i1
    i2 = i2
    p1 = p1
    h1 = h1
    h2 = h2
    r1 = r1
    r2 = r2
    Instances <- TwoInstances
    Self <- i1
    NoOne = NoOne
    Latest = 2
    Rpcs <- OneRpc
    Conns <- TwoConns
    Runs <- TwoRuns
    Collector = Collector
INVARIANTS
    WorkEndsBeforeClose
    OrderlyExit
    ProvidersShutDown
    ServesLatest
    ServesMigrated
    AppliedOnce
PROPERTIES
    NoLaunchWhileWaiting
    SignalEndsProcess
    StartEnds
CHECK_DEADLOCK FALSE
