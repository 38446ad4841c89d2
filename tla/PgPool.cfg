SPECIFICATION FairPoolSpec
CONSTANTS
    c1 = c1
    c2 = c2
    Callers <- TwoCallers
    Main = Main
    NoOne = NoOne
    Pools = {p1, p2, p3}
    NoPool = NoPool
    MaxConns = 1
    MaxCloses = 2
INVARIANTS
    NoLeak
    PoolInv
PROPERTIES
    ImplementsPool
    ReadsOpenPool
    EveryCallReturns
    Reconnects
