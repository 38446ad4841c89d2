SPECIFICATION FairDeploymentSpec
CONSTANTS
    s1 = s1
    s2 = s2
    s3 = s3
    Stacks <- ThreeStacks
    Given <- Shared
    Beginnings <- UnderWay
    Hardened = TRUE
    OperatorInGiven = FALSE
    Exposed = TRUE
CHECK_DEADLOCK FALSE
INVARIANTS
    DatabaseGuarded
    NatsGuarded
    SameStackClients
PROPERTIES
    UpCompletes
