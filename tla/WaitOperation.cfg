SPECIFICATION WaitSpec
CONSTANTS
    Names = {n1}
    Creators = {c1}
    Cancellers = {k1}
    Inputs <- FactsOrBlank
    NoInput = NoInput
    NoName = NoName
    BlankTexts = {" "}
    MaxFaults = 1
    MaxExits = 0
    Waiters = {w1, w2}
INVARIANTS
    WaitTypeOK
    NoLostWakeup
PROPERTIES
    
    CancelStopsRun
    EventuallyDecided
