SPECIFICATION Spec
CONSTANTS
    Names = {n1}
    Creators = {c1, c2}
    Cancellers = {k1, k2}
    Inputs <- FactsOrBlank
    NoInput = NoInput
    NoName = NoName
    BlankTexts = {" "}
    MaxFaults = 2
    MaxExits = 1
SYMMETRY Symmetry
INVARIANTS
    OneVerdict
    SignalFollowsWrite
    CancelOkIsTerminal
    IInv
    NoLostCancel
PROPERTIES
    NeverRelaunched
    ImplementsLifecycle
