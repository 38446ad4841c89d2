SPECIFICATION Spec
CONSTANTS
    Names = {n1, n2}
    Creators = {c1}
    Cancellers = {}
    Inputs <- FactsOrBlank
    NoInput = NoInput
    NoName = NoName
    BlankTexts = {" "}
    MaxFaults = 0
    MaxExits = 0
INVARIANTS
    UpdateMeansTerminal
