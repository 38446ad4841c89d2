SPECIFICATION Spec
CONSTANTS
    Names = {n1}
    Creators = {c1}
    Cancellers = {k1}
    Inputs <- FactsOrBlank
    NoInput = NoInput
    NoName = NoName
    BlankTexts = {" "}
    MaxFaults = 0
    MaxExits = 0
PROPERTIES
    CancelSparesTerminal
