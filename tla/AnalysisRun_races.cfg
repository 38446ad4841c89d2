SPECIFICATION Spec
CONSTANTS
    Names = {n1, n2}
    Creators = {c1}
    Cancellers = {k1}
    Inputs <- FactsOrBlank
    NoInput = NoInput
    NoName = NoName
    BlankTexts = {" "}
    MaxFaults = 1
    MaxExits = 0
SYMMETRY Symmetry
INVARIANTS
    CacheUnambiguous
    OrphansAreFailures
    UpdateFollowsWrite
PROPERTIES
    RowsAreDurable
    AnswerIsRelevant
