CONSTANTS
    a = a
    x = x  y = y  z = z
    c1 = c1  c2 = c2  c3 = c3
    None = None
    NoType = ""
    Lower <- NoTypes
    Title <- NoTypes
    Aliases <- NoTypes
    Names <- OneName
    FactTexts <- Wordings
    Times = {1}
    Clients <- ThreeClients
    Calls <- AllCalls
    InitialGraph <- NoGraph
    MaxFaults = 3
SPECIFICATION Spec
SYMMETRY ClientSymmetry
INVARIANTS
    OkMeansDurable
    RetriesAreInvisible
PROPERTIES
    DoneIsNotRefused
CHECK_DEADLOCK FALSE
