CONSTANTS
    a = a  b = b
    x = x  y = y  z = z  w = w
    None = None
    NoType = ""
    Names <- TwoNames
    FactTexts <- Wordings
    Lower <- NoTypes
    Title <- NoTypes
    Aliases <- NoTypes
    InitialGraphs <- Undated
    EntityBatches <- NoBatches
    RelationBatches <- NoBatches
    ObservationBatches <- Records
    Edits <- Rewordings
    FactDeletions <- NoBatches
    EntityDeletions <- NoBatches
    RelationDeletions <- NoBatches
    Moves <- IntoA
    DaySeconds = 24
    HourSeconds = 1
    Precision = 2
    Written <- UnpaddedForms
    Times <- Places
    Now <- ServerClock
    Real <- Instant
    MaxEntities = 2
    MaxFacts = 4
    MaxRelations = 0
    Subject = a
    Queries <- Pages
SPECIFICATION HistorySpec
INVARIANT AsOfTellsTheTime
