CONSTANTS
    a = a  b = b  c = c
    x = x  y = y  z = z
    None = None
    NoType = ""
    Names <- AllNames
    FactTexts <- AllFactTexts
    Lower <- PlainLower
    Title <- PlainTitle
    Aliases <- NoAliases
    InitialGraphs <- StartEmpty
    EntityBatches <- OneEntity
    RelationBatches <- OneRelation
    ObservationBatches <- NoBatches
    Edits <- NoBatches
    FactDeletions <- NoBatches
    EntityDeletions <- Singletons
    RelationDeletions <- OneKey
    Moves <- AllMoves
    Searches <- NoBatches
    Trimmed <- EmptyString
    Containing <- NoAliases
    Depths = {}
    Times = {1}
    Now = {1}
    MaxEntities = 3
    MaxFacts = 0
    MaxRelations = 2
SPECIFICATION Spec
SYMMETRY NameSymmetry
INVARIANTS
    MergeKeepsOtherLoops
