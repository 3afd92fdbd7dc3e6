CONSTANTS
    a = a  b = b  c = c
    x = x  y = y  z = z
    None = None
    NoType = ""
    Names <- TwoNames
    FactTexts <- AllFactTexts
    Lower <- TypeLower
    Title <- TypeTitle
    Aliases <- CanonicalAliases
    InitialGraphs <- EmptyOrTyped
    EntityBatches <- EntitiesWithFacts
    RelationBatches <- NoBatches
    ObservationBatches <- InputBatches
    Edits <- SomeEdits
    FactDeletions <- PairSets
    EntityDeletions <- NoBatches
    RelationDeletions <- NoBatches
    Moves <- IntoA
    Searches <- SomeSearches
    Trimmed <- TrimmedStrings
    Containing <- ContainingSome
    Depths = {}
    Times = {1, 2}
    Now = {2}
    MaxEntities = 2
    MaxFacts = 2
    MaxRelations = 0
SPECIFICATION Spec
INVARIANTS
    TypeOK
    AddObservationsOnlyCloses
    SupersedesApplied
    AddObservationsMatchesLoop
    ReplayIsNoOp
    NormalizeIsIdempotent
    ListAgreesWithSearch
PROPERTIES
    NothingForgotten
    TextsStayUnique
