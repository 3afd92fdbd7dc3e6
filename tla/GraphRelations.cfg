CONSTANTS
    a = a  b = b  c = c
    x = x  y = y  z = z
    None = None
    NoType = ""
    Names <- AllNames
    FactTexts <- AllFactTexts
    Lower <- PlainLower
    Title <- PlainTitle
    Aliases <- NoAliases
    InitialGraphs <- EmptyOrLegacy
    EntityBatches <- OneEntity
    RelationBatches <- OneRelation
    ObservationBatches <- NoBatches
    Edits <- NoBatches
    FactDeletions <- NoBatches
    EntityDeletions <- Singletons
    RelationDeletions <- OneKey
    Moves <- AllMoves
    Searches <- NoBatches
    Trimmed <- EmptyString
    Containing <- NoAliases
    Depths = {None, 0, 3}
    Times = {1, 2}
    Now = {1, 2}
    MaxEntities = 2
    MaxFacts = 0
    MaxRelations = 2
SPECIFICATION Spec
SYMMETRY NameSymmetry
INVARIANTS
    UniqueNames
    RenameReversible
    NeighbourhoodIsBall
    PagesShowEachRelation
    PageAgreesWithDrawing
    MergeUnites
    DedupeMatchesLoop
PROPERTIES
    KeysStayUnique
    NoNewDangling
    ChangesAreStamped
