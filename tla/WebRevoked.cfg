CONSTANTS
    t1 = t1  t2 = t2
    f1 = f1  f2 = f2
    a = a  c = c
    x = x  y = y
    bob = bob
    key = key
    None = None
    NoType = ""
    Tokens = {t1, t2}
    Files = {f1, f2}
    Browsers = {bob}
    EnvSecrets = {None, key}
    Configs <- RevokingConfigs
    Names = {a}
    Lower <- PlainLower
    Title <- PlainTitle
    Aliases <- NoAliases
    InitialGraph <- OnlyC
    Edits <- EditA
    EntityBatches <- CreateA
    RelationBatches <- RelateA
    ObservationBatches <- ObserveA
    EntityDeletions <- DeleteC
    FactDeletions <- ForgetA
    RelationDeletions <- UnrelateA
    Moves <- MoveCToA
    MaxAge = 1
    MaxStarts = 2
    MaxTime = 2
    MaxLost = 1
    MaxRows = 2
    MaxFacts = 1
SPECIFICATION WebSpec
INVARIANTS
    RevokedAtOnce
