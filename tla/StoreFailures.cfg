CONSTANTS
    f1 = f1  f2 = f2
    p1 = p1  p2 = p2
    m1 = m1  m2 = m2  m3 = m3
    r1 = r1  r2 = r2
    t1 = t1  t2 = t2
    Files <- MCFiles
    Paths <- MCPaths
    PathOf <- MCPathOf
    Requests <- MCFewRequests
    Mutations <- MCMutations
    FileOf <- MCFileOf
    None = None
    NoFile = NoFile
    Threads <- MCThreads
    Failures = {"load", "stat", "save", "crash", "power"}
SPECIFICATION Spec
SYMMETRY ThreadSymmetry
INVARIANTS
    TypeOK
    NoTornFile
    AckedDurable
    RequestsSeeAcked
    NoDirtyReads
    MemoryMatchesDisk
PROPERTIES
    PlatterNeverRegresses
    AtomicSpec
