SPECIFICATION FairSpec
CONSTANTS
    d1 = d1
    d2 = d2
    d3 = d3
    d4 = d4
    d5 = d5
    d6 = d6
    Docs = {d1, d2, d3, d4, d5, d6}
    InitialTargets <- MCInitialTargets
    ChunkCount <- MCChunkCount
    FollowupDepth = 2
    MaxFollowupFiles = 3
    Parallelisms = {1, 3}
    StopAfters = {2, NoLimit}
    NoLimit = NoLimit
    NoState = NoState
    Torn = Torn
CHECK_DEADLOCK FALSE
INVARIANTS
    TypeOK
    ReportsFollowQueue
    FollowupsBounded
PROPERTIES
    ImplementsLedger
    InvocationReturns
