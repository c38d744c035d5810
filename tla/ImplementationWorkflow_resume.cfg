SPECIFICATION FairSpec
CONSTANTS
    f1 = f1
    f2 = f2
    f3 = f3
    p1 = p1
    p2 = p2
    p3 = p3
    a = a
    b = b
    c = c
    d = d
    Files = {f1, f2, f3}
    Ids = {p1, p2, p3}
    Texts = {a, b, c, d}
    Plans <- MCPlans
    Original <- MCOriginal
    Tracked = {f1, f2}
    StopAfters = {1, 2, NoLimit}
    MaxCrashes = 2
    Absent = Absent
    NoState = NoState
    Torn = Torn
    NoLimit = NoLimit
CHECK_DEADLOCK FALSE
INVARIANTS
    TypeOK
    TargetFollowsState
PROPERTIES
    VerificationPreserved
    ImplementsLedger
    InvocationReturns
