SPECIFICATION FairSpec
CONSTANTS
    NoRecord = NoRecord
    Runs = {r1}
    Threads = {t1, t2}
PROPERTY
    CancelEndsRun
