SPECIFICATION FairSpec
CONSTANTS
    NoRecord = NoRecord
    Runs = {r1}
    Threads = {t1, t2}
INVARIANTS
    TypeOK
    NoTerminalWhileWorking
    CancelShownIsSignalled
    FinishedNotRunning
PROPERTIES
    StopSignalKept
    
    RunsSettle
