SPECIFICATION Spec
CONSTANTS
    s1 = s1
    s2 = s2
    s3 = s3
    Skills = {s1, s2, s3}
    Seeded <- MCSeeded
    Batches <- MCBatches
    Threads = {t1}
    MaxVersion = 2
    None = None
INVARIANTS
    TypeOK
    FailureLeavesNoTrace
    UsableBetweenRequests
    BackupsSuffice
CHECK_DEADLOCK FALSE
