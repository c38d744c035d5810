SPECIFICATION Spec
CONSTANTS
    NoRecord = NoRecord
    Runs = {r1}
    Threads = {t1, t2}
INVARIANT
    DeletedIsNotFound
