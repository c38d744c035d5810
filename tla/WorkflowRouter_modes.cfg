SPECIFICATION Spec
CONSTANTS
    docs_slash_a = docs_slash_a
    docs_dash_a = docs_dash_a
    notes = notes
    x = x
    y = y
    Absent = Absent
    Files <- MCFiles
    Texts <- MCTexts
    InitialTree <- MCInitialTree
    Revisions <- MCRevisions
    MaxEdits = 2
    Tracked <- MCTracked
    BackupNames <- MCBackupNames
    BackupName <- MCBackupName
    Requests <- MCRequests
    ModelLimit = 10
    TargetInputLimit = 8
    SafetyBuffer = 2
    DefaultMaxOutput = 6
    MinAvailableOutput = 2
    Prompts <- MCPrompts
    MaxModelCalls = 10
    MaxOutputTokens = 5
INVARIANTS
    TypeOK
    ForwardedFits
    RunStateIsTrue
    FinishedIsProven
    RollbackRestores
CHECK_DEADLOCK FALSE
