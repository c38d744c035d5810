SPECIFICATION Spec
CONSTANTS
    Subjects <- MCSubjects
    Arguments <- MCArguments
    Citations <- MCCitations
    MaxOutlineEntries = 2
    MaxQueryMatches = 2
    MaxModelRecords = 1
    MaxSummaries = 2
    MaxSummaryDepth = 2
    MaxFailures = 1
    NoLimit = 10
    NoState = NoState
    Torn = Torn
    Nothing = Nothing
CHECK_DEADLOCK FALSE
INVARIANTS
    TypeOK
    MatchesFollowDocument
    HeadingsFollowDocument
    AnswersFollowChunks
PROPERTIES
    ImplementsScan
