CONSTANTS
    s1 = s1
    s2 = s2
    s3 = s3
    Servers = {s1, s2, s3}
    None = None
    Candidates = {s1, s3}
    MaxTerm = 4
    MaxIndex = 2
    MaxSnapshots = 1
    MaxRestarts = 1
    MaxReplies = 1
SPECIFICATION MCSpec
VIEW View
CHECK_DEADLOCK FALSE
INVARIANTS
    TypeOK
    ElectionSafety
    IndexesInRange
    LogMatching
    LeaderCompleteness
    MatchedIsStored
    AppliedAgree
    AppliedInOrder
PROPERTIES
    CommittedStays
