CONSTANTS
    s1 = s1
    s2 = s2
    s3 = s3
    Servers = {s1, s2, s3}
    None = None
    Candidates = {s1, s3}
    MaxTerm = 4
    MaxIndex = 2
    MaxSnapshots = 0
    MaxRestarts = 1
    MaxReplies = 1
SPECIFICATION CrashSpec
CONSTRAINT Scenario
CHECK_DEADLOCK FALSE
INVARIANT
    AppliedAgree
