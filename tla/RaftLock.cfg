CONSTANTS
    a = a
    b = b
    d = d
    p1 = p1
    p2 = p2
    Sessions = {a, b, d}
    Paths = {p1, p2}
    Free = Free
    NoFile = NoFile
    NoLease = NoLease
    DefaultLease = 2
    Refresh = 1
    NServers = 2
    UserOps <- Users
    Closers = {d}
    StartTime = 3
    MaxTime = 4
    MaxSeq <- Seqs
    MaxStarts = 3
    MaxTerm = 2
    Restarting = {0}
    MaxRestarts = 1
    MaxRevokes = 1
    MaxFails = 1
SPECIFICATION MCSpec
INVARIANTS
    TypeOK
    MutualExclusion
    BelievedIsHeld
    AnsweredIsCommitted
PROPERTIES
    RequestReturns
