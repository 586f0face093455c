CONSTANTS
    a = a
    b = b
    p1 = p1
    Sessions = {a, b}
    Paths = {p1}
    Free = Free
    NoFile = NoFile
    NoLease = NoLease
    Undecided = Undecided
    Nil = Nil
    DefaultLease = 2
    Refresh = 1
    NServers = 2
    InitLog <- Created
    UserOps <- Users
    Closers = {}
    StartTime = 0
    MaxTime = 0
    MaxSeq <- Seq3
    MaxSlots = 5
    MaxFillers = 1
    Restarting = {0}
    MaxRestarts = 1
    MaxRevokes = 1
    MaxFails = 1
SPECIFICATION FaultSpec
INVARIANTS
    TypeOK
    AnsweredIsDecided
    ReleasedStays
PROPERTIES
    RequestReturns
