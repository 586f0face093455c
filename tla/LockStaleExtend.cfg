CONSTANTS
    a = a
    b = b
    p1 = p1
    Sessions = {a, b}
    Paths = {p1}
    Free = Free
    NoFile = NoFile
    NoLease = NoLease
    Undecided = Undecided
    Nil = Nil
    DefaultLease = 2
    Refresh = 1
    NServers = 2
    InitLog <- Held
    UserOps <- Users
    Closers = {}
    StartTime = 1
    MaxTime = 5
    MaxSeq <- Seq4
    MaxSlots = 8
    MaxFillers = 1
    Restarting = {0}
    MaxRestarts = 0
    MaxRevokes = 1
    MaxFails = 0
SPECIFICATION Spec
INVARIANT MutualExclusion
CONSTRAINT Scenario
