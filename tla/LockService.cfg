CONSTANTS
    a = a
    b = b
    p1 = p1
    Sessions = {a, b}
    Paths = {p1}
    Free = Free
    NoFile = NoFile
    NoLease = NoLease
    Undecided = Undecided
    Nil = Nil
    DefaultLease = 2
    Refresh = 1
    NServers = 2
    InitLog <- Held
    UserOps <- Users
    Closers = {}
    StartTime = 3
    MaxTime = 4
    MaxSeq <- Seq3
    MaxSlots = 5
    MaxFillers = 0
    Restarting = {1}
    MaxRestarts = 1
    MaxRevokes = 1
    MaxFails = 0
SPECIFICATION LeaseSpec
INVARIANTS
    BelievedIsHeld
PROPERTIES
    RevokedIsExpired
