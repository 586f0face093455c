CONSTANTS
    s1 = s1
    s2 = s2
    s3 = s3
    s4 = s4
    c1 = c1
    c2 = c2
    v1 = v1
    v2 = v2
    Nil = Nil
    Servers = {s1, s2, s3}
    Clients = {c1}
    Values = {v1, v2}
    Home <- MCHome
    Input <- MCInput
    Impatient = {s3}
    Restarting = {}
    Durable = FALSE
    MaxBallot = 2
SPECIFICATION Spec
INVARIANTS
    Agreement
VIEW Effective
CHECK_DEADLOCK FALSE
