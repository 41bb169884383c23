SPECIFICATION Spec
CONSTANTS
    c1 = c1
    w1 = w1
    Contacts = {c1}
    Barred = {}
    Workers = {w1}
    MaxAttempts = 2
    DefaultMax = 2
    BatchSize = 1
    OldRows = TRUE
    FailedRoom = {"none"}
    Orderly = TRUE
    Budget <- OneRefusal
    Faulty = {}
INVARIANT NoDoubleDial
