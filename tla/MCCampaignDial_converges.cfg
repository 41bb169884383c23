SPECIFICATION FairSpec
CONSTANTS
    c1 = c1
    c2 = c2
    c3 = c3
    w1 = w1
    w2 = w2
    Contacts = {c1, c2, c3}
    Barred = {c3}
    Workers = {w1}
    MaxAttempts = 2
    DefaultMax = 2
    BatchSize = 1
    OldRows = FALSE
    FailedRoom = {"none"}
    Orderly = TRUE
    Budget <- OneLost
    Faulty = {}
PROPERTY Converges
