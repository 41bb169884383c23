SPECIFICATION Spec
CONSTANTS
    c1 = c1
    w1 = w1
    w2 = w2
    c2 = c2
    Contacts = {c1, c2}
    Barred = {}
    Workers = {w1, w2}
    MaxAttempts = 2
    DefaultMax = 2
    BatchSize = 1
    OldRows = FALSE
    FailedRoom = {"none"}
    Orderly = TRUE
    Budget <- Refusals
    Faulty = {}
SYMMETRY WorkerSymmetry
INVARIANTS OneAtATime CompletedIsDrained
PROPERTY NeverReopened
