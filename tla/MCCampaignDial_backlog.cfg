SPECIFICATION Spec
CONSTANTS
    c1 = c1
    c2 = c2
    w1 = w1
    w2 = w2
    Contacts = {c1}
    Barred = {}
    Workers = {w1}
    MaxAttempts = 2
    DefaultMax = 2
    BatchSize = 1
    OldRows = TRUE
    FailedRoom = {"none", "ended"}
    Orderly = FALSE
    Budget <- OneCrash
    Faulty = {"claim_contact", "mint"}
INVARIANTS DialsWithinMax RetriesDeduped
