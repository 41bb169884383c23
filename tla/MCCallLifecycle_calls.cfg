CONSTANTS
    q1 = q1
    q2 = q2
    Origins = {"campaign", "web", "test", "inbound", "prefixed", "legacy"}
    Rows = {1, 2}
    Requests = {q1, q2}
    Statuses = {"COMPLETED", "BUSY"}
    Estimate = 5
    Minute = 2
    MaxFaults = 1
SYMMETRY RequestSymmetry
SPECIFICATION Spec
INVARIANTS CountedOnce AdmittedIsBilled SettledWhenServed FinishedWhenQuiet
PROPERTY TerminalKept
