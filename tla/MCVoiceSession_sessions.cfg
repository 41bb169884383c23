CONSTANTS
    j1 = j1
    j2 = j2
    Jobs = {j1, j2}
    Limit = 1
    Recorded = {j1}
    MaxFaults = 1
SPECIFICATION Spec
INVARIANTS WithinLimit SlotsReturned KnownHoldSettled CallerGoneEnds
