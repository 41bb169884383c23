CONSTANTS
    p1 = p1
    p2 = p2
    NoTimer = NoTimer
    Pages = {p1, p2}
    Invalid = {2}
    MaxEdits = 2
    MaxFaults = 1
    MaxClicks = 2
SPECIFICATION Spec
INVARIANTS EditsCarried PublishAfterSave
PROPERTY VersionsAreSnapshots
SYMMETRY PageSymmetry
