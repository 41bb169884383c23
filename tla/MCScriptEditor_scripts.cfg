CONSTANTS
    Terminal = Terminal
    Nowhere = Nowhere
    Raws <- MCRaws
    VarKeys = {"x"}
    MaxSections = 5
    MaxEdits = 3
    MaxAsks = 2
SPECIFICATION Spec
INVARIANTS TypeOK RunnerCoversScript ToldIsCurrent NeverBothValid
CHECK_DEADLOCK FALSE
