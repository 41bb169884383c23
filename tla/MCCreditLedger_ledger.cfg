CONSTANTS
    p1 = p1
    p2 = p2
    p3 = p3
    c1 = c1
    welcome = welcome
    NoKey = NoKey
    NoRow = NoRow
    NoOp = NoOp
    Calls = {c1}
    Procs = {p1, p2, p3}
    GrantKeys = {welcome}
    Estimate = 5
    Usages = {0, 7}
    Amounts = {3}
    MaxAttempts = 2
    MaxRequests = 4
SYMMETRY ProcSymmetry
SPECIFICATION Spec
INVARIANTS ReservedIsHeld CostIsCharge
PROPERTIES MoneyMovesWithRows ImplementsAtomicAccount BarrierUnlessTheyMeet
CHECK_DEADLOCK FALSE
