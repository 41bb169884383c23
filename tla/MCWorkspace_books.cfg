SPECIFICATION Spec
CONSTANTS
    u1 = u1
    u2 = u2
    u3 = u3
    q1 = q1
    q2 = q2
    t1 = t1
    t2 = t2
    o1 = o1
    o2 = o2
    a1 = a1
    b1 = b1
    b2 = b2
    n1 = n1
    r1 = r1
    r2 = r2
    Gone = Gone
    NoPhone = NoPhone
    NoScript = NoScript
    NoSession = NoSession
    NoInvite = NoInvite
    NoContact = NoContact
    NoRow = NoRow
    NoAgent = NoAgent
    Users = {u1, u2, u3}
    Founder = u1
    NewRoles = {"member", "admin", "owner"}
    Requests = {q1, q2}
    Tabs = {t1, t2}
    MaxTokens = 2
    MaxAsks = 3
    MaxSignups = 1
    Bookers = {q1, q2}
    Writers = {q1, q2}
    Clerks = {q1, q2}
    Windows <- MCWindows
    DayLength = 2
    MaxBookings = 2
    MaxChanges = 1
    MaxJobs = 3
    MaxNotes = 3
    Orgs = {o1, o2}
    Agents = {a1}
    MaxRegistrations = 3
    MaxUpdates = 2
    RateLimit = 2
    MaxAsked = 2
    MaxEdits = 1
    MaxSaves = 2
    MaxLost = 1
    Sessions = {b1, b2}
    MaxCallFaults = 2
    MaxDials = 1
    Rows = {r1, r2}
    People = {r1}
    MaxSent = 3
    MaxMoves = 1
    MaxClicks = 2
    MaxTurns = 4
    Links = {r1}
    Phones = {n1}
    MaxOrders = 2
SYMMETRY WorkspaceSymmetry
INVARIANTS GrantedAsMailed OwnerRemains Housed OverlapsExplained ContactAgrees BarredNotCalled NumberOwned MadeAsAsked CallsShown PagesTold
CHECK_DEADLOCK FALSE
