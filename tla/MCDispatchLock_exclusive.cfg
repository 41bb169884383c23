SPECIFICATION GuardsSpec
CONSTANTS
    s1 = s1
    s2 = s2
    s3 = s3
    r1 = r1
    r2 = r2
    p1 = p1
    p2 = p2
    Starts = {s1, s2, s3}
    Refills = {r1, r2}
    Processes = {p1, p2}
    ProcessOf <- TwoProcesses
    d1 = d1
    d2 = d2
    d3 = d3
    org = org
    n1 = n1
    n2 = n2
    Layers = {org, n1, n2}
    LayerLimit <- OrgAndNumbers
    Dials = {d1, d2, d3}
    LayersOf <- DialLayers
    MaxDialFaults = 1
    MaxTries = 2
    c1 = c1
    c2 = c2
    j1 = j1
    j2 = j2
    j3 = j3
    v1 = v1
    v2 = v2
    NoCall = NoCall
    NoConfig = NoConfig
    Calls = {c1, c2}
    Kinds <- TestAndOther
    VoiceJobs = {j1, j2, j3}
    JobProcess <- TwoVoiceProcesses
    MaxRevisions = 2
    MaxRedisFaults = 2
INVARIANTS Exclusive DialsGoverned ConfigIsCalls
CHECK_DEADLOCK FALSE
