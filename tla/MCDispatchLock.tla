--------------------------- MODULE MCDispatchLock ---------------------------
EXTENDS RedisGuards, TLC

CONSTANTS s1, s2, s3, p1, p2, d1, d2, d3, org, n1, n2,
    c1, c2, j1, j2, j3, v1, v2

\* two requests reach one process, a third another
TwoProcesses == s1 :> p1 @@ s2 :> p1 @@ s3 :> p2

\* two dials from one number and one from another, of one organisation
OrgAndNumbers == org :> 2 @@ n1 :> 1 @@ n2 :> 1
DialLayers == d1 :> {org, n1} @@ d2 :> {org, n1} @@ d3 :> {org, n2}

\* a test call and one of another kind; two jobs in one voice process, one in another
TestAndOther == c1 :> {"test"} @@ c2 :> {"inbound", "outbound", "ruled"}
TwoVoiceProcesses == j1 :> v1 @@ j2 :> v1 @@ j3 :> v2
=============================================================================
