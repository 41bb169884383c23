-------------------------- MODULE MCCallLifecycle --------------------------
EXTENDS CallProps, TLC

CONSTANTS q1, q2

RequestSymmetry == Permutations(Requests)
=============================================================================
