--------------------------- MODULE MCCreditLedger ---------------------------
EXTENDS CreditLedger, TLC

CONSTANTS p1, p2, p3, c1, welcome

ProcSymmetry == Permutations(Procs)
=============================================================================
