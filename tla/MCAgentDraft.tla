---------------------------- MODULE MCAgentDraft ----------------------------
EXTENDS DraftProps, TLC

CONSTANTS p1, p2

PageSymmetry == Permutations(Pages)
=============================================================================
