----------------------------- MODULE MCWorkspace -----------------------------
EXTENDS Workspace, TLC

CONSTANTS u1, u2, u3, q1, q2, t1, t2, o1, o2, a1, b1, b2, n1, r1, r2

\* The second crosses midnight, which is at 2; the last ends before it begins.
MCWindows == {[from |-> 0, to |-> 2], [from |-> 1, to |-> 3], [from |-> 2, to |-> 4],
              [from |-> 3, to |-> 1]}

\* The same two requests serve every book.
WorkspaceSymmetry ==
    Permutations(Users \ {Founder}) \cup Permutations(Tabs)
    \cup Permutations(Requests)
==============================================================================
