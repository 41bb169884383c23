-------------------------- MODULE MCCampaignDial --------------------------
EXTENDS CampaignProps, TLC

\* how much the environment may do in one run
Refusals == [refusals |-> 2, errors |-> 1, crashes |-> 0, lost |-> 1]
OneCrash == [refusals |-> 0, errors |-> 1, crashes |-> 1, lost |-> 1]
OneLost == [refusals |-> 1, errors |-> 0, crashes |-> 0, lost |-> 1]
OneRefusal == [refusals |-> 1, errors |-> 0, crashes |-> 0, lost |-> 0]
OneStop == [refusals |-> 0, errors |-> 0, crashes |-> 1, lost |-> 0]
NoFaults == [refusals |-> 0, errors |-> 0, crashes |-> 0, lost |-> 0]

WorkerSymmetry == Permutations(Workers)
=============================================================================
