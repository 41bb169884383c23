----------------------------- MODULE CallProps -----------------------------
(***************************************************************************)
(* What must hold of one call, however its webhooks, its dialer, its agent *)
(* and the sweep interleave.  Nothing is assumed fair: every behaviour is  *)
(* finite, a run that can go no further must be Quiet (deadlock is checked *)
(* with Rest as the only stutter), and what must happen in the end is      *)
(* stated of the Quiet states.                                             *)
(***************************************************************************)
EXTENDS CallLifecycle

\* However often the end of a call is reported (room_finished twice, several
\* terminal Plivo statuses), the campaign's callsCompleted counts it once.
CountedOnce == counted <= 1

\* An agent talks only on a call the account has been charged a hold for, or has
\* already been billed: nobody is served for nothing (tests are free), nor on a call
\* whose hold was given back because no agent came.
AdmittedIsBilled ==
    \A r \in Rows : runtime[r] = "talking" /\ origin # "test" =>
        stage[r] \in {"held", "settled"}

\* A finished call stays finished as it was: late, repeated and reordered
\* webhooks change no terminal status.  Two writers are excused.  room_finished
\* may complete a call the sweep had failed as stale; the campaign's dialer and its
\* sweep, and no webhook, write DIALING and FAILED over whatever the row says.
TerminalKept == [][\A r \in Rows :
    call[r].status \in Terminal /\ call'[r].status # call[r].status =>
        \/ call[r].stale /\ call'[r].status = "COMPLETED"
        \/ /\ contact # "none" /\ (dial' # dial \/ sweep' # sweep)
           /\ call'[r].status \in {"DIALING", "FAILED"}]_vars

\* A session that served a call to its end leaves it settled even if any one of
\* the settlement ping, the agent's process, a webhook or its handler fails: the
\* two settlements cover for each other.  For a test only the webhook settles, and
\* the room of a call to a provisioned inbound number resolves to no row at its end.
SettledWhenServed ==
    Quiet => \A r \in Rows :
        runtime[r] = "done" /\ origin \notin {"prefixed", "test"} => stage[r] = "settled"

\* When nothing went wrong and nothing is left to happen, however the events were
\* ordered, everything about the call has been finished: its hold was released (of a
\* call no agent took, unless the hold and its release met and missed each other), a
\* call of a campaign is counted, an inbound call's row has ended (calls of provisioned
\* inbound numbers are the exception: their rooms' ends find no row).
FinishedWhenQuiet ==
    Quiet /\ faults = 0 =>
        /\ origin # "prefixed" => \A r \in Rows : stage[r] # "held"
        /\ \A r \in Rows : stage[r] = "stranded" => runtime[r] = "gone"
        /\ origin \in {"campaign", "legacy"} => counted = 1
        /\ origin = "inbound" => \A r \in Existing : call[r].status \in Terminal
=============================================================================
