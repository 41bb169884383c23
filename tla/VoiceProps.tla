----------------------------- MODULE VoiceProps -----------------------------
(***************************************************************************)
(* What must hold of the voice runtime's jobs, however they are cancelled, *)
(* closed and killed.  As for calls, every behaviour is finite and must    *)
(* stop in a Quiet state.                                                  *)
(***************************************************************************)
EXTENDS VoiceSession

\* The jobs that were admitted and have not begun to give their slot back.
Admitted ==
    {j \in acquired : owner[j] # "dead" /\ cleanup[j] \in {"none", "close", "release"}}

\* However admissions, refusals, releases and expiry interleave, no more calls of
\* the tenant run at once than its plan allows, as long as the counter's TTL outlasts
\* them.
WithinLimit == ~outlived => Cardinality(Admitted) <= Limit

\* When all is quiet each slot was given back exactly once.  Without a kill or a
\* Redis error a slot stays taken only for a job that a shutdown cancelled while the
\* slot was being counted, one at most for each of them: no job cancelled before, in
\* its session or on its way out leaves one, and none gives back what it never had.
SlotsReturned == Quiet /\ faults = 0 => slots \in 0..Cardinality(torn)

\* A job that knows of its hold has it settled by the time it ends, whether it was
\* refused a slot, served, timed out or shut down.
KnownHoldSettled ==
    \A j \in reserved : owner[j] = "ended" => hold[j] = "settled" \/ faults > 0

\* A caller who leaves ends the session at once, also one who left before the job
\* knew whom to wait for: no agent stays on the line until the cap.
CallerGoneEnds ==
    \A j \in Jobs :
        owner[j] = "session" /\ caller[j] = "gone" /\ talk[j] # "waiting" => j \in ended
=============================================================================
