---------------------------- MODULE VoiceSession ----------------------------
(***************************************************************************)
(* The voice runtime's jobs of one tenant, one per call.  A job runs four  *)
(* asyncio tasks that start, await and cancel one another: the owner       *)
(* (admission, the session, the post-call report), the task that closes    *)
(* the media, the cleanup task that gives slot and hold back, and the      *)
(* shutdown callback.  Jobs share a Redis counter, the tenant's slots.     *)
(* The control plane's handlers for the report and for the recording's     *)
(* end run beside them.                                                    *)
(*                                                                         *)
(* Every await is a step, so whatever runs in between is interleaved.  A   *)
(* command that is cancelled or fails may have been applied.               *)
(***************************************************************************)
EXTENDS Integers, FiniteSets

CONSTANTS
    Jobs,
    Limit,       \* max_concurrent_calls of the tenant
    Recorded,    \* jobs whose agent records
    MaxFaults    \* bound: lost requests, Redis errors and killed processes

ASSUME VoiceAssumption ==
    /\ IsFiniteSet(Jobs) /\ Recorded \subseteq Jobs
    /\ Limit \in Nat /\ MaxFaults \in Nat

VARIABLES
    owner,      \* owner[j]: where _run_session is
    cancelled,  \* jobs whose owner was cancelled by the shutdown callback
    torn,       \* those of them that were cancelled while their slot was being counted
    cleanup,    \* cleanup[j]: where the cleanup task is
    media,      \* media[j]: "up" -> "closing" -> "deleting" -> "closed"
    reserved, acquired,   \* jobs whose owner knows it holds credits, a slot
    hold,       \* hold[j]: the account's side of the call
    slots,      \* the tenant's counter in Redis; 0 also stands for no key
    expires,    \* whether the counter has a TTL
    counted,    \* jobs whose INCR is in the counter and not taken back
    seen,       \* seen[j]: what the job's INCR returned
    outlived,   \* whether the counter ever expired under a call
    talk,       \* talk[j]: "waiting" -> "bound" -> "live", or "over"
    caller,     \* caller[j]: "away" -> "here" -> "gone"
    ended,      \* jobs whose SessionEnd event is set
    report,     \* report[j]: the handler of the post-call report
    transcript, \* jobs whose transcript is saved
    egress,     \* egress[j]: the recording, then the handler of its end
    recording,  \* recording[j]: transcriptionStatus of the row, or "none"
    faults

vars == <<owner, cancelled, torn, cleanup, media, reserved, acquired, hold, slots, expires,
          counted, seen, outlived, talk, caller, ended, report, transcript, egress, recording,
          faults>>

counter == <<slots, expires, counted, seen>>
admission == <<reserved, acquired, hold, counter, outlived>>
session == <<talk, caller, ended>>
web == <<report, transcript, egress, recording>>

Init ==
    /\ owner = [j \in Jobs |-> "load"]
    /\ cleanup = [j \in Jobs |-> "none"]
    /\ media = [j \in Jobs |-> "up"]
    /\ hold = [j \in Jobs |-> "none"]
    /\ seen = [j \in Jobs |-> 0]
    /\ talk = [j \in Jobs |-> "waiting"]
    /\ caller = [j \in Jobs |-> "away"]
    /\ report = [j \in Jobs |-> "none"]
    /\ egress = [j \in Jobs |-> "none"]
    /\ recording = [j \in Jobs |-> "none"]
    /\ cancelled = {} /\ torn = {} /\ reserved = {} /\ acquired = {} /\ counted = {}
    /\ ended = {} /\ transcript = {}
    /\ slots = 0 /\ expires = FALSE /\ outlived = FALSE /\ faults = 0

Fault == faults < MaxFaults /\ faults' = faults + 1
Goto(j, pc) == owner' = [owner EXCEPT ![j] = pc]

(***************************************************************************)
(* Admission.                                                              *)
(***************************************************************************)

\* The configuration of the job: what is cached or stored for the call, unless it
\* is another agent's (never replaced by a fallback), else the agent's own row.
\* Without one the room is deleted and nothing was taken.
LoadConfig(j) ==
    /\ owner[j] = "load"
    /\ \E ofCall \in {"ours", "foreign", "none"}, agent \in {"active", "missing"} :
          IF ofCall = "ours" \/ (ofCall = "none" /\ agent = "active")
          THEN Goto(j, "reserve") /\ UNCHANGED media
          ELSE Goto(j, "rejected") /\ media' = [media EXCEPT ![j] = "closed"]
    /\ UNCHANGED <<cancelled, torn, cleanup, admission, session, web, faults>>

\* The reserve ping.  It holds the credits also when it answers insufficient, and
\* may have done so when its answer is lost: a hold the job does not know of.
Reserve(j) ==
    /\ owner[j] = "reserve"
    /\ \/ /\ hold' = [hold EXCEPT ![j] = "held"]
          /\ reserved' = reserved \cup {j}
          /\ Goto(j, "incr") /\ UNCHANGED faults
       \/ /\ hold' = [hold EXCEPT ![j] = "held"]
          /\ Goto(j, "finish") /\ UNCHANGED <<reserved, faults>>
       \/ /\ Fault
          /\ \E h \in {"none", "held"} : hold' = [hold EXCEPT ![j] = h]
          /\ Goto(j, "finish") /\ UNCHANGED reserved
    /\ UNCHANGED <<cancelled, torn, cleanup, media, acquired, counter, outlived, session, web>>

\* The commands on the counter.
INCR(j) ==
    /\ slots' = slots + 1
    /\ counted' = counted \cup {j}
    /\ seen' = [seen EXCEPT ![j] = slots + 1]
    /\ UNCHANGED expires

DECR(j) ==
    /\ slots' = slots - 1
    /\ counted' = counted \ {j}
    /\ UNCHANGED <<expires, seen>>

unslotted == <<cancelled, torn, cleanup, media, reserved, hold, outlived, session, web>>

\* A Redis error refuses the call, whether or not the command was applied.
Incr(j) ==
    /\ owner[j] = "incr"
    /\ \/ INCR(j) /\ Goto(j, "expire") /\ UNCHANGED faults
       \/ Fault /\ Goto(j, "finish") /\ (INCR(j) \/ UNCHANGED counter)
    /\ UNCHANGED <<unslotted, acquired>>

\* a mutant: the counter is compared as it was before the increment
AdmitsOneMore(j) == seen[j] - 1 <= Limit

\* The limit is compared with what the job's own INCR returned.
Admits(j) == seen[j] <= Limit

Expire(j) ==
    /\ owner[j] = "expire"
    /\ \/ /\ expires' = TRUE /\ UNCHANGED faults
          /\ IF Admits(j) THEN acquired' = acquired \cup {j} /\ Goto(j, "session")
                          ELSE UNCHANGED acquired /\ Goto(j, "deny")
       \/ Fault /\ Goto(j, "finish") /\ UNCHANGED <<acquired, expires>>
    /\ UNCHANGED <<unslotted, slots, counted, seen>>

Deny(j) ==
    /\ owner[j] = "deny"
    /\ \/ DECR(j) /\ UNCHANGED faults
       \/ Fault /\ (DECR(j) \/ UNCHANGED counter)
    /\ Goto(j, "finish")
    /\ UNCHANGED <<unslotted, acquired>>

\* A job that may still use its slot.
Holding(j) ==
    /\ j \in counted
    /\ \/ owner[j] \in {"expire", "deny"}
       \/ /\ j \in acquired /\ owner[j] # "dead"
          /\ cleanup[j] \notin {"zero", "settle", "done"}

\* The TTL is two hours from the latest INCR.  Nothing bounds the configured
\* length of a call, so one may outlast it.
CounterExpires ==
    /\ expires
    /\ IF \E j \in Jobs : Holding(j) THEN Fault /\ outlived' = TRUE
                                     ELSE UNCHANGED <<faults, outlived>>
    /\ slots' = 0 /\ expires' = FALSE /\ counted' = {}
    /\ UNCHANGED <<owner, cancelled, torn, cleanup, media, reserved, acquired, hold, seen,
                   session, web>>

(***************************************************************************)
(* The session.  SessionEnd listens before the job connects to the room;   *)
(* what it heard goes with the session.                                    *)
(***************************************************************************)
unsessioned == <<cancelled, torn, cleanup, media, admission, report, transcript, recording,
                 faults>>

CallerJoins(j) ==
    /\ owner[j] = "session" /\ caller[j] = "away"
    /\ caller' = [caller EXCEPT ![j] = "here"]
    /\ UNCHANGED <<unsessioned, owner, talk, ended, egress>>

\* on_departure: only the bound caller's departure ends the session.
CallerLeaves(j) ==
    /\ owner[j] = "session" /\ caller[j] = "here"
    /\ caller' = [caller EXCEPT ![j] = "gone"]
    /\ ended' = IF talk[j] \in {"bound", "live"} THEN ended \cup {j} ELSE ended
    /\ UNCHANGED <<unsessioned, owner, talk, egress>>

\* on_close: the room or the session is closed from outside.
RoomLost(j) ==
    /\ owner[j] = "session" /\ j \notin ended
    /\ ended' = ended \cup {j}
    /\ UNCHANGED <<unsessioned, owner, talk, caller, egress>>

\* a mutant: a caller who left before it was bound is not noticed
BindUnaware(j) ==
    /\ owner[j] = "session" /\ talk[j] = "waiting" /\ caller[j] # "away"
    /\ talk' = [talk EXCEPT ![j] = "bound"]
    /\ UNCHANGED <<unsessioned, owner, caller, ended, egress>>

\* wait_for_participant returns and bind_caller runs; the caller may have left.
Bind(j) ==
    /\ owner[j] = "session" /\ talk[j] = "waiting" /\ caller[j] # "away"
    /\ ended' = IF caller[j] = "gone" THEN ended \cup {j} ELSE ended
    /\ talk' = [talk EXCEPT ![j] = IF j \in ended' THEN "over" ELSE "bound"]
    /\ UNCHANGED <<unsessioned, owner, caller, egress>>

\* Recording, the session and the greeting start; a recording that does not is
\* only logged.
Start(j) ==
    /\ owner[j] = "session" /\ talk[j] = "bound"
    /\ talk' = [talk EXCEPT ![j] = "live"]
    /\ \E starts \in (IF j \in Recorded THEN BOOLEAN ELSE {FALSE}) :
          egress' = IF starts THEN [egress EXCEPT ![j] = "running"] ELSE egress
    /\ UNCHANGED <<unsessioned, owner, caller, ended>>

LeaveSession(j) ==
    /\ Goto(j, "close")
    /\ talk' = [talk EXCEPT ![j] = IF @ = "live" THEN "live" ELSE "over"]
    /\ caller' = [caller EXCEPT ![j] = "away"]
    /\ ended' = ended \ {j}

\* The event, an error or the cap on the call's length, which counts from
\* admission.
EndSession(j) ==
    /\ owner[j] = "session"
    /\ LeaveSession(j)
    /\ UNCHANGED <<unsessioned, egress>>

(***************************************************************************)
(* Teardown.  CallLifecycle.close starts one task and awaits it shielded;  *)
(* finish() does the same for the cleanup task.                            *)
(***************************************************************************)
StartClose(j) ==
    media' = IF media[j] = "up" THEN [media EXCEPT ![j] = "closing"] ELSE media

unclosed == <<cancelled, torn, admission, session, transcript, egress, recording>>

CloseStep(j) ==
    /\ media[j] \in {"closing", "deleting"} /\ owner[j] # "dead"
    /\ media' = [media EXCEPT ![j] = IF @ = "closing" THEN "deleting" ELSE "closed"]
    /\ UNCHANGED <<unclosed, owner, cleanup, report, faults>>

\* The owner of a session: close, then report the transcript it has by then.
OwnerCloses(j) ==
    /\ owner[j] = "close"
    /\ \/ media[j] = "up" /\ StartClose(j) /\ UNCHANGED owner
       \/ media[j] = "closed" /\ Goto(j, "post") /\ UNCHANGED media
    /\ UNCHANGED <<unclosed, cleanup, report, faults>>

Post(j) ==
    /\ owner[j] = "post"
    /\ \/ report' = [report EXCEPT ![j] = "received"] /\ Goto(j, "posted") /\ UNCHANGED faults
       \/ Fault /\ Goto(j, "finish") /\ UNCHANGED report
    /\ UNCHANGED <<unclosed, cleanup, media>>

Posted(j) ==
    /\ owner[j] = "posted"
    /\ \/ report[j] \in {"done", "failed"} /\ UNCHANGED faults
       \/ Fault
    /\ Goto(j, "finish")
    /\ UNCHANGED <<unclosed, cleanup, media, report>>

\* Create the cleanup task unless it exists, and await it.
Finish(j) ==
    /\ owner[j] = "finish"
    /\ \/ /\ cleanup[j] = "none"
          /\ cleanup' = [cleanup EXCEPT ![j] = "close"] /\ UNCHANGED owner
       \/ cleanup[j] = "done" /\ Goto(j, "ended") /\ UNCHANGED cleanup
    /\ UNCHANGED <<unclosed, media, report, faults>>

CleanTo(j, pc) == cleanup' = [cleanup EXCEPT ![j] = pc]
Alive(j) == owner[j] # "dead"

\* A job that never had a session is closed here.
CleanupCloses(j) ==
    /\ cleanup[j] = "close" /\ Alive(j)
    /\ \/ media[j] = "up" /\ StartClose(j) /\ UNCHANGED cleanup
       \/ media[j] = "closed" /\ CleanTo(j, "release") /\ UNCHANGED media
    /\ UNCHANGED <<unclosed, owner, report, faults>>

\* a mutant: the slot is given back on the owner's own way out only
ReleaseByOwner(j) ==
    /\ cleanup[j] = "release" /\ Alive(j)
    /\ \/ /\ j \in acquired \ cancelled /\ DECR(j) /\ UNCHANGED faults
          /\ CleanTo(j, IF slots' < 0 THEN "zero" ELSE "settle")
       \/ /\ j \in acquired \ cancelled /\ Fault /\ (DECR(j) \/ UNCHANGED counter)
          /\ CleanTo(j, "settle")
       \/ /\ j \notin acquired \ cancelled
          /\ CleanTo(j, "settle") /\ UNCHANGED <<counter, faults>>
    /\ UNCHANGED <<owner, cancelled, torn, media, reserved, acquired, hold, outlived, session,
                   web>>

Release(j) ==
    /\ cleanup[j] = "release" /\ Alive(j)
    /\ \/ /\ j \in acquired /\ DECR(j) /\ UNCHANGED faults
          /\ CleanTo(j, IF slots' < 0 THEN "zero" ELSE "settle")
       \/ /\ j \in acquired /\ Fault /\ (DECR(j) \/ UNCHANGED counter)
          /\ CleanTo(j, "settle")
       \/ j \notin acquired /\ CleanTo(j, "settle") /\ UNCHANGED <<counter, faults>>
    /\ UNCHANGED <<owner, cancelled, torn, media, reserved, acquired, hold, outlived, session,
                   web>>

\* A counter found below zero is set to zero by a second command.
Zero(j) ==
    /\ cleanup[j] = "zero" /\ Alive(j)
    /\ slots' = 0 /\ expires' = FALSE
    /\ CleanTo(j, "settle")
    /\ UNCHANGED <<owner, cancelled, torn, media, reserved, acquired, hold, counted, seen,
                   outlived, session, web, faults>>

\* a mutant: only an admitted call is settled
SettleAdmitted(j) ==
    /\ cleanup[j] = "settle" /\ Alive(j)
    /\ hold' = IF j \in acquired THEN [hold EXCEPT ![j] = "settled"] ELSE hold
    /\ CleanTo(j, "done")
    /\ UNCHANGED <<owner, cancelled, torn, media, reserved, acquired, counter, outlived, session,
                   web, faults>>

Settle(j) ==
    /\ cleanup[j] = "settle" /\ Alive(j)
    /\ \/ /\ hold' = IF j \in reserved THEN [hold EXCEPT ![j] = "settled"] ELSE hold
          /\ UNCHANGED faults
       \/ j \in reserved /\ Fault /\ UNCHANGED hold
    /\ CleanTo(j, "done")
    /\ UNCHANGED <<owner, cancelled, torn, media, reserved, acquired, counter, outlived, session,
                   web>>

\* on_shutdown cancels the owner and lets it finish.  The command the owner was
\* awaiting may have been applied; a session is still closed, its report is not
\* sent, or not waited for.  A cancelled finish() goes on waiting.
Shutdown(j) ==
    /\ owner[j] \notin {"load", "rejected", "ended", "dead"}
    /\ j \notin cancelled
    /\ cancelled' = cancelled \cup {j}
    /\ torn' = IF owner[j] \in {"incr", "expire", "deny"} THEN torn \cup {j} ELSE torn
    /\ IF owner[j] = "session" THEN LeaveSession(j)
                               ELSE Goto(j, "finish") /\ UNCHANGED session
    /\ \/ owner[j] = "reserve" /\ hold' = [hold EXCEPT ![j] = "held"]
          /\ UNCHANGED <<counter, report>>
       \/ owner[j] = "incr" /\ INCR(j) /\ UNCHANGED <<hold, report>>
       \/ owner[j] = "expire" /\ expires' = TRUE
          /\ UNCHANGED <<slots, counted, seen, hold, report>>
       \/ owner[j] = "deny" /\ DECR(j) /\ UNCHANGED <<hold, report>>
       \/ owner[j] = "post" /\ report' = [report EXCEPT ![j] = "received"]
          /\ UNCHANGED <<counter, hold>>
       \/ UNCHANGED <<counter, hold, report>>
    /\ UNCHANGED <<cleanup, media, reserved, acquired, outlived, transcript, egress, recording,
                   faults>>

\* The process is killed: none of its tasks does anything more.
Killed(j) ==
    /\ owner[j] \notin {"rejected", "ended", "dead"}
    /\ Fault
    /\ Goto(j, "dead")
    /\ UNCHANGED <<cancelled, torn, cleanup, media, admission, session, web>>

(***************************************************************************)
(* The control plane: the post-call report and the end of the recording.   *)
(***************************************************************************)
unreported == <<owner, cancelled, torn, cleanup, media, admission, session>>

\* An empty transcript replaces nothing.
SaveTranscript(j) ==
    /\ report[j] = "received"
    /\ \/ /\ transcript' = IF talk[j] = "live" THEN transcript \cup {j} ELSE transcript
          /\ report' = [report EXCEPT ![j] = "saved"] /\ UNCHANGED faults
       \/ Fault /\ report' = [report EXCEPT ![j] = "failed"] /\ UNCHANGED transcript
    /\ UNCHANGED <<unreported, egress, recording>>

\* The row, if there is one already, is marked transcribed.
MarkRecording(j) ==
    /\ report[j] = "saved"
    /\ recording' = IF talk[j] = "live" /\ recording[j] # "none"
                    THEN [recording EXCEPT ![j] = "completed"] ELSE recording
    /\ report' = [report EXCEPT ![j] = "done"]
    /\ UNCHANGED <<unreported, transcript, egress, faults>>

\* egress_ended: with a file, the handler reads whether there is a transcript;
\* without one an existing row fails.
EgressEnds(j) ==
    /\ egress[j] = "running" /\ (media[j] = "closed" \/ owner[j] = "dead")
    /\ \/ egress' = [egress EXCEPT ![j] = IF j \in transcript THEN "completed" ELSE "pending"]
          /\ UNCHANGED recording
       \/ /\ egress' = [egress EXCEPT ![j] = "saved"]
          /\ recording' = IF recording[j] = "none" THEN recording
                          ELSE [recording EXCEPT ![j] = "failed"]
    /\ UNCHANGED <<unreported, report, transcript, faults>>

\* ... and writes the row with what it read.
SaveRecording(j) ==
    /\ egress[j] \in {"pending", "completed"}
    /\ recording' = [recording EXCEPT ![j] = egress[j]]
    /\ egress' = [egress EXCEPT ![j] = "saved"]
    /\ UNCHANGED <<unreported, report, transcript, faults>>

Owner(j) ==
    \/ LoadConfig(j) \/ Reserve(j) \/ Incr(j) \/ Expire(j) \/ Deny(j)
    \/ Bind(j) \/ Start(j) \/ EndSession(j) \/ OwnerCloses(j) \/ Post(j) \/ Posted(j)
    \/ Finish(j)

Background(j) ==
    \/ CloseStep(j) \/ CleanupCloses(j) \/ Release(j) \/ Zero(j) \/ Settle(j)
    \/ SaveTranscript(j) \/ MarkRecording(j) \/ EgressEnds(j) \/ SaveRecording(j)

\* Nothing is left to do.
Quiet ==
    \A j \in Jobs :
        /\ owner[j] \in {"ended", "rejected", "dead"}
        /\ report[j] \notin {"received", "saved"}
        /\ egress[j] \in {"none", "saved"}

Rest == Quiet /\ UNCHANGED vars

Next ==
    \/ \E j \in Jobs :
          \/ Owner(j) \/ Background(j) \/ Shutdown(j) \/ Killed(j)
          \/ CallerJoins(j) \/ CallerLeaves(j) \/ RoomLost(j)
    \/ CounterExpires
    \/ Rest

Spec == Init /\ [][Next]_vars
=============================================================================
