--------------------------- MODULE CallLifecycle ---------------------------
(***************************************************************************)
(* One phone call from dial to settled bill: its row in the database, the  *)
(* webhooks that drive it (delivered at least once, in any order, handled  *)
(* in steps that may fail or stop half way), the dialer or the caller that *)
(* opened the room, the voice agent in the room, the campaign sweep, and   *)
(* the account the call is billed to (CreditAccount).                      *)
(*                                                                         *)
(* How the call came to be decides how webhooks find its row:              *)
(*   campaign, web   dialed; the room's name holds the row's id            *)
(*   inbound         a room named by the operator's own dispatch rule: the *)
(*                   row is created by a webhook and found by the name     *)
(*   prefixed        a room named by the rule the product provisions, which *)
(*                   looks like a dialed room but holds no row id          *)
(*   test            a browser test of an agent, which the internal billing *)
(*                   routes let through for free                           *)
(*   legacy          a Plivo leg, driven by Plivo status callbacks         *)
(***************************************************************************)
EXTENDS Integers, FiniteSets, FiniteSetsExt

CONSTANTS
    Origins,     \* the kinds of call an instance starts with
    Rows,        \* 1..n, in the order the database creates them
    Requests,    \* POST /api/calls requests that carry one idempotency key
    Statuses,    \* the terminal Plivo statuses reported for a legacy call
    Estimate,    \* credits held at admission
    Minute,      \* credits charged for the shortest billed call
    MaxFaults    \* bound: errors, lost answers and crashes

ASSUME CallAssumption ==
    /\ Origins \subseteq {"campaign", "web", "test", "inbound", "prefixed", "legacy"}
    /\ Rows \subseteq Nat \ {0} /\ 1 \in Rows
    /\ Statuses \subseteq {"COMPLETED", "FAILED", "BUSY", "NO_ANSWER", "CANCELLED"}
    /\ Estimate \in Nat /\ Minute \in Nat \ {0}
    /\ MaxFaults \in Nat

VARIABLES
    origin,
    call,        \* call[r]: the row, or NoRow
    terminal,    \* rows whose "terminal:<id>" event is recorded
    balance, stage,   \* the account, see CreditAccount
    late,        \* events whose account request has missed another's of its row
    contact,     \* callStatus of the campaign contact being called
    counted,     \* times the campaign's callsCompleted was bumped for this call
    room,        \* "none" -> "open" -> "closed"
    inbox,       \* webhook events the provider still has to get a 2xx for
    hook,        \* hook[e]: status of the webhook_events row, or "none"
    job,         \* job[e]: the handler working on event e
    dial,        \* dial[q]: program counter of a dialing request or worker
    runtime,     \* runtime[r]: the voice agent dispatched for row r
    sweep,       \* what the sweep made of the call it read, until it has acted
    faults

vars == <<origin, call, terminal, balance, stage, late, contact, counted,
          room, inbox, hook, job, dial, runtime, sweep, faults>>

RoomEvents == {"started", "agent", "caller", "finished", "no_agent"}
Events == RoomEvents \cup Statuses

Account == INSTANCE CreditAccount WITH
    Calls <- Rows, Usages <- {0, Minute}, GrantKeys <- {}, Amounts <- {}, granted <- {},
    meeting <- {job[e].row : e \in late}

NoRow == [status |-> "none", stale |-> FALSE, answered |-> FALSE]
Idle == [pc |-> "idle", row |-> 0, seen |-> FALSE]

\* VALID_TRANSITIONS, read backwards: from which status a target may be reached
Sources == [
    QUEUED      |-> {"CREATED"},
    DIALING     |-> {"CREATED", "QUEUED"},
    RINGING     |-> {"DIALING"},
    ANSWERED    |-> {"DIALING", "RINGING"},
    IN_PROGRESS |-> {"ANSWERED"},
    COMPLETED   |-> {"ANSWERED", "IN_PROGRESS"},
    FAILED      |-> {"CREATED", "QUEUED", "DIALING", "RINGING", "ANSWERED", "IN_PROGRESS"},
    BUSY        |-> {"DIALING", "RINGING"},
    NO_ANSWER   |-> {"DIALING", "RINGING"},
    CANCELLED   |-> {"CREATED", "QUEUED", "DIALING", "RINGING", "IN_PROGRESS"}]

Terminal == {"COMPLETED", "FAILED", "BUSY", "NO_ANSWER", "CANCELLED"}

\* a mutant: the target is written whatever the status is
TransitionAlways(r, target) ==
    [call EXCEPT ![r].status = target, ![r].answered = @ \/ target = "ANSWERED"]

\* transitionState: one conditional write; an inadmissible target changes nothing
Transition(r, target) ==
    IF call[r].status \in Sources[target] \cup {target}
    THEN [call EXCEPT ![r].status = target,
                      ![r].answered = @ \/ target = "ANSWERED"]
    ELSE call

Existing == {r \in Rows : call[r] # NoRow}

\* The row a room webhook resolves to: by the id in a dialed room's name, else
\* by providerCallId (the oldest match).  A provisioned inbound room's name
\* looks like an id, fails to parse, and resolves to nothing.
Found ==
    IF origin = "prefixed" \/ Existing = {} THEN {} ELSE {Min(Existing)}

\* agent_dispatch_failed looks the row up by the id in the name only.
Resolved(e) == IF e = "no_agent" /\ origin = "inbound" THEN {} ELSE Found

(***************************************************************************)
(* reserveCallCredits and settleCallCredits, each idempotent per call.     *)
(* Two requests about one row meet when each has begun before the other    *)
(* commits.  Most such pairs conflict and one of them starts over, but a   *)
(* settlement for nothing that found no hold writes no account: neither it *)
(* nor a hold then sees the other.  Only webhooks can meet so: no agent is *)
(* at work on a row whose agent_dispatch_failed is being handled.  asks is *)
(* the event the request is made for, in a set, or {} for an agent.        *)
(***************************************************************************)
Asking(r, pc) == {e \in Events : job[e].pc = pc /\ job[e].row = r}

\* The request is over; some of those under way may have missed it.
Over(asks, others) == \E missed \in SUBSET others : late' = (late \ asks) \cup missed

\* a mutant: an account that cannot cover the hold is let through without one
ReserveIfCovered(r, asks) ==
    /\ IF stage[r] = "open" /\ balance >= Estimate THEN Account!Hold(r)
                                                   ELSE UNCHANGED <<balance, stage>>
    /\ Over(asks, {})

Reserve(r, asks) ==
    \/ stage[r] = "open" /\ Account!Hold(r) /\ Over(asks, Asking(r, "release"))
    \/ stage[r] = "void" /\ late \cap asks # {} /\ Account!HoldLate(r) /\ Over(asks, {})
    \/ /\ stage[r] # "open" /\ (stage[r] = "void" => late \cap asks = {})
       /\ UNCHANGED <<balance, stage>> /\ Over(asks, {})

Settle(r, usage, asks) ==
    \/ stage[r] = "open" /\ Account!Charge(r, usage)
       /\ Over(asks, IF usage = 0 THEN Asking(r, "reserve") ELSE {})
    \/ stage[r] = "held" /\ late \cap asks = {} /\ Account!Charge(r, usage) /\ Over(asks, {})
    \/ stage[r] = "held" /\ late \cap asks # {} /\ Account!ChargeBlind(r) /\ Over(asks, {})
    \/ stage[r] \notin {"open", "held"} /\ UNCHANGED <<balance, stage>> /\ Over(asks, {})

Init ==
    /\ origin \in Origins
    /\ balance = 0
    /\ stage = [r \in Rows |-> "open"]
    /\ call = [r \in Rows |-> IF origin = "legacy" /\ r = 1
                              THEN [NoRow EXCEPT !.status = "DIALING"] ELSE NoRow]
    /\ contact = IF origin \in {"campaign", "legacy"} THEN "dialing" ELSE "none"
    /\ inbox = IF origin = "legacy" THEN Statuses ELSE {}
    /\ dial = [q \in Requests |-> "idle"]
    /\ runtime = [r \in Rows |-> "off"]
    /\ hook = [e \in RoomEvents |-> "none"]
    /\ job = [e \in Events |-> Idle]
    /\ late = {} /\ terminal = {} /\ counted = 0 /\ room = "none" /\ sweep = "idle" /\ faults = 0

\* a caller's join carries the dialed number: a webhook without a row makes one
Inbound(e) == e = "caller" /\ origin \in {"inbound", "prefixed"} /\ Existing # Rows

money == <<balance, stage, late>>
Fault == faults < MaxFaults /\ faults' = faults + 1
At(e, pc) == job[e].pc = pc

\* A handler goes on to its next step, or ends: the outcome is recorded and the
\* provider gets its 2xx.
Goto(e, pc) == job' = [job EXCEPT ![e].pc = pc] /\ UNCHANGED <<hook, inbox>>

Done(e) ==
    /\ job' = [job EXCEPT ![e] = Idle]
    /\ hook' = IF e \in RoomEvents THEN [hook EXCEPT ![e] = "processed"] ELSE hook
    /\ inbox' = inbox \ {e}

\* seen: what the handler keeps of the row it read at the start.  room_finished:
\* the sweep had failed it; a join: it was already answered.
Begin(e, pc, r) ==
    /\ LET seen == IF e = "finished" THEN call[r].status = "FAILED" /\ call[r].stale
                                     ELSE call[r].answered
       IN  job' = [job EXCEPT ![e] = [pc |-> pc, row |-> r, seen |-> seen]]
    /\ hook' = IF e \in RoomEvents THEN [hook EXCEPT ![e] = "received"] ELSE hook
    /\ UNCHANGED inbox

(***************************************************************************)
(* Claiming a LiveKit webhook: insert its webhook_events row, or take over *)
(* one whose handling failed, then look the call up.  A lookup that throws *)
(* is taken for an unknown call.                                           *)
(***************************************************************************)
Claim(e) ==
    /\ e \in inbox \cap RoomEvents
    /\ hook[e] \in {"none", "failed"}
    /\ \E found \in {Resolved(e), {}} :
          /\ IF found = Resolved(e) THEN UNCHANGED faults ELSE Fault
          /\ \/ \E r \in found :
                    Begin(e, CASE e = "finished" -> "terminal"
                               [] e = "no_agent" -> "fail"
                               [] OTHER          -> "reserve", r)
             \/ found = {} /\ Inbound(e) /\ Begin(e, "create", Min(Rows \ Existing))
             \/ found = {} /\ ~Inbound(e) /\ Done(e)
    /\ UNCHANGED <<origin, call, terminal, money, contact, counted, room, dial,
                   runtime, sweep>>

\* An event already claimed is answered 200 at once; so is one whose claim could
\* not be written.
Dedupe(e) ==
    /\ e \in inbox \cap RoomEvents
    /\ IF hook[e] \in {"received", "processed"} THEN UNCHANGED faults ELSE Fault
    /\ inbox' = inbox \ {e}
    /\ UNCHANGED <<origin, call, terminal, money, contact, counted, room, hook,
                   job, dial, runtime, sweep>>

\* The process dies: the claim stays "received" and every redelivery is deduped.
Crash(e) ==
    /\ job[e] # Idle
    /\ Fault
    /\ job' = [job EXCEPT ![e] = Idle]
    /\ late' = late \ {e}
    /\ UNCHANGED <<origin, call, terminal, balance, stage, contact, counted, room,
                   inbox, hook, dial, runtime, sweep>>

\* An error nobody catches: the claim is marked failed, LiveKit gets a 500.
Throw(e) ==
    /\ e \in RoomEvents /\ job[e].pc \in {"create", "note"}
    /\ Fault
    /\ job' = [job EXCEPT ![e] = Idle]
    /\ hook' = [hook EXCEPT ![e] = "failed"]
    /\ UNCHANGED <<origin, call, terminal, money, contact, counted, room, inbox,
                   dial, runtime, sweep>>

\* Errors the handler catches: a terminal event that could not be written is
\* taken for a duplicate, any other write is skipped.
Swallow(e) ==
    /\ Fault
    /\ \/ At(e, "reserve") /\ Goto(e, "note")
       \/ At(e, "complete") /\ Goto(e, "settle")
       \/ At(e, "settle") /\ contact # "none" /\ Goto(e, "count")
       \/ At(e, "settle") /\ contact = "none" /\ Done(e)
       \/ At(e, "fail") /\ Goto(e, "release")
       \/ e \in RoomEvents /\ job[e].pc \in {"terminal", "release", "count"} /\ Done(e)
    /\ late' = late \ {e}
    /\ UNCHANGED <<origin, call, terminal, balance, stage, contact, counted, room,
                   dial, runtime, sweep>>

(***************************************************************************)
(* room_started and participant_joined (the agent's and the caller's).     *)
(***************************************************************************)

\* An inbound room without a row: make one, and dispatch the agent into the room
\* (which opens it again if it is gone); a dispatch that fails is only logged.
Create(e) ==
    /\ At(e, "create")
    /\ LET r == Min(Rows \ Existing)
       IN  /\ call' = [call EXCEPT ![r] = [NoRow EXCEPT !.status = "IN_PROGRESS"]]
           /\ job' = [job EXCEPT ![e] = [pc |-> "reserve", row |-> r, seen |-> FALSE]]
           /\ \/ runtime' = [runtime EXCEPT ![r] = "dispatched"]
                 /\ room' = "open" /\ UNCHANGED faults
              \/ Fault /\ UNCHANGED <<runtime, room>>
    /\ UNCHANGED <<origin, terminal, money, contact, counted, inbox, hook, dial,
                   sweep>>

ReserveHook(e) ==
    /\ At(e, "reserve")
    /\ Reserve(job[e].row, {e})
    /\ Goto(e, "note")
    /\ UNCHANGED <<origin, call, terminal, contact, counted, room, dial, runtime,
                   sweep, faults>>

\* The audit event, then ANSWERED unless the row read at lookup was answered.
Note(e) ==
    /\ At(e, "note")
    /\ call' = IF e # "started" /\ ~job[e].seen
               THEN Transition(job[e].row, "ANSWERED") ELSE call
    /\ Done(e)
    /\ UNCHANGED <<origin, terminal, money, contact, counted, room, dial, runtime,
                   sweep, faults>>

(***************************************************************************)
(* room_finished, and the same steps of a terminal Plivo status.  Whoever  *)
(* records the terminal event first settles and counts the call.           *)
(***************************************************************************)
\* a mutant: every report of the end is taken for the first
FirstAlways(e) ==
    /\ At(e, "terminal")
    /\ terminal' = terminal \cup {job[e].row}
    /\ Goto(e, IF e = "finished" THEN "complete" ELSE "settle")
    /\ UNCHANGED <<origin, call, money, contact, counted, room, dial, runtime,
                   sweep, faults>>

First(e) ==
    /\ At(e, "terminal")
    /\ terminal' = terminal \cup {job[e].row}
    /\ IF job[e].row \in terminal THEN Done(e)
       ELSE Goto(e, IF e = "finished" THEN "complete" ELSE "settle")
    /\ UNCHANGED <<origin, call, money, contact, counted, room, dial, runtime,
                   sweep, faults>>

\* COMPLETED may override FAILED if the sweep had failed the row.
SweepRecovery(e) == e = "finished" /\ job[e].seen

Complete(e) ==
    /\ At(e, "complete")
    /\ LET r == job[e].row
       IN  call' = IF ~SweepRecovery(e) THEN Transition(r, "COMPLETED")
                   ELSE IF call[r].status = "FAILED"
                   THEN [call EXCEPT ![r].status = "COMPLETED", ![r].stale = FALSE]
                   ELSE call
    /\ Goto(e, "settle")
    /\ UNCHANGED <<origin, terminal, money, contact, counted, room, dial, runtime,
                   sweep, faults>>

\* a mutant: an event for a call that was never answered settles nothing
SettleAnswered(e) ==
    /\ At(e, "settle")
    /\ IF call[job[e].row].answered THEN Settle(job[e].row, Minute, {e})
                                  ELSE UNCHANGED money
    /\ IF contact # "none" THEN Goto(e, "count") ELSE Done(e)
    /\ UNCHANGED <<origin, call, terminal, contact, counted, room, dial, runtime,
                   sweep, faults>>

\* room_finished bills the row's age, at least the shortest call; Plivo bills a
\* COMPLETED leg its duration, and any other leg nothing.
SettleHook(e) ==
    /\ At(e, "settle")
    /\ \E usage \in IF e = "finished" THEN {Minute}
                     ELSE IF e = "COMPLETED" THEN {0, Minute} ELSE {0} :
          Settle(job[e].row, usage, {e})
    /\ IF contact # "none" THEN Goto(e, "count") ELSE Done(e)
    /\ UNCHANGED <<origin, call, terminal, contact, counted, room, dial, runtime,
                   sweep, faults>>

Mirror(e) ==
    CASE e \in {"finished", "COMPLETED"} -> "completed"
      [] e = "BUSY"                      -> "busy"
      [] e = "NO_ANSWER"                 -> "no_answer"
      [] OTHER                           -> "failed"

\* Mirror the outcome on the contact unless it has one; bump callsCompleted.
Count(e) ==
    /\ At(e, "count")
    /\ contact' = IF \/ contact \in {"pending", "dialing"}
                     \/ contact = "failed" /\ SweepRecovery(e)
                  THEN Mirror(e) ELSE contact
    /\ counted' = counted + 1
    /\ Done(e)
    /\ UNCHANGED <<origin, call, terminal, money, room, dial, runtime, sweep, faults>>

(* agent_dispatch_failed: fail the call and give the hold back. *)
FailCall(e) ==
    /\ At(e, "fail")
    /\ call' = Transition(job[e].row, "FAILED")
    /\ Goto(e, "release")
    /\ UNCHANGED <<origin, terminal, money, contact, counted, room, dial, runtime,
                   sweep, faults>>

Release(e) ==
    /\ At(e, "release")
    /\ Settle(job[e].row, 0, {e})
    /\ Done(e)
    /\ UNCHANGED <<origin, call, terminal, contact, counted, room, dial, runtime,
                   sweep, faults>>

(***************************************************************************)
(* A terminal Plivo status: no claim row, the conditional write comes      *)
(* first.  It is delivered again when its answer was lost or it failed.    *)
(***************************************************************************)
PlivoStatus(e) ==
    /\ e \in inbox \cap Statuses
    /\ job[e] = Idle
    /\ call' = Transition(1, e)
    /\ Begin(e, "terminal", 1)
    /\ UNCHANGED <<origin, terminal, money, contact, counted, room, dial, runtime,
                   sweep, faults>>

Redeliver(e) ==
    /\ e \in Statuses \ inbox
    /\ origin = "legacy"
    /\ Fault
    /\ inbox' = inbox \cup {e}
    /\ UNCHANGED <<origin, call, terminal, money, contact, counted, room, hook,
                   job, dial, runtime, sweep>>

Handle(e) ==
    \/ Claim(e) \/ Create(e) \/ ReserveHook(e) \/ Note(e) \/ First(e) \/ Complete(e)
    \/ SettleHook(e) \/ Count(e) \/ FailCall(e) \/ Release(e) \/ PlivoStatus(e)

(***************************************************************************)
(* Dialing.  A web request checks its idempotency key, creates the row,    *)
(* dispatches the agent into the room and waits for the callee; the        *)
(* campaign worker mints its row and does the same.                        *)
(***************************************************************************)
DialTo(q, pc) == dial' = [dial EXCEPT ![q] = pc]
undialed == <<origin, terminal, money, counted, hook, job, sweep>>
Queued == [call EXCEPT ![1] = [NoRow EXCEPT !.status = "QUEUED"]]

CheckKey(q) ==
    /\ origin = "web" /\ dial[q] = "idle"
    /\ DialTo(q, IF Existing = {} THEN "create" ELSE "replayed")
    /\ UNCHANGED <<undialed, call, contact, room, inbox, runtime, faults>>

\* The unique index on the key refuses the second of two racing requests.
CreateCall(q) ==
    /\ origin = "web" /\ dial[q] = "create"
    /\ \/ Existing = {} /\ call' = Queued /\ DialTo(q, "dispatch")
       \/ Existing # {} /\ UNCHANGED call /\ DialTo(q, "replayed")
    /\ UNCHANGED <<undialed, contact, room, inbox, runtime, faults>>

\* One worker has claimed the contact; one browser asks for the test.
Undialed == \A q \in Requests : dial[q] = "idle"

MintCall(q) ==
    /\ origin = "campaign" /\ Undialed
    /\ call' = Queued
    /\ DialTo(q, "dispatch")
    /\ UNCHANGED <<undialed, contact, room, inbox, runtime, faults>>

\* start_session of the test route
CreateTest(q) ==
    /\ origin = "test" /\ Undialed
    /\ call' = [call EXCEPT ![1] = [NoRow EXCEPT !.status = "DIALING"]]
    /\ DialTo(q, "dispatch")
    /\ UNCHANGED <<undialed, contact, room, inbox, runtime, faults>>

\* Dispatching opens the room.  A test's browser joins it by itself, or does not.
Ring(q) ==
    /\ dial[q] = "dispatch"
    /\ runtime' = [runtime EXCEPT ![1] = "dispatched"]
    /\ room' = "open"
    /\ \E joins \in SUBSET (IF origin = "test" THEN {"caller"} ELSE {}) :
          inbox' = inbox \cup {"started"} \cup joins
    /\ DialTo(q, IF origin = "test" THEN "done" ELSE "ring")
    /\ UNCHANGED <<undialed, call, contact, faults>>

\* waitUntilAnswered: the SIP request returns once the callee is in the room.
Answer(q) ==
    /\ dial[q] = "ring" /\ room = "open"
    /\ inbox' = inbox \cup {"caller"}
    /\ DialTo(q, "accepted")
    /\ UNCHANGED <<undialed, call, contact, room, runtime, faults>>

\* Busy, timed out, refused by the trunk, or the room is gone; or no dispatch.
DialFails(q) ==
    /\ \/ dial[q] = "ring" /\ UNCHANGED faults
       \/ dial[q] = "dispatch" /\ Fault
    /\ DialTo(q, "failed")
    /\ UNCHANGED <<undialed, call, contact, room, inbox, runtime>>

\* The route asks for RINGING through transitionState; the worker overwrites the
\* status with DIALING and the metadata, stale tag included.
Accept(q) ==
    /\ dial[q] = "accepted"
    /\ call' = IF origin = "web" THEN Transition(1, "RINGING")
               ELSE [call EXCEPT ![1].status = "DIALING", ![1].stale = FALSE]
    /\ DialTo(q, IF origin = "web" THEN "done" ELSE "stamp")
    /\ UNCHANGED <<undialed, contact, room, inbox, runtime, faults>>

FailDial(q) ==
    /\ dial[q] = "failed"
    /\ call' = IF origin # "campaign" THEN Transition(1, "FAILED")
               ELSE [call EXCEPT ![1].status = "FAILED"]
    /\ DialTo(q, IF origin # "campaign" THEN "done" ELSE "retry")
    /\ UNCHANGED <<undialed, contact, room, inbox, runtime, faults>>

\* The worker's write on the contact: dialing, or retried or given up (either
\* way this call no longer owns it).
StampContact(q) ==
    /\ \/ dial[q] = "stamp" /\ contact' = "dialing"
       \/ dial[q] = "retry" /\ contact' \in {"pending", "failed"}
    /\ DialTo(q, "done")
    /\ UNCHANGED <<undialed, call, room, inbox, runtime, faults>>

DialCrash(q) ==
    /\ dial[q] \notin {"idle", "replayed", "done", "dead"}
    /\ Fault
    /\ DialTo(q, "dead")
    /\ UNCHANGED <<undialed, call, contact, room, inbox, runtime>>

Dial(q) ==
    \/ CheckKey(q) \/ CreateCall(q) \/ MintCall(q) \/ CreateTest(q) \/ Ring(q)
    \/ Answer(q) \/ Accept(q) \/ FailDial(q) \/ StampContact(q)

(***************************************************************************)
(* The room and the voice agent in it.                                     *)
(***************************************************************************)
unroomed == <<origin, call, terminal, contact, counted, job, dial, sweep>>
RunTo(r, pc) == runtime' = [runtime EXCEPT ![r] = pc]

Arrive ==
    /\ origin \in {"inbound", "prefixed"} /\ room = "none"
    /\ room' = "open"
    /\ inbox' = inbox \cup {"started", "caller"}
    /\ UNCHANGED <<unroomed, money, hook, runtime, faults>>

\* Every closing is an event of its own; a reopened room closes after the first
\* event has been dealt with.
CloseRoom ==
    /\ "finished" \notin inbox /\ job["finished"] = Idle
    /\ room' = "closed"
    /\ inbox' = inbox \cup {"finished"}
    /\ hook' = [hook EXCEPT !["finished"] = "none"]

\* LiveKit closes a room nobody is in.
Empties ==
    /\ room = "open"
    /\ \A r \in Rows : runtime[r] \in {"off", "done", "gone"}
    /\ \A q \in Requests : dial[q] # "ring"
    /\ CloseRoom
    /\ UNCHANGED <<unroomed, money, runtime, faults>>

\* end_call of the test route
EndTest ==
    /\ origin = "test" /\ room = "open"
    /\ CloseRoom
    /\ UNCHANGED <<unroomed, money, runtime, faults>>

\* The internal routes answer for a test call without touching the account.
ReservePing(r) == IF origin = "test" THEN UNCHANGED money ELSE Reserve(r, {})

\* Reserve, then take a slot.  The session that takes the hold is refused if the
\* balance (which the organisation's other calls move too) did not cover it; a
\* refused slot leaves the call reserved, to be settled like any other.
Admit(r) ==
    /\ runtime[r] = "dispatched" /\ room = "open"
    /\ ReservePing(r)
    /\ \/ RunTo(r, "talking") /\ inbox' = inbox \cup {"agent"}
       \/ RunTo(r, "closing") /\ UNCHANGED inbox
       \/ stage[r] = "open" /\ origin # "test" /\ RunTo(r, "refused") /\ UNCHANGED inbox
    /\ UNCHANGED <<unroomed, room, hook, faults>>

\* The reserve ping or its answer is lost: refused, held or not.
AdmitLost(r) ==
    /\ runtime[r] = "dispatched" /\ room = "open"
    /\ Fault
    /\ ReservePing(r) \/ UNCHANGED money
    /\ RunTo(r, "refused")
    /\ UNCHANGED <<unroomed, room, hook, inbox>>

\* No agent takes the job, or its room is gone before it starts.
NoAgent(r) ==
    /\ runtime[r] = "dispatched"
    /\ RunTo(r, "gone")
    /\ inbox' = IF room = "open" THEN inbox \cup {"no_agent"} ELSE inbox
    /\ UNCHANGED <<unroomed, money, room, hook, faults>>

\* The caller leaves, the call's time is up, or the room is closed.
Leave(r) ==
    /\ runtime[r] = "talking"
    /\ RunTo(r, "closing")
    /\ UNCHANGED <<unroomed, money, room, hook, inbox, faults>>

\* a mutant: a session that was refused or ended is never settled
TeardownUnsettled(r) ==
    /\ runtime[r] \in {"closing", "refused"}
    /\ RunTo(r, IF runtime[r] = "closing" THEN "done" ELSE "gone")
    /\ IF room = "open" THEN CloseRoom ELSE UNCHANGED <<room, hook, inbox>>
    /\ UNCHANGED <<unroomed, money, faults>>

\* CallLifecycle.close deletes the room, whatever ended the session.
Teardown(r) ==
    /\ runtime[r] \in {"closing", "refused"}
    /\ RunTo(r, IF runtime[r] = "closing" THEN "settling" ELSE "gone")
    /\ IF room = "open" THEN CloseRoom ELSE UNCHANGED <<room, hook, inbox>>
    /\ UNCHANGED <<unroomed, money, faults>>

SettlePing(r) ==
    /\ runtime[r] = "settling"
    /\ \/ UNCHANGED faults /\ IF origin = "test" THEN UNCHANGED money ELSE Settle(r, Minute, {})
       \/ Fault /\ UNCHANGED money
    /\ RunTo(r, "done")
    /\ UNCHANGED <<unroomed, room, hook, inbox>>

AgentDies(r) ==
    /\ runtime[r] \notin {"off", "done", "gone"}
    /\ Fault
    /\ RunTo(r, "done")
    /\ UNCHANGED <<unroomed, money, room, hook, inbox>>

Agent(r) == Admit(r) \/ NoAgent(r) \/ Leave(r) \/ Teardown(r) \/ SettlePing(r)

(***************************************************************************)
(* The campaign sweep meets a contact that has been dialing for too long:  *)
(* it reads the latest call, then mirrors or fails what it read.           *)
(***************************************************************************)
unswept == <<origin, terminal, money, counted, room, inbox, hook, job, dial,
             runtime, faults>>

\* A live call is left alone until its longest duration is over.
SweepRead ==
    /\ contact = "dialing" /\ sweep = "idle"
    /\ origin = "legacy" \/ \E q \in Requests : dial[q] \in {"done", "dead"}
    /\ ~(call[1].status \in {"ANSWERED", "IN_PROGRESS"} /\ room = "open")
    /\ sweep' = CASE call[1].status = "COMPLETED" -> "completed"
                  [] call[1].status = "BUSY"      -> "busy"
                  [] call[1].status = "NO_ANSWER" -> "no_answer"
                  [] call[1].status \in {"none", "FAILED", "CANCELLED"} -> "failed"
                  [] OTHER                        -> "stale"
    /\ UNCHANGED <<unswept, call, contact>>

SweepWrite ==
    /\ sweep # "idle"
    /\ sweep' = "idle"
    /\ contact' = IF sweep = "stale" THEN "failed" ELSE sweep
    /\ call' = IF sweep # "stale" THEN call
               ELSE [call EXCEPT ![1].status = "FAILED", ![1].stale = TRUE]
    /\ UNCHANGED unswept

\* What happens unless something fails.
Progress ==
    \/ \E e \in Events : Handle(e) \/ Dedupe(e)
    \/ \E q \in Requests : Dial(q) \/ DialFails(q)
    \/ \E r \in Rows : Agent(r)
    \/ Empties \/ SweepRead \/ SweepWrite

\* Nothing is left to happen.
Quiet ==
    /\ inbox = {} /\ \A e \in Events : job[e] = Idle
    /\ \A q \in Requests : dial[q] \in {"idle", "replayed", "done", "dead"}
    /\ \A r \in Rows : runtime[r] \in {"off", "done", "gone"}
    /\ room # "open" /\ contact # "dialing" /\ sweep = "idle"

Rest == Quiet /\ UNCHANGED vars

Next ==
    \/ Progress
    \/ Arrive \/ EndTest \/ Rest
    \/ \E e \in Events : Swallow(e) \/ Crash(e) \/ Throw(e) \/ Redeliver(e)
    \/ \E q \in Requests : DialCrash(q)
    \/ \E r \in Rows : AdmitLost(r) \/ AgentDies(r)

Spec == Init /\ [][Next]_vars
=============================================================================
