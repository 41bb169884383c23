------------------------ MODULE CallLifecycleProofs ------------------------
(***************************************************************************)
(* For every number of rows, requests and faults: what CallProps says of   *)
(* one call, and that a call's steps move the account as CreditAccount     *)
(* promises.                                                               *)
(***************************************************************************)
EXTENDS CallProps, WellFoundedInduction, TLAPS

JobSteps == {"idle", "create", "reserve", "note", "terminal", "complete", "settle",
             "count", "fail", "release"}
DialSteps == {"idle", "create", "dispatch", "ring", "accepted", "failed", "stamp",
              "retry", "replayed", "done", "dead"}
AgentSteps == {"off", "dispatched", "talking", "closing", "refused", "settling",
               "done", "gone"}
RowStatuses == {"none", "CREATED", "QUEUED", "DIALING", "RINGING", "ANSWERED",
                "IN_PROGRESS"} \cup Terminal
Outcomes == {"completed", "busy", "no_answer", "failed"}

\* The type of every variable but late.
CallType ==
    /\ origin \in {"campaign", "web", "test", "inbound", "prefixed", "legacy"}
    /\ call \in [Rows -> [status : RowStatuses, stale : BOOLEAN, answered : BOOLEAN]]
    /\ terminal \in SUBSET Rows
    /\ balance \in Int
    /\ stage \in [Rows -> Account!Stages]
    /\ contact \in {"none", "pending", "dialing"} \cup Outcomes
    /\ counted \in Nat
    /\ room \in {"none", "open", "closed"}
    /\ inbox \in SUBSET Events
    /\ hook \in [RoomEvents -> {"none", "received", "processed", "failed"}]
    /\ job \in [Events -> [pc : JobSteps, row : Rows \cup {0}, seen : BOOLEAN]]
    /\ dial \in [Requests -> DialSteps]
    /\ runtime \in [Rows -> AgentSteps]
    /\ sweep \in {"idle", "stale"} \cup Outcomes
    /\ faults \in 0..MaxFaults

Dialed == {"campaign", "web", "test"}
Called == {"dispatch", "ring", "accepted", "failed", "stamp", "retry", "done"}
Ends == {"finished"} \cup Statuses

\* Which handler can be where, and that it works on a row.
JobsKnown ==
    \A e \in Events :
        /\ job[e].pc = "idle" => job[e] = Idle
        /\ job[e].pc # "idle" /\ e \in RoomEvents => hook[e] = "received"
        /\ job[e].pc = "create" =>
              e = "caller" /\ Existing # Rows /\ origin \in {"inbound", "prefixed"}
        /\ job[e].pc \notin {"idle", "create"} => job[e].row \in Existing
        /\ job[e].pc \in {"reserve", "note"} => e \in {"started", "agent", "caller"}
        /\ job[e].pc = "complete" => e = "finished"
        /\ job[e].pc \in {"terminal", "settle", "count"} => e \in Ends
        /\ job[e].pc \in {"fail", "release"} => e = "no_agent"

\* What each origin rules out.
OriginsKnown ==
    /\ contact # "none" <=> origin \in {"campaign", "legacy"}
    /\ origin = "legacy" =>
          /\ 1 \in Existing /\ room = "none" /\ inbox \subseteq Statuses
          /\ \A e \in RoomEvents : job[e].pc = "idle"
          /\ \A r \in Rows : runtime[r] = "off" /\ stage[r] # "held"
    /\ origin # "legacy" =>
          /\ inbox \subseteq RoomEvents
          /\ \A e \in Statuses : job[e].pc = "idle"
    /\ origin = "inbound" => job["no_agent"].pc = "idle"
    /\ \A q \in Requests :
          /\ dial[q] # "idle" => origin \in Dialed
          /\ dial[q] \in {"ring", "accepted"} => origin \in {"web", "campaign"}
          /\ dial[q] \in {"stamp", "retry"} => origin = "campaign"
          /\ dial[q] \in {"create", "replayed"} => origin = "web"

\* The rows a call can have.
RowsKnown ==
    /\ \A r \in Rows :
          /\ call[r].status = "none" => call[r] = NoRow
          /\ stage[r] # "open" \/ runtime[r] # "off" \/ r \in terminal => r \in Existing
    /\ origin \notin {"inbound", "prefixed"} => Existing \subseteq {1}
    /\ origin \in {"inbound", "prefixed"} /\ room = "none" => Existing = {}
    /\ origin # "legacy" /\ room = "none" =>
          /\ \A r \in Rows : runtime[r] = "off" /\ stage[r] = "open" /\ r \notin terminal
          /\ inbox = {}
          /\ \A e \in Events : job[e].pc = "idle"

\* Who dials: one request that made the row.
DialersKnown ==
    /\ \A q \in Requests :
          /\ dial[q] \in Called => 1 \in Existing
          /\ dial[q] = "dispatch" => room = "none"
    /\ \A p, q \in Requests :
          /\ dial[p] \in Called /\ dial[q] \in Called => p = q
          /\ origin # "web" /\ dial[p] # "idle" /\ dial[q] # "idle" => p = q
    /\ origin \in Dialed /\ Existing = {} => room = "none"
    /\ origin \in {"campaign", "test"} /\ Undialed => Existing = {}

\* The end of a call is taken up once for each row.
Ending(e) == job[e].pc \in {"complete", "settle", "count"}
EndsOnce ==
    /\ counted <= 1
    /\ counted = 1 => 1 \in terminal
    /\ counted = 1 => contact # "none"
    /\ \A e \in Events : Ending(e) =>
          /\ job[e].row \in terminal
          /\ contact # "none" => counted = 0
          /\ job[e].pc = "count" => contact # "none"
    /\ \A e, f \in Events : Ending(e) /\ Ending(f) /\ job[e].row = job[f].row => e = f

\* The sweep acts when the dialer is through with the call.
Dialled == origin = "legacy" \/ \E q \in Requests : dial[q] \in {"done", "dead"}
StaleKnown ==
    /\ sweep # "idle" => contact # "none" /\ Dialled /\ (sweep = "stale" => 1 \in Existing)
    /\ \A r \in Rows : call[r].stale => r = 1 /\ contact # "none" /\ Dialled
    /\ job["finished"].pc \in {"terminal", "complete"} /\ job["finished"].seen =>
          call[job["finished"].row].stale

\* No agent talks on a call that was never reserved nor settled.
NeverOpenTalking ==
    \A r \in Rows : runtime[r] = "talking" /\ origin # "test" => stage[r] # "open"

\* A request that missed another is still to come.  No agent works on a row whose
\* dispatch is reported failed, and only such a row is settled for nothing.
CrossingsKnown ==
    /\ \A e \in late : e \in Events /\ job[e].pc \in {"reserve", "release"}
    /\ "no_agent" \in inbox \/ job["no_agent"].pc # "idle" =>
          origin \in {"inbound", "prefixed"} \/ runtime[1] = "gone"
    /\ job["no_agent"].pc # "idle" => origin \notin {"inbound", "prefixed"}
    /\ \A r \in Rows : stage[r] \in {"void", "stranded"} =>
          runtime[r] = "gone" \/ (origin = "legacy" /\ stage[r] = "void")

\* Nothing has failed, or only a session that served the call.
Unserved(r) == runtime[r] = "done" /\ stage[r] # "settled"
Intact ==
    \/ faults = 0
    \/ faults = 1 /\ MaxFaults = 1 /\ origin # "test" /\ \E r \in Rows : Unserved(r)

Handled == \/ "finished" \in inbox /\ hook["finished"] = "none"
           \/ job["finished"].pc = "terminal"
           \/ 1 \in terminal

SettledAtEnd ==
    stage[1] \in {"open", "held"} => \E e \in Events : job[e].pc \in {"complete", "settle"}
CountedAtEnd ==
    contact # "none" => counted = 1 \/ \E e \in Events : Ending(e)
InboundEnds ==
    /\ call[1].status \in {"none", "IN_PROGRESS", "COMPLETED"}
    /\ 1 \in terminal => call[1].status = "COMPLETED" \/ job["finished"].pc = "complete"

Whole ==
    /\ origin # "prefixed" => Existing \subseteq {1}
    /\ origin = "inbound" /\ job["caller"].pc = "create" => Existing = {}
    /\ origin # "prefixed" /\ room = "closed" /\ Existing # {} => Handled
    /\ 1 \in terminal /\ origin # "prefixed" => SettledAtEnd /\ CountedAtEnd
    /\ origin = "campaign" =>
          /\ Undialed => contact = "dialing"
          /\ \A q \in Requests : dial[q] \in Called \ {"dispatch"} => room # "none"
    /\ \A q \in Requests : dial[q] # "dead"
    /\ origin = "legacy" => \A e \in Statuses : e \in inbox \/ 1 \in terminal
    /\ origin = "inbound" => InboundEnds

Served ==
    /\ \A r \in Rows : Unserved(r) /\ origin # "test" => faults > 0
    /\ Intact => Whole

CallInv ==
    CallType /\ JobsKnown /\ OriginsKnown /\ RowsKnown /\ DialersKnown /\ EndsOnce /\ StaleKnown
    /\ NeverOpenTalking /\ Served

-----------------------------------------------------------------------------
(* What the helpers of the model do. *)

\* The row a lookup picks is the oldest of those it may pick from.
LEMMA MinIsLeast ==
    ASSUME NEW S \in SUBSET Nat, S # {}
    PROVE  Min(S) \in S /\ \A y \in S : Min(S) <= y
<1>1. PICK x \in S : \A y \in S : ~(<<y, x>> \in OpToRel(<, Nat))
  BY NatLessThanWellFounded, WFMin
<1>2. \A y \in S : x <= y
  <2> SUFFICES ASSUME NEW y \in S PROVE x <= y
    OBVIOUS
  <2>1. ~(y < x)
    BY <1>1 DEF OpToRel
  <2> QED BY <2>1
<1> QED BY <1>2 DEF Min

\* A handler that goes on keeps its row and what it read; nothing else moves.
LEMMA GotoEffect ==
    ASSUME CallType, NEW e \in Events, NEW pc \in JobSteps, Goto(e, pc)
    PROVE  /\ job' \in [Events -> [pc : JobSteps, row : Rows \cup {0}, seen : BOOLEAN]]
           /\ job'[e].pc = pc /\ job'[e].row = job[e].row /\ job'[e].seen = job[e].seen
           /\ \A f \in Events : f # e => job'[f] = job[f]
           /\ hook' = hook /\ inbox' = inbox
  BY DEF Goto, CallType

\* A handler that ends leaves its job idle and its event answered.
LEMMA DoneEffect ==
    ASSUME CallType, NEW e \in Events, Done(e)
    PROVE  /\ job' \in [Events -> [pc : JobSteps, row : Rows \cup {0}, seen : BOOLEAN]]
           /\ job'[e] = Idle /\ job'[e].pc = "idle"
           /\ \A f \in Events : f # e => job'[f] = job[f]
           /\ hook' \in [RoomEvents -> {"none", "received", "processed", "failed"}]
           /\ \A f \in RoomEvents : f # e => hook'[f] = hook[f]
           /\ inbox' = inbox \ {e}
  BY DEF Done, CallType, Idle, JobSteps

\* A handler that starts takes its row, and remembers of it what it read.
LEMMA BeginEffect ==
    ASSUME CallType, NEW e \in Events, NEW pc \in JobSteps, NEW r \in Rows, Begin(e, pc, r)
    PROVE  /\ job' \in [Events -> [pc : JobSteps, row : Rows \cup {0}, seen : BOOLEAN]]
           /\ job'[e].pc = pc /\ job'[e].row = r
           /\ e = "finished" /\ job'[e].seen => call[r].stale
           /\ \A f \in Events : f # e => job'[f] = job[f]
           /\ hook' \in [RoomEvents -> {"none", "received", "processed", "failed"}]
           /\ \A f \in RoomEvents : f # e => hook'[f] = hook[f]
           /\ e \in RoomEvents => hook'[e] = "received"
           /\ inbox' = inbox
  BY DEF Begin, CallType

\* transitionState changes one row, only its status and its answered stamp, and
\* never a finished one.
LEMMA TransitionEffect ==
    ASSUME CallType, NEW r \in Rows, NEW target \in Terminal \cup {"RINGING", "ANSWERED"},
           call' = Transition(r, target), call[r].status = "none" => call[r] = NoRow
    PROVE  /\ call' \in [Rows -> [status : RowStatuses, stale : BOOLEAN, answered : BOOLEAN]]
           /\ \A x \in Rows : x # r => call'[x] = call[x]
           /\ call'[r].stale = call[r].stale
           /\ call[r].status = "none" => call'[r] = call[r]
           /\ call'[r].status = "none" => call[r].status = "none"
           /\ call'[r].status # call[r].status => call[r].status \notin Terminal
           /\ call[r].status \in Sources[target] => call'[r].status = target
           /\ call[r].status \notin Sources[target] => call'[r].status = call[r].status
           /\ Existing' = Existing
<1>1. /\ Sources[target] \cap Terminal = {}
      /\ "none" \notin Sources[target] /\ target \in RowStatuses /\ target # "none"
  BY DEF Sources, Terminal, RowStatuses
<1>2. CASE call[r].status \in Sources[target] \cup {target}
  <2>1. call' = [call EXCEPT ![r].status = target, ![r].answered = @ \/ target = "ANSWERED"]
    BY <1>2 DEF Transition
  <2>2. /\ call' \in [Rows -> [status : RowStatuses, stale : BOOLEAN, answered : BOOLEAN]]
        /\ call'[r].status = target /\ call'[r].stale = call[r].stale
        /\ \A x \in Rows : x # r => call'[x] = call[x]
    <3>1. call \in [Rows -> [status : RowStatuses, stale : BOOLEAN, answered : BOOLEAN]]
      BY DEF CallType
    <3>2. target \in RowStatuses
      BY <1>1
    <3> QED BY <2>1, <3>1, <3>2
  <2>3. call[r].status # "none" /\ call'[r].status # "none"
    BY <1>1, <1>2, <2>2
  <2>4. Existing' = Existing
    <3>1. call'[r] # NoRow /\ call[r] # NoRow
      BY <2>3 DEF NoRow
    <3> QED BY <2>2, <3>1 DEF Existing
  <2> QED BY <1>1, <1>2, <2>2, <2>3, <2>4
<1>3. CASE call[r].status \notin Sources[target] \cup {target}
  <2>1. call' = call
    BY <1>3 DEF Transition
  <2> QED BY <1>1, <1>3, <2>1 DEF CallType, Existing
<1> QED BY <1>2, <1>3

\* Reserving holds an open row, and strands a hold that comes too late.
LEMMA ReserveEffect ==
    ASSUME CallType, NEW r \in Rows, NEW asks, Reserve(r, asks)
    PROVE  /\ balance' \in Int
           /\ stage' \in [Rows -> Account!Stages]
           /\ stage[r] = "open" => stage'[r] = "held"
           /\ stage[r] # "open" =>
                \/ stage'[r] = stage[r]
                \/ stage[r] = "void" /\ stage'[r] = "stranded"
           /\ \A x \in Rows : x # r => stage'[x] = stage[x]
           /\ late' \subseteq (late \ asks) \cup Asking(r, "release")
  BY CallAssumption DEF Reserve, Over, Account!Hold, Account!HoldLate, CallType, Account!Stages

\* Settling ends a row's account: settled, or nothing was held, or the hold was missed.
LEMMA SettleEffect ==
    ASSUME CallType, NEW r \in Rows, NEW usage \in {0, Minute}, NEW asks,
           Settle(r, usage, asks)
    PROVE  /\ balance' \in Int
           /\ stage' \in [Rows -> Account!Stages]
           /\ stage'[r] \in {"settled", "void", "stranded"}
           /\ stage[r] = "settled" => stage'[r] = "settled"
           /\ stage'[r] = "void" => stage[r] = "void" \/ usage = 0
           /\ stage'[r] = "stranded" => stage[r] = "stranded" \/ late \cap asks # {}
           /\ \A x \in Rows : x # r => stage'[x] = stage[x]
           /\ late' \subseteq (late \ asks) \cup Asking(r, "reserve")
  BY CallAssumption DEF Settle, Over, Account!Charge, Account!ChargeBlind, CallType,
                        Account!Stages

\* Room events and Plivo statuses are told apart.
LEMMA EventsApart ==
    /\ Events = RoomEvents \cup Statuses /\ RoomEvents \cap Statuses = {}
    /\ RoomEvents = {"started", "agent", "caller", "finished", "no_agent"}
    /\ Statuses \subseteq Terminal
    /\ \A e \in {"started", "agent", "caller", "finished", "no_agent"} : e \in Events
  BY CallAssumption DEF Events, RoomEvents, Terminal

\* A looked-up row exists; a lookup by name finds the row of a dialed or inbound room.
LEMMA LookupEffect ==
    ASSUME CallInv, NEW e \in Events
    PROVE  /\ Resolved(e) \subseteq Existing
           /\ Existing \subseteq Rows
           /\ origin = "prefixed" => Resolved(e) = {}
           /\ origin = "inbound" => Resolved("no_agent") = {}
           /\ origin # "prefixed" /\ e # "no_agent" /\ Existing # {} => Resolved(e) # {}
<1>1. Existing \subseteq Rows /\ Existing \in SUBSET Nat
  BY CallAssumption DEF Existing
<1> QED BY <1>1, MinIsLeast DEF Resolved, Found

-----------------------------------------------------------------------------
(* What a step leaves alone it preserves. *)

\* Who dials is kept while no dialer moves and the room stays as it is.
LEMMA DialersFrame ==
    ASSUME DialersKnown, UNCHANGED <<origin, dial, room>>, Existing' = Existing
    PROVE  DialersKnown'
  BY DEF DialersKnown, Undialed

\* What the sweep left is kept while rows, contact and dialers stay as they are.
LEMMA StaleFrame ==
    ASSUME StaleKnown, UNCHANGED <<origin, dial, contact, sweep, call>>,
           Existing' = Existing, job'["finished"] = job["finished"]
    PROVE  StaleKnown'
  BY DEF StaleKnown, Dialled

\* No one comes to be served for nothing while no agent moves and no hold is undone.
LEMMA BilledFrame ==
    ASSUME NeverOpenTalking, UNCHANGED <<origin, runtime>>,
           \A r \in Rows : stage[r] # "open" => stage'[r] # "open"
    PROVE  NeverOpenTalking'
  BY DEF NeverOpenTalking

\* A fault that no session pays for leaves nothing to be claimed of the rest.
LEMMA ServedStep ==
    ASSUME CallInv, UNCHANGED origin, UNCHANGED faults \/ Fault,
           \A r \in Rows : Unserved(r)' /\ origin # "test" => Unserved(r),
           UNCHANGED faults /\ Whole => Whole'
    PROVE  Served'
<1>1. faults' \in Nat /\ faults \in Nat /\ MaxFaults \in Nat /\ faults <= faults'
  BY CallAssumption DEF CallInv, CallType, Fault
<1>2. \A r \in Rows : Unserved(r)' /\ origin' # "test" => faults' > 0
  BY <1>1 DEF CallInv, Served
<1>3. ASSUME Intact' PROVE Whole'
  <2>1. CASE UNCHANGED faults
    BY <1>3, <2>1 DEF CallInv, Served, Intact
  <2>2. CASE Fault
    <3>1. faults' > 0 /\ \E r \in Rows : Unserved(r)' /\ origin # "test" /\ faults' = 1
      BY <1>1, <1>3, <2>2 DEF Fault, Intact
    <3>2. faults > 0
      BY <3>1 DEF CallInv, Served
    <3> QED BY <1>1, <2>2, <3>1, <3>2 DEF Fault
  <2> QED BY <2>1, <2>2
<1> QED BY <1>2, <1>3 DEF Served

\* A handler may take up an event it was sent, and leaves everything but jobs alone.
LEMMA OriginsHandler ==
    ASSUME OriginsKnown, UNCHANGED <<origin, room, dial, runtime>>, Existing' = Existing,
           (contact' = "none") = (contact = "none"), inbox' \subseteq inbox,
           \A f \in Events : job'[f].pc # "idle" =>
              \/ job[f].pc # "idle"
              \/ f \in inbox /\ (origin = "inbound" => f # "no_agent"),
           \A r \in Rows : stage'[r] = "held" => stage[r] = "held" \/ origin # "legacy"
    PROVE  OriginsKnown'
<1> USE EventsApart
<1>1. contact' # "none" <=> origin' \in {"campaign", "legacy"}
  BY DEF OriginsKnown
<1>2. origin' = "legacy" => 1 \in Existing' /\ room' = "none" /\ inbox' \subseteq Statuses
  BY DEF OriginsKnown
<1>3. origin' = "legacy" => \A f \in RoomEvents : job'[f].pc = "idle"
  BY DEF OriginsKnown
<1>4. origin' = "legacy" => \A r \in Rows : runtime'[r] = "off" /\ stage'[r] # "held"
  BY DEF OriginsKnown
<1>5. origin' # "legacy" => inbox' \subseteq RoomEvents
  BY DEF OriginsKnown
<1>6. origin' # "legacy" => \A f \in Statuses : job'[f].pc = "idle"
  BY DEF OriginsKnown
<1>7. origin' = "inbound" => job'["no_agent"].pc = "idle"
  BY DEF OriginsKnown
<1>8. \A q \in Requests :
          /\ dial'[q] # "idle" => origin' \in Dialed
          /\ dial'[q] \in {"ring", "accepted"} => origin' \in {"web", "campaign"}
          /\ dial'[q] \in {"stamp", "retry"} => origin' = "campaign"
          /\ dial'[q] \in {"create", "replayed"} => origin' = "web"
  BY DEF OriginsKnown
<1> QED BY <1>1, <1>2, <1>3, <1>4, <1>5, <1>6, <1>7, <1>8 DEF OriginsKnown

\* What else a handler may do while everything is whole.
LEMMA WholeHandler ==
    ASSUME Whole, UNCHANGED <<origin, room, dial>>, Existing' = Existing,
           origin = "inbound" /\ job'["caller"].pc = "create" => Existing = {},
           origin # "prefixed" /\ room = "closed" /\ Existing # {} => (Handled => Handled'),
           1 \in terminal' /\ origin # "prefixed" => SettledAtEnd' /\ CountedAtEnd',
           origin = "campaign" /\ Undialed => contact' = "dialing",
           origin = "legacy" =>
              \A f \in Statuses : f \in inbox => f \in inbox' \/ 1 \in terminal',
           1 \in terminal => 1 \in terminal',
           origin = "inbound" => InboundEnds'
    PROVE  Whole'
<1>1. origin' # "prefixed" => Existing' \subseteq {1}
  BY DEF Whole
<1>2. origin' # "prefixed" /\ room' = "closed" /\ Existing' # {} => Handled'
  BY DEF Whole
<1>3. origin' = "campaign" =>
          /\ Undialed' => contact' = "dialing"
          /\ \A q \in Requests : dial'[q] \in Called \ {"dispatch"} => room' # "none"
  BY DEF Whole, Undialed
<1>4. \A q \in Requests : dial'[q] # "dead"
  BY DEF Whole
<1>5. origin' = "legacy" => \A f \in Statuses : f \in inbox' \/ 1 \in terminal'
  BY DEF Whole
<1> QED BY <1>1, <1>2, <1>3, <1>4, <1>5 DEF Whole

\* A job that has its row goes on or ends; what its step may change beside it.
GoesOn(e) ==
    \/ job'[e] = Idle
    \/ /\ job'[e].row = job[e].row /\ hook' = hook
       /\ <<job[e].pc, job'[e].pc>> \in
             {<<"reserve", "note">>, <<"terminal", "complete">>, <<"terminal", "settle">>,
              <<"complete", "settle">>, <<"settle", "count">>, <<"fail", "release">>}
       /\ job'[e].pc = "complete" => e = "finished"

MovesMoney(e) ==
    \A r \in Rows :
        \/ stage'[r] = stage[r]
        \/ /\ r = job[e].row /\ stage'[r] # "open" /\ stage[r] # "settled"
           /\ stage[r] \notin {"open", "held"} => stage'[r] \notin {"open", "held"}
           /\ origin = "legacy" => stage'[r] # "held"

HandlerStep(e) ==
    /\ job[e].pc # "idle"
    /\ job[e].pc = "create" => UNCHANGED <<stage, terminal>>
    /\ UNCHANGED <<origin, room, dial, runtime, sweep>> /\ Existing' = Existing
    /\ \A r \in Rows : call'[r].status = "none" => call'[r] = NoRow
    /\ (contact' = "none") = (contact = "none")
    /\ MovesMoney(e)
    /\ terminal' \subseteq terminal \cup {job[e].row}
    /\ inbox' \subseteq inbox
    /\ \A f \in Events : f # e => job'[f] = job[f]
    /\ \A f \in RoomEvents : f # e => hook'[f] = hook[f]
    /\ GoesOn(e)

\* A step of a handler keeps who works on what, who dials and who is billed.
LEMMA HandlerKeeps ==
    ASSUME CallInv, CallType', NEW e \in Events, HandlerStep(e)
    PROVE  /\ JobsKnown' /\ OriginsKnown' /\ RowsKnown' /\ DialersKnown' /\ NeverOpenTalking'
           /\ \A r \in Rows : Unserved(r)' => Unserved(r)
<1> USE EventsApart DEF HandlerStep
<1>1. job'[e].pc = "idle" \/ job'[e].pc \in {"note", "complete", "settle", "count", "release"}
  BY DEF GoesOn, Idle
<1>2. JobsKnown'
  <2> SUFFICES ASSUME NEW f \in Events
               PROVE  /\ job'[f].pc = "idle" => job'[f] = Idle
                      /\ job'[f].pc # "idle" /\ f \in RoomEvents => hook'[f] = "received"
                      /\ job'[f].pc = "create" =>
                            /\ f = "caller" /\ Existing' # Rows
                            /\ origin' \in {"inbound", "prefixed"}
                      /\ job'[f].pc \notin {"idle", "create"} => job'[f].row \in Existing'
                      /\ job'[f].pc \in {"reserve", "note"} =>
                            f \in {"started", "agent", "caller"}
                      /\ job'[f].pc = "complete" => f = "finished"
                      /\ job'[f].pc \in {"terminal", "settle", "count"} => f \in Ends
                      /\ job'[f].pc \in {"fail", "release"} => f = "no_agent"
    BY DEF JobsKnown
  <2>1. CASE f # e
    BY <2>1 DEF CallInv, JobsKnown
  <2>2. CASE f = e /\ job'[e] = Idle
    BY <2>2 DEF Idle
  <2>3. CASE f = e /\ job'[e] # Idle
    BY <2>3, <1>1 DEF CallInv, JobsKnown, GoesOn, Ends
  <2> QED BY <2>1, <2>2, <2>3
<1>3. OriginsKnown'
  <2>1. \A f \in Events : job'[f].pc # "idle" => job[f].pc # "idle"
    BY DEF GoesOn, Idle
  <2>2. \A r \in Rows : stage'[r] = "held" => stage[r] = "held" \/ origin # "legacy"
    BY DEF MovesMoney
  <2> QED BY <2>1, <2>2, OriginsHandler DEF CallInv
<1>4. RowsKnown'
  <2>1. job[e].pc # "create" => job[e].row \in Existing
    BY DEF CallInv, JobsKnown
  <2>2. \A r \in Rows :
          /\ call'[r].status = "none" => call'[r] = NoRow
          /\ stage'[r] # "open" \/ runtime'[r] # "off" \/ r \in terminal' => r \in Existing'
    BY <2>1 DEF CallInv, RowsKnown, MovesMoney
  <2>3. origin' # "legacy" => room' # "none"
    BY DEF CallInv, RowsKnown
  <2> QED BY <2>2, <2>3 DEF CallInv, RowsKnown
<1>5. DialersKnown'
  BY DialersFrame DEF CallInv
<1>6. NeverOpenTalking'
  BY BilledFrame DEF CallInv, MovesMoney
<1>7. \A r \in Rows : Unserved(r)' => Unserved(r)
  BY DEF Unserved, MovesMoney
<1> QED BY <1>2, <1>3, <1>4, <1>5, <1>6, <1>7

\* No job takes up the end of a row, and no count is made.
LEMMA EndsFrame ==
    ASSUME EndsOnce, UNCHANGED <<counted, terminal>>, (contact' = "none") = (contact = "none"),
           \A f \in Events : Ending(f)' => Ending(f) /\ job'[f].row = job[f].row,
           \A f \in Events : job'[f].pc = "count" => contact # "none"
    PROVE  EndsOnce'
  BY DEF EndsOnce

\* No row becomes stale, and the end of a stale one is not taken up.
LEMMA StaleStep ==
    ASSUME StaleKnown, UNCHANGED <<origin, dial, sweep>>, Existing' = Existing,
           (contact' = "none") = (contact = "none"),
           \A r \in Rows : call'[r].stale => call[r].stale,
           job'["finished"].pc \in {"terminal", "complete"} /\ job'["finished"].seen =>
              call'[job'["finished"].row].stale
    PROVE  StaleKnown'
  BY DEF StaleKnown, Dialled

-----------------------------------------------------------------------------
(* The steps of the webhook handlers. *)

\* Claiming a webhook and looking its call up.
LEMMA ClaimKeeps == ASSUME CallInv, NEW e \in Events, Claim(e) PROVE CallInv'
<1> USE EventsApart
<1>1. /\ UNCHANGED <<origin, call, terminal, money, contact, counted, room, dial,
                     runtime, sweep>>
      /\ Existing' = Existing /\ e \in RoomEvents /\ e \in inbox
      /\ hook[e] \in {"none", "failed"} /\ Existing \subseteq Rows
  BY DEF Claim, Existing
<1>2. PICK found \in {Resolved(e), {}} :
          /\ IF found = Resolved(e) THEN UNCHANGED faults ELSE Fault
          /\ \/ \E r \in found :
                    Begin(e, CASE e = "finished" -> "terminal"
                               [] e = "no_agent" -> "fail"
                               [] OTHER          -> "reserve", r)
             \/ found = {} /\ Inbound(e) /\ Begin(e, "create", Min(Rows \ Existing))
             \/ found = {} /\ ~Inbound(e) /\ Done(e)
  BY DEF Claim
<1>3. DialersKnown' /\ NeverOpenTalking'
  BY <1>1, DialersFrame, BilledFrame DEF CallInv, money
<1>4. /\ UNCHANGED faults \/ Fault
      /\ faults' \in 0..MaxFaults
      /\ \A r \in Rows : Unserved(r)' => Unserved(r)
  BY <1>1, <1>2, CallAssumption DEF CallInv, CallType, Fault, Unserved, money
<1>5. ASSUME NEW r \in Resolved(e), NEW pc \in JobSteps, Begin(e, pc, r),
             pc = (CASE e = "finished" -> "terminal" [] e = "no_agent" -> "fail"
                     [] OTHER -> "reserve")
      PROVE  CallInv'
  <2>1. /\ r \in Existing /\ r \in Rows
        /\ origin = "inbound" => e # "no_agent"
        /\ pc = IF e = "finished" THEN "terminal" ELSE IF e = "no_agent" THEN "fail"
                ELSE "reserve"
    BY <1>1, <1>5, LookupEffect
  <2>2. /\ job' \in [Events -> [pc : JobSteps, row : Rows \cup {0}, seen : BOOLEAN]]
        /\ job'[e].pc = pc /\ job'[e].row = r
        /\ e = "finished" /\ job'[e].seen => call[r].stale
        /\ \A f \in Events : f # e => job'[f] = job[f]
        /\ hook' \in [RoomEvents -> {"none", "received", "processed", "failed"}]
        /\ \A f \in RoomEvents : f # e => hook'[f] = hook[f]
        /\ hook'[e] = "received" /\ inbox' = inbox
    BY <1>1, <1>5, <2>1, BeginEffect DEF CallInv
  <2>3. CallType'
    BY <1>1, <1>4, <2>1, <2>2 DEF CallInv, CallType, money
  <2>4. JobsKnown'
    BY <1>1, <2>1, <2>2 DEF CallInv, CallType, JobsKnown, Ends
  <2>5. OriginsKnown'
    BY <1>1, <2>1, <2>2, OriginsHandler DEF CallInv, money
  <2>6. RowsKnown'
    BY <1>1, <2>1, <2>2 DEF CallInv, CallType, RowsKnown, money
  <2>7. EndsOnce'
    BY <1>1, <2>1, <2>2 DEF CallInv, CallType, EndsOnce, Ending
  <2>8. StaleKnown'
    BY <1>1, <2>1, <2>2 DEF CallInv, CallType, StaleKnown, Dialled
  <2>9. ASSUME Whole PROVE Whole'
    <3>1. Handled => Handled'
      BY <1>1, <2>1, <2>2 DEF Handled
    <3>2. 1 \in terminal' /\ origin # "prefixed" => SettledAtEnd' /\ CountedAtEnd'
      BY <1>1, <2>1, <2>2, <2>9 DEF CallInv, JobsKnown, Whole, SettledAtEnd, CountedAtEnd,
                                         Ending, money
    <3>3. origin = "inbound" => InboundEnds'
      BY <1>1, <2>1, <2>2, <2>9 DEF CallInv, JobsKnown, Whole, InboundEnds
    <3> QED BY <1>1, <2>1, <2>2, <2>9, <3>1, <3>2, <3>3, WholeHandler DEF Whole
  <2> QED BY <1>1, <1>3, <1>4, <2>3, <2>4, <2>5, <2>6, <2>7, <2>8, <2>9, ServedStep DEF CallInv
<1>6. ASSUME Inbound(e), NEW r \in Rows, Begin(e, "create", r), Resolved(e) = {} \/ Fault
      PROVE  CallInv'
  <2>1. e = "caller" /\ Existing # Rows /\ origin \in {"inbound", "prefixed"}
    BY <1>6 DEF Inbound
  <2>2. /\ job' \in [Events -> [pc : JobSteps, row : Rows \cup {0}, seen : BOOLEAN]]
        /\ job'[e].pc = "create"
        /\ \A f \in Events : f # e => job'[f] = job[f]
        /\ hook' \in [RoomEvents -> {"none", "received", "processed", "failed"}]
        /\ \A f \in RoomEvents : f # e => hook'[f] = hook[f]
        /\ hook'[e] = "received" /\ inbox' = inbox
    <3>1. "create" \in JobSteps
      BY DEF JobSteps
    <3> QED BY <1>1, <1>6, <2>1, <3>1, BeginEffect DEF CallInv
  <2>3. CallType'
    BY <1>1, <1>4, <2>1, <2>2 DEF CallInv, CallType, money
  <2>4. JobsKnown'
    BY <1>1, <2>1, <2>2 DEF CallInv, CallType, JobsKnown, Ends
  <2>5. OriginsKnown'
    BY <1>1, <2>1, <2>2, OriginsHandler DEF CallInv, money
  <2>6. RowsKnown'
    BY <1>1, <2>1, <2>2 DEF CallInv, CallType, RowsKnown, money
  <2>7. EndsOnce'
    BY <1>1, <2>1, <2>2 DEF CallInv, CallType, EndsOnce, Ending
  <2>8. StaleKnown'
    BY <1>1, <2>1, <2>2 DEF CallInv, CallType, StaleKnown, Dialled
  <2>9. ASSUME Whole, UNCHANGED faults PROVE Whole'
    <3>1. Resolved(e) = {}
      BY <1>4, <1>6, <2>9 DEF Fault, CallInv, CallType
    <3>2. origin # "prefixed" => Existing = {}
      BY <2>1, <3>1, LookupEffect
    <3>3. origin # "prefixed" /\ Existing # {} => (Handled => Handled')
      BY <1>1, <2>1, <2>2, <3>2 DEF Handled
    <3>4. 1 \in terminal' /\ origin # "prefixed" => SettledAtEnd' /\ CountedAtEnd'
      BY <1>1, <2>1, <2>2, <2>9 DEF CallInv, JobsKnown, Whole, SettledAtEnd, CountedAtEnd,
                                         Ending, money
    <3>5. origin = "inbound" => InboundEnds'
      BY <1>1, <2>1, <2>2, <2>9 DEF CallInv, JobsKnown, Whole, InboundEnds
    <3> QED BY <1>1, <2>1, <2>2, <2>9, <3>2, <3>3, <3>4, <3>5, WholeHandler DEF Whole
  <2> QED BY <1>1, <1>3, <1>4, <2>3, <2>4, <2>5, <2>6, <2>7, <2>8, <2>9, ServedStep DEF CallInv
<1>7. ASSUME Done(e), Resolved(e) = {} \/ Fault PROVE CallInv'
  <2>1. job[e].pc = "idle"
    BY <1>1 DEF CallInv, JobsKnown
  <2>2. /\ job' \in [Events -> [pc : JobSteps, row : Rows \cup {0}, seen : BOOLEAN]]
        /\ job'[e] = Idle /\ job'[e].pc = "idle"
        /\ \A f \in Events : f # e => job'[f] = job[f]
        /\ hook' \in [RoomEvents -> {"none", "received", "processed", "failed"}]
        /\ \A f \in RoomEvents : f # e => hook'[f] = hook[f]
        /\ inbox' = inbox \ {e}
    BY <1>7, DoneEffect DEF CallInv
  <2>3. CallType'
    BY <1>1, <1>4, <2>1, <2>2 DEF CallInv, CallType, money
  <2>4. JobsKnown'
    BY <1>1, <2>1, <2>2 DEF CallInv, CallType, JobsKnown, Ends
  <2>5. OriginsKnown'
    BY <1>1, <2>1, <2>2, OriginsHandler DEF CallInv, money
  <2>6. RowsKnown'
    BY <1>1, <2>1, <2>2 DEF CallInv, CallType, RowsKnown, money
  <2>7. EndsOnce'
    BY <1>1, <2>1, <2>2 DEF CallInv, CallType, EndsOnce, Ending
  <2>8. StaleKnown'
    BY <1>1, <2>1, <2>2 DEF CallInv, CallType, StaleKnown, Dialled
  <2>9. ASSUME Whole, UNCHANGED faults PROVE Whole'
    <3>1. Resolved(e) = {}
      BY <1>4, <1>7, <2>9 DEF Fault, CallInv, CallType
    <3>2. e = "finished" /\ origin # "prefixed" => Existing = {}
      BY <3>1, LookupEffect
    <3>3. origin # "prefixed" /\ Existing # {} => (Handled => Handled')
      BY <1>1, <2>1, <2>2, <3>2 DEF Handled
    <3>4. 1 \in terminal' /\ origin # "prefixed" => SettledAtEnd' /\ CountedAtEnd'
      BY <1>1, <2>1, <2>2, <2>9 DEF CallInv, JobsKnown, Whole, SettledAtEnd, CountedAtEnd,
                                         Ending, money
    <3>5. origin = "inbound" => InboundEnds'
      BY <1>1, <2>1, <2>2, <2>9 DEF CallInv, JobsKnown, Whole, InboundEnds
    <3> QED BY <1>1, <2>1, <2>2, <2>9, <3>2, <3>3, <3>4, <3>5, WholeHandler DEF Whole
  <2> QED BY <1>1, <1>3, <1>4, <2>3, <2>4, <2>5, <2>6, <2>7, <2>8, <2>9, ServedStep DEF CallInv
<1>8. Inbound(e) => Min(Rows \ Existing) \in Rows
  <2>1. Rows \ Existing \in SUBSET Nat /\ (Inbound(e) => Rows \ Existing # {})
    BY <1>1, CallAssumption DEF Inbound
  <2> QED BY <2>1, MinIsLeast
<1> QED BY <1>2, <1>5, <1>6, <1>7, <1>8 DEF JobSteps

\* The webhook's reservation, when the caller or the agent comes into the room.
LEMMA ReserveHookKeeps == ASSUME CallInv, NEW e \in Events, ReserveHook(e) PROVE CallInv'
<1> USE EventsApart
<1>1. /\ UNCHANGED <<origin, call, terminal, contact, counted, room, dial, runtime,
                     sweep, faults>>
      /\ Existing' = Existing /\ job[e].pc = "reserve" /\ Goto(e, "note")
      /\ Reserve(job[e].row, {e}) /\ "note" \in JobSteps
  BY DEF ReserveHook, At, Existing, JobSteps
<1>2. /\ job[e].row \in Existing /\ job[e].row \in Rows /\ origin # "legacy"
      /\ e \in {"started", "agent", "caller"}
  BY <1>1 DEF CallInv, JobsKnown, OriginsKnown, Existing
<1>3. /\ job' \in [Events -> [pc : JobSteps, row : Rows \cup {0}, seen : BOOLEAN]]
      /\ job'[e].pc = "note" /\ job'[e].row = job[e].row
      /\ \A f \in Events : f # e => job'[f] = job[f]
      /\ hook' = hook /\ inbox' = inbox
  BY <1>1, GotoEffect DEF CallInv
<1>4. /\ balance' \in Int /\ stage' \in [Rows -> Account!Stages]
      /\ stage'[job[e].row] # "open"
      /\ stage[job[e].row] # "open" =>
            \/ stage'[job[e].row] = stage[job[e].row]
            \/ stage[job[e].row] = "void" /\ stage'[job[e].row] = "stranded"
      /\ \A x \in Rows : x # job[e].row => stage'[x] = stage[x]
  BY <1>1, <1>2, ReserveEffect DEF CallInv
<1>5. CallType'
  BY <1>1, <1>3, <1>4 DEF CallInv, CallType
<1>6. /\ JobsKnown' /\ OriginsKnown' /\ RowsKnown' /\ DialersKnown' /\ NeverOpenTalking'
      /\ \A r \in Rows : Unserved(r)' => Unserved(r)
  <2>1. MovesMoney(e)
    BY <1>2, <1>4 DEF MovesMoney
  <2>2. GoesOn(e)
    BY <1>1, <1>3 DEF GoesOn
  <2>3. HandlerStep(e)
    BY <1>1, <1>3, <2>1, <2>2 DEF HandlerStep, CallInv, RowsKnown
  <2> QED BY <1>5, <2>3, HandlerKeeps
<1>7. EndsOnce'
  BY <1>1, <1>3, EndsFrame DEF CallInv, EndsOnce, Ending
<1>8. StaleKnown'
  BY <1>1, <1>2, <1>3, StaleFrame DEF CallInv
<1>9. ASSUME Whole PROVE Whole'
  <2>1. Handled => Handled'
    BY <1>1, <1>2, <1>3 DEF Handled
  <2>2. 1 \in terminal' /\ origin # "prefixed" => SettledAtEnd' /\ CountedAtEnd'
    BY <1>1, <1>2, <1>3, <1>4, <1>9 DEF Whole, SettledAtEnd, CountedAtEnd, Ending
  <2>3. origin = "inbound" => InboundEnds'
    BY <1>1, <1>2, <1>3, <1>9 DEF Whole, InboundEnds
  <2> QED BY <1>1, <1>2, <1>3, <1>9, <2>1, <2>2, <2>3, WholeHandler DEF Whole
<1> QED BY <1>1, <1>5, <1>6, <1>7, <1>8, <1>9, ServedStep DEF CallInv

\* The audit event and ANSWERED.
LEMMA NoteKeeps == ASSUME CallInv, NEW e \in Events, Note(e) PROVE CallInv'
<1> USE EventsApart
<1>1. /\ UNCHANGED <<origin, terminal, money, contact, counted, room, dial, runtime,
                     sweep, faults>>
      /\ job[e].pc = "note" /\ Done(e)
      /\ call' = call \/ call' = Transition(job[e].row, "ANSWERED")
  BY DEF Note, At
<1>2. /\ job[e].row \in Existing /\ job[e].row \in Rows
      /\ e \in {"started", "agent", "caller"}
  BY <1>1 DEF CallInv, JobsKnown, Existing
<1>3. /\ job' \in [Events -> [pc : JobSteps, row : Rows \cup {0}, seen : BOOLEAN]]
      /\ job'[e] = Idle /\ job'[e].pc = "idle"
      /\ \A f \in Events : f # e => job'[f] = job[f]
      /\ hook' \in [RoomEvents -> {"none", "received", "processed", "failed"}]
      /\ \A f \in RoomEvents : f # e => hook'[f] = hook[f]
      /\ inbox' = inbox \ {e}
  BY <1>1, DoneEffect DEF CallInv
<1>4. /\ call' \in [Rows -> [status : RowStatuses, stale : BOOLEAN, answered : BOOLEAN]]
      /\ \A x \in Rows : call'[x].stale = call[x].stale
      /\ \A x \in Rows : call'[x].status = "none" => call'[x] = NoRow
      /\ \A x \in Rows : call[x].status \notin Sources["ANSWERED"] =>
                            call'[x].status = call[x].status
      /\ Existing' = Existing
  <2>1. \A x \in Rows : call[x].status = "none" => call[x] = NoRow
    BY DEF CallInv, RowsKnown
  <2>2. CASE call' = call
    BY <2>1, <2>2 DEF CallInv, CallType, Existing
  <2>3. CASE call' = Transition(job[e].row, "ANSWERED")
    BY <1>2, <2>1, <2>3, TransitionEffect DEF CallInv
  <2> QED BY <1>1, <2>2, <2>3
<1>5. CallType'
  BY <1>1, <1>3, <1>4 DEF CallInv, CallType, money
<1>6. /\ JobsKnown' /\ OriginsKnown' /\ RowsKnown' /\ DialersKnown' /\ NeverOpenTalking'
      /\ \A r \in Rows : Unserved(r)' => Unserved(r)
  <2>1. MovesMoney(e) /\ GoesOn(e)
    BY <1>1, <1>3 DEF MovesMoney, GoesOn, money
  <2>2. HandlerStep(e)
    BY <1>1, <1>3, <1>4, <2>1 DEF HandlerStep
  <2> QED BY <1>5, <2>2, HandlerKeeps
<1>7. EndsOnce'
  BY <1>1, <1>3, EndsFrame DEF CallInv, EndsOnce, Ending
<1>8. StaleKnown'
  <2>1. job'["finished"] = job["finished"]
    BY <1>2, <1>3
  <2> QED BY <1>1, <1>2, <1>4, <2>1, StaleStep
          DEF CallInv, CallType, StaleKnown, JobsKnown, Existing
<1>9. ASSUME Whole PROVE Whole'
  <2>1. Handled => Handled'
    BY <1>1, <1>2, <1>3 DEF Handled
  <2>2. 1 \in terminal' /\ origin # "prefixed" => SettledAtEnd' /\ CountedAtEnd'
    BY <1>1, <1>2, <1>3, <1>9 DEF Whole, SettledAtEnd, CountedAtEnd,
                                         Ending, money
  <2>3. origin = "inbound" => InboundEnds'
    BY <1>1, <1>2, <1>3, <1>4, <1>9, CallAssumption DEF Whole, InboundEnds, Sources
  <2> QED BY <1>1, <1>2, <1>3, <1>4, <1>9, <2>1, <2>2, <2>3, WholeHandler DEF Whole
<1> QED BY <1>1, <1>5, <1>6, <1>7, <1>8, <1>9, ServedStep DEF CallInv

\* The terminal event: the first one to be recorded goes on, later ones end.
LEMMA FirstKeeps == ASSUME CallInv, NEW e \in Events, First(e) PROVE CallInv'
<1> USE EventsApart
<1>1. /\ UNCHANGED <<origin, call, money, contact, counted, room, dial, runtime,
                     sweep, faults>>
      /\ job[e].pc = "terminal" /\ Existing' = Existing
      /\ terminal' = terminal \cup {job[e].row}
      /\ IF job[e].row \in terminal THEN Done(e)
         ELSE Goto(e, IF e = "finished" THEN "complete" ELSE "settle")
  BY DEF First, At, Existing
<1>2. /\ job[e].row \in Existing /\ job[e].row \in Rows /\ e \in Ends
      /\ contact # "none" => job[e].row = 1
  BY <1>1 DEF CallInv, JobsKnown, Existing, OriginsKnown, RowsKnown
<1>3. /\ job' \in [Events -> [pc : JobSteps, row : Rows \cup {0}, seen : BOOLEAN]]
      /\ IF job[e].row \in terminal
         THEN job'[e] = Idle /\ job'[e].pc = "idle"
         ELSE /\ job'[e].pc = (IF e = "finished" THEN "complete" ELSE "settle")
              /\ job'[e].row = job[e].row /\ job'[e].seen = job[e].seen /\ hook' = hook
      /\ \A f \in Events : f # e => job'[f] = job[f]
      /\ hook' \in [RoomEvents -> {"none", "received", "processed", "failed"}]
      /\ \A f \in RoomEvents : f # e => hook'[f] = hook[f]
      /\ inbox' \subseteq inbox /\ inbox \ {e} \subseteq inbox'
  <2>1. CASE job[e].row \in terminal
    BY <1>1, <2>1, DoneEffect DEF CallInv
  <2>2. CASE job[e].row \notin terminal
    <3>1. "complete" \in JobSteps /\ "settle" \in JobSteps
      BY DEF JobSteps
    <3>2. PICK pc \in JobSteps :
             pc = (IF e = "finished" THEN "complete" ELSE "settle") /\ Goto(e, pc)
      BY <1>1, <2>2, <3>1
    <3> QED BY <2>2, <3>2, GotoEffect DEF CallInv, CallType
  <2> QED BY <2>1, <2>2
<1>4. CallType'
  BY <1>1, <1>2, <1>3 DEF CallInv, CallType, money
<1>5. /\ JobsKnown' /\ OriginsKnown' /\ RowsKnown' /\ DialersKnown' /\ NeverOpenTalking'
      /\ \A r \in Rows : Unserved(r)' => Unserved(r)
  <2>1. MovesMoney(e)
    BY <1>1 DEF MovesMoney, money
  <2>2. GoesOn(e)
    BY <1>1, <1>3 DEF GoesOn
  <2>3. HandlerStep(e)
    BY <1>1, <1>3, <2>1, <2>2 DEF HandlerStep, CallInv, RowsKnown
  <2> QED BY <1>4, <2>3, HandlerKeeps
<1>6. EndsOnce'
  <2>1. CASE job[e].row \in terminal
    <3>1. terminal' = terminal
      BY <1>1, <2>1
    <3> QED BY <1>1, <1>3, <2>1, <3>1, EndsFrame DEF CallInv, EndsOnce, Ending
  <2>2. CASE job[e].row \notin terminal
    BY <1>1, <1>2, <1>3, <2>2 DEF CallInv, CallType, EndsOnce, Ending
  <2> QED BY <2>1, <2>2
<1>7. StaleKnown'
  BY <1>1, <1>3, StaleStep DEF CallInv, StaleKnown
<1>8. ASSUME Whole PROVE Whole'
  <2>1. origin # "prefixed" => job[e].row = 1 /\ 1 \in terminal'
    BY <1>1, <1>2, <1>8 DEF Whole
  <2>2. origin # "prefixed" => SettledAtEnd' /\ CountedAtEnd'
    <3>1. CASE job[e].row \in terminal
      BY <1>1, <1>3, <1>8, <2>1, <3>1 DEF Whole, SettledAtEnd, CountedAtEnd,
                                         Ending, money
    <3>2. CASE job[e].row \notin terminal
      BY <1>3, <3>2 DEF SettledAtEnd, CountedAtEnd, Ending
    <3> QED BY <3>1, <3>2
  <2>3. origin = "inbound" => InboundEnds'
    BY <1>1, <1>2, <1>3, <1>8 DEF Whole, InboundEnds, CallInv, OriginsKnown, Ends
  <2> QED BY <1>1, <1>2, <1>3, <1>8, <2>1, <2>2, <2>3, WholeHandler DEF Whole, Handled
<1> QED BY <1>1, <1>4, <1>5, <1>6, <1>7, <1>8, ServedStep DEF CallInv

\* room_finished completes the row, or the row the sweep had failed.
LEMMA CompleteKeeps == ASSUME CallInv, NEW e \in Events, Complete(e) PROVE CallInv'
<1> USE EventsApart
<1>1. /\ UNCHANGED <<origin, terminal, money, contact, counted, room, dial, runtime,
                     sweep, faults>>
      /\ job[e].pc = "complete" /\ Goto(e, "settle") /\ "settle" \in JobSteps
      /\ call' = IF ~SweepRecovery(e) THEN Transition(job[e].row, "COMPLETED")
                 ELSE IF call[job[e].row].status = "FAILED"
                 THEN [call EXCEPT ![job[e].row].status = "COMPLETED",
                                    ![job[e].row].stale = FALSE]
                 ELSE call
  BY DEF Complete, At, JobSteps
<1>2. job[e].row \in Existing /\ job[e].row \in Rows /\ e = "finished" /\ origin # "legacy"
  BY <1>1 DEF CallInv, JobsKnown, OriginsKnown, Existing
<1>3. /\ job' \in [Events -> [pc : JobSteps, row : Rows \cup {0}, seen : BOOLEAN]]
      /\ job'[e].pc = "settle" /\ job'[e].row = job[e].row
      /\ \A f \in Events : f # e => job'[f] = job[f]
      /\ hook' = hook /\ inbox' = inbox
  BY <1>1, GotoEffect DEF CallInv
<1>4. /\ call' \in [Rows -> [status : RowStatuses, stale : BOOLEAN, answered : BOOLEAN]]
      /\ \A x \in Rows : call'[x].stale => call[x].stale
      /\ \A x \in Rows : call'[x].status = "none" => call'[x] = NoRow
      /\ \A x \in Rows : x # job[e].row => call'[x] = call[x]
      /\ ~SweepRecovery(e) /\ call[job[e].row].status \in {"IN_PROGRESS", "COMPLETED"} =>
            call'[job[e].row].status = "COMPLETED"
      /\ Existing' = Existing
  <2>1. \A x \in Rows : call[x].status = "none" => call[x] = NoRow
    BY DEF CallInv, RowsKnown
  <2>2. CASE ~SweepRecovery(e)
    <3>1. call' = Transition(job[e].row, "COMPLETED")
      BY <1>1, <2>2
    <3>2. "COMPLETED" \in Terminal
      BY DEF Terminal
    <3>3. call[job[e].row].status = "COMPLETED" => call'[job[e].row].status = "COMPLETED"
      BY <1>2, <2>1, <3>1, <3>2, TransitionEffect DEF CallInv, Sources
    <3>4. call[job[e].row].status = "IN_PROGRESS" => call'[job[e].row].status = "COMPLETED"
      BY <1>2, <2>1, <3>1, <3>2, TransitionEffect DEF CallInv, Sources
    <3> QED BY <1>2, <2>1, <3>1, <3>2, <3>3, <3>4, TransitionEffect DEF CallInv
  <2>3. CASE SweepRecovery(e) /\ call[job[e].row].status = "FAILED"
    <3>1. call' = [call EXCEPT ![job[e].row].status = "COMPLETED", ![job[e].row].stale = FALSE]
      BY <1>1, <2>3
    <3>2. /\ call' \in [Rows -> [status : RowStatuses, stale : BOOLEAN, answered : BOOLEAN]]
          /\ call'[job[e].row].status = "COMPLETED" /\ ~call'[job[e].row].stale
          /\ \A x \in Rows : x # job[e].row => call'[x] = call[x]
      <4>1. call \in [Rows -> [status : RowStatuses, stale : BOOLEAN, answered : BOOLEAN]]
        BY DEF CallInv, CallType
      <4>2. "COMPLETED" \in RowStatuses
        BY DEF RowStatuses, Terminal
      <4> QED BY <1>2, <3>1, <4>1, <4>2
    <3>3. Existing' = Existing
      <4>1. call[job[e].row] # NoRow
        BY <1>2 DEF Existing
      <4>2. call'[job[e].row] # NoRow
        BY <3>2 DEF NoRow
      <4> QED BY <3>2, <4>1, <4>2 DEF Existing
    <3> QED BY <2>1, <2>3, <3>2, <3>3
  <2>4. CASE SweepRecovery(e) /\ call[job[e].row].status # "FAILED"
    BY <1>1, <2>1, <2>4 DEF CallInv, CallType, Existing
  <2> QED BY <2>2, <2>3, <2>4
<1>5. CallType'
  BY <1>1, <1>3, <1>4 DEF CallInv, CallType, money
<1>6. /\ JobsKnown' /\ OriginsKnown' /\ RowsKnown' /\ DialersKnown' /\ NeverOpenTalking'
      /\ \A r \in Rows : Unserved(r)' => Unserved(r)
  <2>1. MovesMoney(e) /\ GoesOn(e)
    BY <1>1, <1>3 DEF MovesMoney, GoesOn, money
  <2>2. HandlerStep(e)
    BY <1>1, <1>3, <1>4, <2>1 DEF HandlerStep
  <2> QED BY <1>5, <2>2, HandlerKeeps
<1>7. EndsOnce'
  BY <1>1, <1>3, EndsFrame DEF CallInv, EndsOnce, Ending
<1>8. StaleKnown'
  BY <1>1, <1>2, <1>3, <1>4, StaleStep DEF CallInv
<1>9. ASSUME Whole PROVE Whole'
  <2>1. Handled => Handled'
    BY <1>1, <1>2, <1>3 DEF Handled
  <2>2. 1 \in terminal' /\ origin # "prefixed" => SettledAtEnd' /\ CountedAtEnd'
    BY <1>1, <1>3, <1>9 DEF Whole, SettledAtEnd, CountedAtEnd,
                                         Ending, money
  <2>3. origin = "inbound" => InboundEnds'
    <3>1. ASSUME origin = "inbound"
          PROVE  /\ job[e].row = 1 /\ ~SweepRecovery(e)
                 /\ call[1].status \in {"IN_PROGRESS", "COMPLETED"}
      BY <1>1, <1>2, <1>9, <3>1
         DEF CallInv, StaleKnown, OriginsKnown, RowsKnown, Whole, InboundEnds, SweepRecovery,
             Existing
    <3> QED BY <1>4, <3>1 DEF InboundEnds
  <2> QED BY <1>1, <1>2, <1>3, <1>4, <1>9, <2>1, <2>2, <2>3, WholeHandler DEF Whole
<1> QED BY <1>1, <1>5, <1>6, <1>7, <1>8, <1>9, ServedStep DEF CallInv

\* The webhook's settlement.
LEMMA SettleHookKeeps == ASSUME CallInv, NEW e \in Events, SettleHook(e) PROVE CallInv'
<1> USE EventsApart
<1>1. /\ UNCHANGED <<origin, call, terminal, contact, counted, room, dial, runtime,
                     sweep, faults>>
      /\ job[e].pc = "settle" /\ Existing' = Existing
      /\ IF contact # "none" THEN Goto(e, "count") ELSE Done(e)
  BY DEF SettleHook, At, Existing
<1>2. PICK usage \in {0, Minute} : Settle(job[e].row, usage, {e})
  BY DEF SettleHook
<1>3. /\ job[e].row \in Existing /\ job[e].row \in Rows /\ e \in Ends
      /\ job[e].row \in terminal
  BY <1>1 DEF CallInv, JobsKnown, Existing, EndsOnce, Ending
<1>4. /\ balance' \in Int /\ stage' \in [Rows -> Account!Stages]
      /\ stage'[job[e].row] \in {"settled", "void", "stranded"}
      /\ stage[job[e].row] = "settled" => stage'[job[e].row] = "settled"
      /\ \A x \in Rows : x # job[e].row => stage'[x] = stage[x]
  BY <1>2, <1>3, SettleEffect DEF CallInv
<1>5. /\ job' \in [Events -> [pc : JobSteps, row : Rows \cup {0}, seen : BOOLEAN]]
      /\ IF contact = "none"
         THEN job'[e] = Idle /\ job'[e].pc = "idle"
         ELSE job'[e].pc = "count" /\ job'[e].row = job[e].row /\ hook' = hook
      /\ \A f \in Events : f # e => job'[f] = job[f]
      /\ hook' \in [RoomEvents -> {"none", "received", "processed", "failed"}]
      /\ \A f \in RoomEvents : f # e => hook'[f] = hook[f]
      /\ inbox' \subseteq inbox /\ inbox \ {e} \subseteq inbox'
  <2>1. CASE contact = "none"
    BY <1>1, <2>1, DoneEffect DEF CallInv
  <2>2. CASE contact # "none"
    <3>1. "count" \in JobSteps
      BY DEF JobSteps
    <3> QED BY <1>1, <2>2, <3>1, GotoEffect DEF CallInv, CallType
  <2> QED BY <2>1, <2>2
<1>6. CallType'
  BY <1>1, <1>4, <1>5 DEF CallInv, CallType
<1>7. /\ JobsKnown' /\ OriginsKnown' /\ RowsKnown' /\ DialersKnown' /\ NeverOpenTalking'
      /\ \A r \in Rows : Unserved(r)' => Unserved(r)
  <2>1. MovesMoney(e)
    BY <1>3, <1>4 DEF MovesMoney, CallInv, CallType
  <2>2. GoesOn(e)
    BY <1>1, <1>5 DEF GoesOn
  <2>3. HandlerStep(e)
    BY <1>1, <1>5, <2>1, <2>2 DEF HandlerStep, CallInv, RowsKnown
  <2> QED BY <1>6, <2>3, HandlerKeeps
<1>8. EndsOnce'
  BY <1>1, <1>5, EndsFrame DEF CallInv, EndsOnce, Ending
<1>9. StaleKnown'
  BY <1>1, <1>5, StaleStep DEF CallInv, StaleKnown
<1>10. ASSUME Whole PROVE Whole'
  <2>1. origin # "prefixed" => job[e].row = 1 /\ 1 \in terminal'
    BY <1>1, <1>3, <1>10 DEF Whole
  <2>2. origin # "prefixed" => SettledAtEnd' /\ CountedAtEnd'
    BY <1>1, <1>4, <1>5, <1>10, <2>1 DEF Whole, SettledAtEnd, CountedAtEnd, Ending
  <2>3. origin = "inbound" => InboundEnds'
    BY <1>1, <1>5, <1>10 DEF Whole, InboundEnds
  <2> QED BY <1>1, <1>3, <1>5, <1>10, <2>1, <2>2, <2>3, WholeHandler DEF Whole, Handled
<1> QED BY <1>1, <1>6, <1>7, <1>8, <1>9, <1>10, ServedStep DEF CallInv

\* The campaign's count, which no other handler of the same end can reach.
LEMMA CountKeeps == ASSUME CallInv, NEW e \in Events, Count(e) PROVE CallInv'
<1> USE EventsApart
<1>1. /\ UNCHANGED <<origin, call, terminal, money, room, dial, runtime, sweep, faults>>
      /\ job[e].pc = "count" /\ Existing' = Existing /\ Done(e)
      /\ counted' = counted + 1
      /\ contact' \in {contact} \cup Outcomes
  BY DEF Count, At, Existing, Mirror, Outcomes
<1>2. /\ job[e].row \in Existing /\ job[e].row \in Rows /\ e \in Ends
      /\ job[e].row \in terminal /\ contact # "none" /\ counted = 0 /\ job[e].row = 1
  BY <1>1 DEF CallInv, JobsKnown, Existing, EndsOnce, Ending, OriginsKnown, RowsKnown
<1>3. /\ job' \in [Events -> [pc : JobSteps, row : Rows \cup {0}, seen : BOOLEAN]]
      /\ job'[e] = Idle /\ job'[e].pc = "idle"
      /\ \A f \in Events : f # e => job'[f] = job[f]
      /\ hook' \in [RoomEvents -> {"none", "received", "processed", "failed"}]
      /\ \A f \in RoomEvents : f # e => hook'[f] = hook[f]
      /\ inbox' = inbox \ {e}
  BY <1>1, DoneEffect DEF CallInv
<1>4. contact' # "none" /\ counted' = 1
  BY <1>1, <1>2 DEF Outcomes
<1>5. CallType'
  BY <1>1, <1>3, <1>4 DEF CallInv, CallType, money
<1>6. /\ JobsKnown' /\ OriginsKnown' /\ RowsKnown' /\ DialersKnown' /\ NeverOpenTalking'
      /\ \A r \in Rows : Unserved(r)' => Unserved(r)
  <2>1. MovesMoney(e) /\ GoesOn(e)
    BY <1>1, <1>3 DEF MovesMoney, GoesOn, money
  <2>2. HandlerStep(e)
    BY <1>1, <1>2, <1>3, <1>4, <2>1 DEF HandlerStep, CallInv, RowsKnown
  <2> QED BY <1>5, <2>2, HandlerKeeps
<1>7. EndsOnce'
  <2>1. \A f \in Events : f # e => ~Ending(f)
    BY <1>1, <1>2 DEF CallInv, EndsOnce, Ending, JobsKnown, OriginsKnown, RowsKnown
  <2>2. \A f \in Events : ~Ending(f)'
    BY <1>3, <2>1 DEF Ending
  <2> QED BY <1>1, <1>2, <1>4, <2>2 DEF EndsOnce
<1>8. StaleKnown'
  BY <1>1, <1>2, <1>3, <1>4, StaleStep DEF CallInv, StaleKnown
<1>9. ASSUME Whole PROVE Whole'
  <2>1. 1 \in terminal'
    BY <1>1, <1>2
  <2>2. origin # "prefixed" => SettledAtEnd' /\ CountedAtEnd'
    BY <1>1, <1>3, <1>4, <1>9, <2>1 DEF Whole, SettledAtEnd, CountedAtEnd, money
  <2>3. origin = "inbound" => InboundEnds'
    BY <1>1, <1>3, <1>9 DEF Whole, InboundEnds
  <2>4. ~(origin = "campaign" /\ Undialed)
    BY <1>2 DEF CallInv, DialersKnown
  <2> QED BY <1>1, <1>2, <1>3, <1>9, <2>1, <2>2, <2>3, <2>4, WholeHandler DEF Whole, Handled
<1> QED BY <1>1, <1>5, <1>6, <1>7, <1>8, <1>9, ServedStep DEF CallInv

\* A dispatch that failed fails the call ...
LEMMA FailCallKeeps == ASSUME CallInv, NEW e \in Events, FailCall(e) PROVE CallInv'
<1> USE EventsApart
<1>1. /\ UNCHANGED <<origin, terminal, money, contact, counted, room, dial, runtime,
                     sweep, faults>>
      /\ job[e].pc = "fail" /\ Goto(e, "release") /\ "release" \in JobSteps
      /\ call' = Transition(job[e].row, "FAILED")
  BY DEF FailCall, At, JobSteps
<1>2. /\ job[e].row \in Existing /\ job[e].row \in Rows /\ e = "no_agent"
      /\ origin # "inbound"
  BY <1>1 DEF CallInv, JobsKnown, OriginsKnown, Existing
<1>3. /\ job' \in [Events -> [pc : JobSteps, row : Rows \cup {0}, seen : BOOLEAN]]
      /\ job'[e].pc = "release" /\ job'[e].row = job[e].row
      /\ \A f \in Events : f # e => job'[f] = job[f]
      /\ hook' = hook /\ inbox' = inbox
  BY <1>1, GotoEffect DEF CallInv
<1>4. /\ call' \in [Rows -> [status : RowStatuses, stale : BOOLEAN, answered : BOOLEAN]]
      /\ \A x \in Rows : call'[x].stale = call[x].stale
      /\ \A x \in Rows : call'[x].status = "none" => call'[x] = NoRow
      /\ Existing' = Existing
  <2>1. \A x \in Rows : call[x].status = "none" => call[x] = NoRow
    BY DEF CallInv, RowsKnown
  <2>2. "FAILED" \in Terminal
    BY DEF Terminal
  <2> QED BY <1>1, <1>2, <2>1, <2>2, TransitionEffect DEF CallInv
<1>5. CallType'
  BY <1>1, <1>3, <1>4 DEF CallInv, CallType, money
<1>6. /\ JobsKnown' /\ OriginsKnown' /\ RowsKnown' /\ DialersKnown' /\ NeverOpenTalking'
      /\ \A r \in Rows : Unserved(r)' => Unserved(r)
  <2>1. MovesMoney(e) /\ GoesOn(e)
    BY <1>1, <1>3 DEF MovesMoney, GoesOn, money
  <2>2. HandlerStep(e)
    BY <1>1, <1>3, <1>4, <2>1 DEF HandlerStep
  <2> QED BY <1>5, <2>2, HandlerKeeps
<1>7. EndsOnce'
  BY <1>1, <1>3, EndsFrame DEF CallInv, EndsOnce, Ending
<1>8. StaleKnown'
  <2>1. job'["finished"] = job["finished"]
    BY <1>2, <1>3
  <2> QED BY <1>1, <1>4, <2>1, StaleStep
          DEF CallInv, CallType, StaleKnown, JobsKnown, Existing
<1>9. ASSUME Whole PROVE Whole'
  <2>1. Handled => Handled'
    BY <1>1, <1>2, <1>3 DEF Handled
  <2>2. 1 \in terminal' /\ origin # "prefixed" => SettledAtEnd' /\ CountedAtEnd'
    BY <1>1, <1>3, <1>9 DEF Whole, SettledAtEnd, CountedAtEnd,
                                         Ending, money
  <2> QED BY <1>1, <1>2, <1>3, <1>4, <1>9, <2>1, <2>2, WholeHandler DEF Whole
<1> QED BY <1>1, <1>5, <1>6, <1>7, <1>8, <1>9, ServedStep DEF CallInv

\* ... and gives the hold back.
LEMMA ReleaseKeeps == ASSUME CallInv, NEW e \in Events, Release(e) PROVE CallInv'
<1> USE EventsApart
<1>1. /\ UNCHANGED <<origin, call, terminal, contact, counted, room, dial, runtime,
                     sweep, faults>>
      /\ job[e].pc = "release" /\ Existing' = Existing /\ Done(e)
      /\ Settle(job[e].row, 0, {e})
  BY DEF Release, At, Existing
<1>2. /\ job[e].row \in Existing /\ job[e].row \in Rows /\ e = "no_agent"
  BY <1>1 DEF CallInv, JobsKnown, Existing
<1>3. /\ balance' \in Int /\ stage' \in [Rows -> Account!Stages]
      /\ stage'[job[e].row] \in {"settled", "void", "stranded"}
      /\ stage[job[e].row] = "settled" => stage'[job[e].row] = "settled"
      /\ \A x \in Rows : x # job[e].row => stage'[x] = stage[x]
  BY <1>1, <1>2, SettleEffect DEF CallInv
<1>4. /\ job' \in [Events -> [pc : JobSteps, row : Rows \cup {0}, seen : BOOLEAN]]
      /\ job'[e] = Idle /\ job'[e].pc = "idle"
      /\ \A f \in Events : f # e => job'[f] = job[f]
      /\ hook' \in [RoomEvents -> {"none", "received", "processed", "failed"}]
      /\ \A f \in RoomEvents : f # e => hook'[f] = hook[f]
      /\ inbox' = inbox \ {e}
  BY <1>1, DoneEffect DEF CallInv
<1>5. CallType'
  BY <1>1, <1>3, <1>4 DEF CallInv, CallType
<1>6. /\ JobsKnown' /\ OriginsKnown' /\ RowsKnown' /\ DialersKnown' /\ NeverOpenTalking'
      /\ \A r \in Rows : Unserved(r)' => Unserved(r)
  <2>1. MovesMoney(e)
    BY <1>2, <1>3 DEF MovesMoney, CallInv, CallType
  <2>2. GoesOn(e)
    BY <1>4 DEF GoesOn
  <2>3. HandlerStep(e)
    BY <1>1, <1>4, <2>1, <2>2 DEF HandlerStep, CallInv, RowsKnown
  <2> QED BY <1>5, <2>3, HandlerKeeps
<1>7. EndsOnce'
  BY <1>1, <1>4, EndsFrame DEF CallInv, EndsOnce, Ending
<1>8. StaleKnown'
  BY <1>1, <1>2, <1>4, StaleFrame DEF CallInv
<1>9. ASSUME Whole PROVE Whole'
  <2>1. Handled => Handled'
    BY <1>1, <1>2, <1>4 DEF Handled
  <2>2. 1 \in terminal' /\ origin # "prefixed" => SettledAtEnd' /\ CountedAtEnd'
    <3>1. stage'[1] \in {"open", "held"} => stage[1] \in {"open", "held"}
      BY <1>2, <1>3, CallAssumption DEF CallInv, CallType
    <3> QED BY <1>1, <1>4, <1>9, <3>1 DEF Whole, SettledAtEnd, CountedAtEnd, Ending
  <2>3. origin = "inbound" => InboundEnds'
    BY <1>1, <1>2, <1>4, <1>9 DEF Whole, InboundEnds
  <2> QED BY <1>1, <1>2, <1>4, <1>9, <2>1, <2>2, <2>3, WholeHandler DEF Whole
<1> QED BY <1>1, <1>5, <1>6, <1>7, <1>8, <1>9, ServedStep DEF CallInv

\* A handler that dies or gives up, or takes an error for nothing, is one fault.
LEMMA FaultyHandlerKeeps ==
    ASSUME CallInv, NEW e \in Events, Swallow(e) \/ Crash(e) \/ Throw(e)
    PROVE  CallInv'
<1> USE EventsApart
<1>1. /\ UNCHANGED <<origin, call, terminal, balance, stage, contact, counted, room, dial,
                     runtime, sweep>>
      /\ Fault /\ Existing' = Existing
      /\ faults' \in 0..MaxFaults /\ faults' # faults
  BY CallAssumption DEF Swallow, Crash, Throw, Fault, Existing, CallInv, CallType, money
<1>2. /\ job' \in [Events -> [pc : JobSteps, row : Rows \cup {0}, seen : BOOLEAN]]
      /\ job[e].pc # "idle"
      /\ \/ job'[e] = Idle /\ job'[e].pc = "idle"
         \/ /\ job'[e].row = job[e].row /\ hook' = hook
            /\ \/ job[e].pc = "reserve" /\ job'[e].pc = "note"
               \/ job[e].pc = "complete" /\ job'[e].pc = "settle"
               \/ job[e].pc = "settle" /\ job'[e].pc = "count" /\ contact # "none"
               \/ job[e].pc = "fail" /\ job'[e].pc = "release"
      /\ \A f \in Events : f # e => job'[f] = job[f]
      /\ hook' \in [RoomEvents -> {"none", "received", "processed", "failed"}]
      /\ \A f \in RoomEvents : f # e => hook'[f] = hook[f]
      /\ inbox' \subseteq inbox
  <2>1. CASE Crash(e)
    BY <2>1 DEF Crash, CallInv, CallType, JobsKnown, Idle, JobSteps
  <2>2. CASE Throw(e)
    BY <2>2 DEF Throw, CallInv, CallType, JobsKnown, Idle, JobSteps
  <2>3. CASE Done(e) /\ job[e].pc # "idle"
    BY <2>3, DoneEffect DEF CallInv
  <2>4. {"note", "settle", "count", "release"} \subseteq JobSteps
    BY DEF JobSteps
  <2>5. CASE job[e].pc = "reserve" /\ Goto(e, "note")
    BY <2>4, <2>5, GotoEffect DEF CallInv, CallType
  <2>6. CASE job[e].pc = "complete" /\ Goto(e, "settle")
    BY <2>4, <2>6, GotoEffect DEF CallInv, CallType
  <2>7. CASE job[e].pc = "settle" /\ contact # "none" /\ Goto(e, "count")
    BY <2>4, <2>7, GotoEffect DEF CallInv, CallType
  <2>8. CASE job[e].pc = "fail" /\ Goto(e, "release")
    BY <2>4, <2>8, GotoEffect DEF CallInv, CallType
  <2> QED BY <2>1, <2>2, <2>3, <2>5, <2>6, <2>7, <2>8 DEF Swallow, At
<1>3. CallType'
  BY <1>1, <1>2 DEF CallInv, CallType, money
<1>4. /\ JobsKnown' /\ OriginsKnown' /\ RowsKnown' /\ DialersKnown' /\ NeverOpenTalking'
      /\ \A r \in Rows : Unserved(r)' => Unserved(r)
  <2>1. MovesMoney(e)
    BY <1>1 DEF MovesMoney, money
  <2>2. GoesOn(e)
    BY <1>2 DEF GoesOn
  <2>3. HandlerStep(e)
    BY <1>1, <1>2, <2>1, <2>2 DEF HandlerStep, CallInv, RowsKnown, money
  <2> QED BY <1>3, <2>3, HandlerKeeps
<1>5. EndsOnce'
  BY <1>1, <1>2, EndsFrame DEF CallInv, EndsOnce, Ending
<1>6. StaleKnown'
  BY <1>1, <1>2, StaleStep DEF CallInv, StaleKnown
<1> QED BY <1>1, <1>3, <1>4, <1>5, <1>6, ServedStep DEF CallInv

\* A delivery that is not taken up again.
LEMMA DedupeKeeps == ASSUME CallInv, NEW e \in Events, Dedupe(e) PROVE CallInv'
<1> USE EventsApart
<1>1. /\ UNCHANGED <<origin, call, terminal, money, contact, counted, room, hook,
                     job, dial, runtime, sweep>>
      /\ Existing' = Existing /\ e \in RoomEvents /\ inbox' = inbox \ {e}
      /\ UNCHANGED faults \/ Fault
      /\ UNCHANGED faults => hook[e] # "none"
      /\ faults' \in 0..MaxFaults
  BY CallAssumption DEF Dedupe, Existing, Fault, CallInv, CallType
<1>2. CallType'
  BY <1>1 DEF CallInv, CallType, money
<1>3. JobsKnown' /\ RowsKnown'
  BY <1>1 DEF CallInv, JobsKnown, RowsKnown, money
<1>4. OriginsKnown'
  BY <1>1, OriginsHandler DEF CallInv, money
<1>5. DialersKnown' /\ NeverOpenTalking' /\ StaleKnown'
  BY <1>1, DialersFrame, BilledFrame, StaleFrame DEF CallInv, money
<1>6. EndsOnce'
  BY <1>1, EndsFrame DEF CallInv, EndsOnce, Ending
<1>7. ASSUME Whole, UNCHANGED faults PROVE Whole'
  <2>1. Handled => Handled'
    BY <1>1, <1>7 DEF Handled
  <2>2. 1 \in terminal' /\ origin # "prefixed" => SettledAtEnd' /\ CountedAtEnd'
    BY <1>1, <1>7 DEF Whole, SettledAtEnd, CountedAtEnd,
                                         Ending, money
  <2>3. origin = "inbound" => InboundEnds'
    BY <1>1, <1>7 DEF Whole, InboundEnds
  <2> QED BY <1>1, <1>7, <2>1, <2>2, <2>3, WholeHandler DEF Whole
<1>8. \A r \in Rows : Unserved(r)' => Unserved(r)
  BY <1>1 DEF Unserved, money
<1> QED BY <1>1, <1>2, <1>3, <1>4, <1>5, <1>6, <1>7, <1>8, ServedStep DEF CallInv

\* A status that Plivo delivers again.
LEMMA RedeliverKeeps == ASSUME CallInv, NEW e \in Events, Redeliver(e) PROVE CallInv'
<1> USE EventsApart
<1>1. /\ UNCHANGED <<origin, call, terminal, money, contact, counted, room, hook,
                     job, dial, runtime, sweep>>
      /\ Existing' = Existing /\ e \in Statuses /\ inbox' = inbox \cup {e}
      /\ Fault /\ origin = "legacy"
      /\ faults' \in 0..MaxFaults /\ faults' # faults
  BY CallAssumption DEF Redeliver, Existing, Fault, CallInv, CallType
<1>2. CallType'
  BY <1>1 DEF CallInv, CallType, money
<1>3. JobsKnown' /\ RowsKnown'
  BY <1>1 DEF CallInv, JobsKnown, RowsKnown, money
<1>4. OriginsKnown'
  BY <1>1 DEF CallInv, OriginsKnown, money
<1>5. DialersKnown' /\ NeverOpenTalking' /\ StaleKnown'
  BY <1>1, DialersFrame, BilledFrame, StaleFrame DEF CallInv, money
<1>6. EndsOnce'
  BY <1>1, EndsFrame DEF CallInv, EndsOnce, Ending
<1>7. \A r \in Rows : Unserved(r)' => Unserved(r)
  BY <1>1 DEF Unserved, money
<1> QED BY <1>1, <1>2, <1>3, <1>4, <1>5, <1>6, <1>7, ServedStep DEF CallInv

\* A terminal Plivo status: the conditional write, then the steps of the end.
LEMMA PlivoStatusKeeps == ASSUME CallInv, NEW e \in Events, PlivoStatus(e) PROVE CallInv'
<1> USE EventsApart
<1>1. /\ UNCHANGED <<origin, terminal, money, contact, counted, room, dial, runtime,
                     sweep, faults>>
      /\ e \in Statuses /\ e \in inbox /\ e \in Terminal
      /\ call' = Transition(1, e) /\ Begin(e, "terminal", 1)
      /\ "terminal" \in JobSteps /\ 1 \in Rows
  BY CallAssumption DEF PlivoStatus, JobSteps
<1>2. origin = "legacy" /\ 1 \in Existing /\ job[e].pc = "idle"
  BY <1>1 DEF CallInv, OriginsKnown, PlivoStatus, Idle
<1>3. /\ job' \in [Events -> [pc : JobSteps, row : Rows \cup {0}, seen : BOOLEAN]]
      /\ job'[e].pc = "terminal" /\ job'[e].row = 1
      /\ \A f \in Events : f # e => job'[f] = job[f]
      /\ hook' \in [RoomEvents -> {"none", "received", "processed", "failed"}]
      /\ \A f \in RoomEvents : f # e => hook'[f] = hook[f]
      /\ e \notin RoomEvents /\ inbox' = inbox
  <2>1. PICK pc \in JobSteps, r \in Rows : pc = "terminal" /\ r = 1 /\ Begin(e, pc, r)
    BY <1>1
  <2>2. e \notin RoomEvents
    BY <1>1
  <2>3. CallType
    BY DEF CallInv
  <2>4. /\ job' \in [Events -> [pc : JobSteps, row : Rows \cup {0}, seen : BOOLEAN]]
        /\ job'[e].pc = pc /\ job'[e].row = r
        /\ \A f \in Events : f # e => job'[f] = job[f]
        /\ hook' \in [RoomEvents -> {"none", "received", "processed", "failed"}]
        /\ \A f \in RoomEvents : f # e => hook'[f] = hook[f]
        /\ inbox' = inbox
    <3> HIDE EventsApart
    <3> QED BY <2>1, <2>3, BeginEffect
  <2> QED BY <2>1, <2>2, <2>4
<1>4. /\ call' \in [Rows -> [status : RowStatuses, stale : BOOLEAN, answered : BOOLEAN]]
      /\ \A x \in Rows : call'[x].stale = call[x].stale
      /\ \A x \in Rows : call'[x].status = "none" => call'[x] = NoRow
      /\ Existing' = Existing
  <2>1. \A x \in Rows : call[x].status = "none" => call[x] = NoRow
    BY DEF CallInv, RowsKnown
  <2> QED BY <1>1, <2>1, TransitionEffect DEF CallInv
<1>5. CallType'
  BY <1>1, <1>3, <1>4 DEF CallInv, CallType, money
<1>6. JobsKnown'
  BY <1>1, <1>2, <1>3, <1>4 DEF CallInv, JobsKnown, Ends
<1>7. OriginsKnown'
  BY <1>1, <1>2, <1>3, <1>4, OriginsHandler DEF CallInv, money
<1>8. RowsKnown'
  BY <1>1, <1>2, <1>3, <1>4 DEF CallInv, RowsKnown, money
<1>9. DialersKnown' /\ NeverOpenTalking'
  BY <1>1, <1>4, DialersFrame, BilledFrame DEF CallInv, money
<1>10. EndsOnce'
  BY <1>1, <1>2, <1>3, EndsFrame DEF CallInv, EndsOnce, Ending
<1>11. StaleKnown'
  <2>1. job'["finished"] = job["finished"]
    BY <1>1, <1>3
  <2> QED BY <1>1, <1>4, <2>1, StaleStep
          DEF CallInv, CallType, StaleKnown, JobsKnown, Existing
<1>12. ASSUME Whole PROVE Whole'
  <2>1. 1 \in terminal' /\ origin # "prefixed" => SettledAtEnd' /\ CountedAtEnd'
    BY <1>1, <1>2, <1>3, <1>12 DEF Whole, SettledAtEnd, CountedAtEnd,
                                         Ending, money
  <2>2. room # "closed"
    BY <1>2 DEF CallInv, OriginsKnown
  <2> QED BY <1>1, <1>2, <1>3, <1>4, <1>12, <2>1, <2>2, WholeHandler DEF Whole
<1>13. \A r \in Rows : Unserved(r)' => Unserved(r)
  BY <1>1 DEF Unserved, money
<1> QED BY <1>1, <1>5, <1>6, <1>7, <1>8, <1>9, <1>10, <1>11, <1>12, <1>13, ServedStep
        DEF CallInv

\* A caller no row was found for gets one, and an agent if it can be had.
LEMMA CreateKeeps == ASSUME CallInv, NEW e \in Events, Create(e) PROVE CallInv'
<1> USE EventsApart
<1> DEFINE new == Min(Rows \ Existing)
<1>1. /\ UNCHANGED <<origin, terminal, money, contact, counted, inbox, hook, dial, sweep>>
      /\ job[e].pc = "create"
      /\ call' = [call EXCEPT ![new] = [NoRow EXCEPT !.status = "IN_PROGRESS"]]
      /\ job' = [job EXCEPT ![e] = [pc |-> "reserve", row |-> new, seen |-> FALSE]]
      /\ \/ /\ runtime' = [runtime EXCEPT ![new] = "dispatched"]
            /\ room' = "open" /\ UNCHANGED faults
         \/ Fault /\ UNCHANGED <<runtime, room>>
  BY DEF Create, At
<1>2. /\ e = "caller" /\ Existing # Rows /\ origin \in {"inbound", "prefixed"}
      /\ room # "none" /\ contact = "none"
  BY <1>1 DEF CallInv, JobsKnown, RowsKnown, OriginsKnown
<1>3. /\ new \in Rows /\ new \notin Existing /\ \A r \in Rows \ Existing : new <= r
      /\ call[new].status = "none" /\ stage[new] = "open" /\ runtime[new] = "off"
      /\ new \notin terminal
  <2>1. Rows \ Existing \in SUBSET Nat /\ Rows \ Existing # {}
    BY <1>2, CallAssumption DEF Existing
  <2>2. new \in Rows \ Existing /\ \A r \in Rows \ Existing : new <= r
    BY <2>1, MinIsLeast
  <2>3. call[new] = NoRow
    BY <2>2 DEF Existing
  <2> HIDE DEF new
  <2> QED BY <2>2, <2>3 DEF CallInv, RowsKnown, NoRow
<1> HIDE DEF new
<1>4. /\ call' \in [Rows -> [status : RowStatuses, stale : BOOLEAN, answered : BOOLEAN]]
      /\ call'[new].status = "IN_PROGRESS" /\ ~call'[new].stale
      /\ \A r \in Rows : r # new => call'[r] = call[r]
  <2>1. [NoRow EXCEPT !.status = "IN_PROGRESS"] \in
            [status : RowStatuses, stale : BOOLEAN, answered : BOOLEAN]
    BY DEF NoRow, RowStatuses
  <2>2. [NoRow EXCEPT !.status = "IN_PROGRESS"].status = "IN_PROGRESS"
    BY DEF NoRow
  <2>3. ~[NoRow EXCEPT !.status = "IN_PROGRESS"].stale
    BY DEF NoRow
  <2> QED BY <1>1, <1>3, <2>1, <2>2, <2>3 DEF CallInv, CallType
<1>5. Existing' = Existing \cup {new}
  <2>1. call'[new] # NoRow
    BY <1>4 DEF NoRow
  <2> QED BY <1>3, <1>4, <2>1 DEF Existing
<1>6. /\ job' \in [Events -> [pc : JobSteps, row : Rows \cup {0}, seen : BOOLEAN]]
      /\ job'[e].pc = "reserve" /\ job'[e].row = new
      /\ \A f \in Events : f # e => job'[f] = job[f]
  BY <1>1, <1>3 DEF CallInv, CallType, JobSteps
<1>7. /\ runtime' \in [Rows -> AgentSteps] /\ room' \in {"open", "closed"}
      /\ \A r \in Rows : r # new => runtime'[r] = runtime[r]
      /\ runtime'[new] \in {"off", "dispatched"}
      /\ UNCHANGED faults => room' = "open"
  BY <1>1, <1>2, <1>3 DEF CallInv, CallType, AgentSteps, Fault
<1>8. (UNCHANGED faults \/ Fault) /\ faults' \in 0..MaxFaults
  BY <1>1, CallAssumption DEF Fault, CallInv, CallType
<1>9. CallType'
  BY <1>1, <1>4, <1>6, <1>7, <1>8 DEF CallInv, CallType, money
<1>10. JobsKnown'
  BY <1>1, <1>2, <1>5, <1>6 DEF CallInv, JobsKnown, Ends
<1>11. OriginsKnown'
  <2>1. origin' \notin {"legacy", "campaign"} /\ contact' = "none"
    BY <1>1, <1>2
  <2>2. inbox' \subseteq RoomEvents /\ \A f \in Statuses : job'[f].pc = "idle"
    BY <1>1, <1>2, <1>6 DEF CallInv, OriginsKnown
  <2>3. origin' = "inbound" => job'["no_agent"].pc = "idle"
    BY <1>1, <1>2, <1>6 DEF CallInv, OriginsKnown
  <2>4. \A q \in Requests : dial'[q] = "idle"
    BY <1>1, <1>2 DEF CallInv, OriginsKnown, Dialed
  <2> QED BY <2>1, <2>2, <2>3, <2>4 DEF OriginsKnown
<1>12. RowsKnown'
  BY <1>1, <1>2, <1>3, <1>4, <1>5, <1>7 DEF CallInv, RowsKnown, money
<1>13. DialersKnown'
  <2>1. \A q \in Requests : dial'[q] = "idle"
    BY <1>1, <1>2 DEF CallInv, OriginsKnown, Dialed
  <2> QED BY <1>1, <1>2, <2>1 DEF DialersKnown, Called, Dialed
<1>14. EndsOnce'
  BY <1>1, <1>6, EndsFrame DEF CallInv, EndsOnce, Ending
<1>15. StaleKnown'
  BY <1>1, <1>2, <1>3, <1>4, <1>6 DEF CallInv, CallType, StaleKnown, JobsKnown, Existing
<1>16. NeverOpenTalking'
  BY <1>1, <1>3, <1>7 DEF CallInv, NeverOpenTalking, money
<1>17. \A r \in Rows : Unserved(r)' => Unserved(r)
  BY <1>1, <1>3, <1>7 DEF Unserved, money
<1>18. ASSUME Whole, UNCHANGED faults PROVE Whole'
  <2>1. origin # "prefixed" => new = 1 /\ Existing' = {1} /\ 1 \notin terminal'
    <3>1. origin # "prefixed" => Existing = {}
      BY <1>1, <1>2, <1>18 DEF Whole
    <3>2. origin # "prefixed" => new <= 1
      BY <1>3, <3>1, CallAssumption
    <3> QED BY <1>1, <1>3, <1>5, <3>1, <3>2, CallAssumption
  <2>2. origin = "inbound" => InboundEnds'
    BY <1>2, <1>4, <2>1 DEF InboundEnds
  <2>3. \A q \in Requests : dial'[q] = "idle"
    BY <1>1, <1>2 DEF CallInv, OriginsKnown, Dialed
  <2>4. origin' = origin /\ room' = "open" /\ job'["caller"].pc # "create"
    BY <1>1, <1>2, <1>6, <1>7, <1>18
  <2> QED BY <1>2, <2>1, <2>2, <2>3, <2>4 DEF Whole
<1> QED BY <1>1, <1>8, <1>9, <1>10, <1>11, <1>12, <1>13, <1>14, <1>15, <1>16, <1>17, <1>18,
           ServedStep DEF CallInv

-----------------------------------------------------------------------------
(* The steps of the dialers. *)

\* What a dialer's step may do: it goes on with the row it made, makes the one row
\* there is, or gives up; it opens the room only on its dispatch.
DialerStep(q, pc) ==
    /\ origin \in Dialed
    /\ UNCHANGED <<origin, terminal, balance, stage, counted, hook, job, sweep>>
    /\ dial' = [dial EXCEPT ![q] = pc] /\ pc # "idle"
    /\ dial[q] \notin {"replayed", "done", "dead"}
    /\ pc \in {"ring", "accepted"} => origin \in {"web", "campaign"}
    /\ pc \in {"stamp", "retry"} => origin = "campaign"
    /\ pc \in {"create", "replayed"} => origin = "web"
    /\ UNCHANGED faults \/ Fault
    /\ pc = "dead" => Fault
    /\ \/ dial[q] \in Called /\ pc # "dispatch" /\ Existing' = Existing
       \/ pc \notin Called /\ Existing' = Existing
       \/ Existing = {} /\ Existing' = {1}
    /\ dial[q] = "idle" /\ origin # "web" => Undialed
    /\ \/ UNCHANGED <<room, runtime, inbox>>
       \/ UNCHANGED <<room, runtime>> /\ room = "open" /\ inbox' = inbox \cup {"caller"}
       \/ /\ dial[q] = "dispatch" /\ room' = "open" /\ pc \in {"ring", "done"}
          /\ runtime' = [runtime EXCEPT ![1] = "dispatched"]
          /\ inbox \subseteq inbox' /\ inbox' \subseteq inbox \cup {"started", "caller"}
    /\ UNCHANGED faults /\ pc \in Called \ {"dispatch"} =>
          room' = "open" \/ dial[q] \in Called \ {"dispatch"}
    /\ \A r \in Rows : call'[r].status = "none" => call'[r] = NoRow
    /\ \A r \in Rows : call'[r].stale = call[r].stale
    /\ (contact' = "none") = (contact = "none")

\* A dialer's step keeps the invariant.
LEMMA DialerKeeps ==
    ASSUME CallInv, CallType', NEW q \in Requests, NEW pc \in DialSteps, DialerStep(q, pc)
    PROVE  CallInv'
<1> USE EventsApart
<1>1. /\ dial'[q] = pc /\ \A p \in Requests : p # q => dial'[p] = dial[p]
      /\ origin' = origin /\ origin \in Dialed /\ Existing \subseteq Existing' /\ 1 \in Rows
      /\ Existing \subseteq {1}
  BY CallAssumption DEF DialerStep, CallInv, CallType, RowsKnown, Dialed
<1>2. JobsKnown'
  <2>1. UNCHANGED <<job, hook>>
    BY DEF DialerStep
  <2> QED BY <1>1, <2>1 DEF CallInv, JobsKnown, Dialed
<1>3. OriginsKnown'
  <2>1. contact' # "none" <=> origin' \in {"campaign", "legacy"}
    BY <1>1 DEF DialerStep, CallInv, OriginsKnown
  <2>2. origin' \notin {"legacy", "inbound"}
    BY <1>1 DEF Dialed
  <2>3. inbox' \subseteq RoomEvents /\ \A f \in Statuses : job'[f].pc = "idle"
    BY <1>1, <2>2 DEF DialerStep, CallInv, OriginsKnown
  <2>4. \A p \in Requests :
          /\ dial'[p] # "idle" => origin' \in Dialed
          /\ dial'[p] \in {"ring", "accepted"} => origin' \in {"web", "campaign"}
          /\ dial'[p] \in {"stamp", "retry"} => origin' = "campaign"
          /\ dial'[p] \in {"create", "replayed"} => origin' = "web"
    BY <1>1 DEF DialerStep, CallInv, OriginsKnown
  <2> QED BY <2>1, <2>2, <2>3, <2>4 DEF OriginsKnown
<1>4. dial[q] = "dispatch" => 1 \in Existing /\ room = "none"
  BY DEF CallInv, DialersKnown, Called
<1>5. RowsKnown'
  <2>1. \A r \in Rows :
          /\ call'[r].status = "none" => call'[r] = NoRow
          /\ stage'[r] # "open" \/ runtime'[r] # "off" \/ r \in terminal' => r \in Existing'
    <3>1. /\ UNCHANGED <<stage, terminal>>
          /\ \A r \in Rows : call'[r].status = "none" => call'[r] = NoRow
      BY DEF DialerStep
    <3>2. \A r \in Rows : runtime'[r] # "off" => runtime[r] # "off" \/ r \in Existing
      BY <1>4 DEF DialerStep, CallInv, CallType
    <3> QED BY <1>1, <3>1, <3>2 DEF CallInv, RowsKnown
  <2>2. Existing' \subseteq {1}
    BY <1>1 DEF DialerStep
  <2>3. room' = "none" => UNCHANGED <<room, runtime, inbox>>
    BY DEF DialerStep
  <2>4. room' = "none" =>
          /\ \A r \in Rows : runtime'[r] = "off" /\ stage'[r] = "open" /\ r \notin terminal'
          /\ inbox' = {}
          /\ \A e \in Events : job'[e].pc = "idle"
    BY <1>1, <2>3 DEF DialerStep, CallInv, RowsKnown, Dialed
  <2>5. origin' \notin {"inbound", "prefixed"}
    BY <1>1 DEF Dialed
  <2> QED BY <2>1, <2>2, <2>4, <2>5 DEF RowsKnown
<1>6. DialersKnown'
  <2>1. \A p \in Requests : dial'[p] \in Called => 1 \in Existing'
    BY <1>1 DEF DialerStep, CallInv, DialersKnown, Called
  <2>2. \A p, o \in Requests : dial'[p] \in Called /\ dial'[o] \in Called => p = o
    BY <1>1 DEF DialerStep, CallInv, DialersKnown, Called
  <2>3. \A p, o \in Requests :
           origin' # "web" /\ dial'[p] # "idle" /\ dial'[o] # "idle" => p = o
    BY <1>1 DEF DialerStep, CallInv, DialersKnown, Undialed
  <2>4. \A p \in Requests : dial'[p] = "dispatch" => room' = "none"
    <3> SUFFICES ASSUME NEW p \in Requests, dial'[p] = "dispatch" PROVE room' = "none"
      OBVIOUS
    <3>1. CASE p = q
      BY <1>1, <3>1 DEF DialerStep, CallInv, DialersKnown, Called
    <3>2. CASE p # q
      <4>1. dial[p] = "dispatch" /\ room = "none" /\ dial[q] # "dispatch"
        BY <1>1, <3>2 DEF CallInv, DialersKnown, Called
      <4> QED BY <4>1 DEF DialerStep
    <3> QED BY <3>1, <3>2
  <2>5. Existing' = {} => room' = "none"
    BY <1>1, <1>4 DEF DialerStep, CallInv, DialersKnown
  <2>6. origin' \in {"campaign", "test"} => ~Undialed'
    BY <1>1 DEF DialerStep, Undialed
  <2> QED BY <2>1, <2>2, <2>3, <2>4, <2>5, <2>6 DEF DialersKnown
<1>7. EndsOnce'
  BY EndsFrame DEF DialerStep, CallInv, EndsOnce, Ending
<1>8. StaleKnown'
  <2>1. Dialled => Dialled'
    BY <1>1 DEF DialerStep, Dialled
  <2>2. job["finished"].pc \in {"terminal", "complete"} => job["finished"].row \in Rows
    BY DEF CallInv, JobsKnown, Existing
  <2> QED BY <1>1, <2>1, <2>2 DEF DialerStep, CallInv, StaleKnown
<1>9. /\ NeverOpenTalking'
      /\ \A r \in Rows : Unserved(r)' => Unserved(r)
  BY DEF DialerStep, CallInv, CallType, NeverOpenTalking, Unserved
<1>10. ASSUME Whole, UNCHANGED faults PROVE Whole'
  <2>1. room' = "closed" /\ Existing' # {} => Handled'
    <3>1. room' = "closed" => room = "closed" /\ inbox \subseteq inbox'
      BY DEF DialerStep
    <3>2. room = "closed" => Existing # {}
      BY <1>1 DEF CallInv, DialersKnown
    <3> QED BY <1>1, <1>10, <3>1, <3>2 DEF DialerStep, Whole, Handled, Dialed
  <2>2. 1 \in terminal' => SettledAtEnd' /\ CountedAtEnd'
    BY <1>1, <1>10 DEF DialerStep, Whole, SettledAtEnd, CountedAtEnd, Ending, Dialed
  <2>3. \A p \in Requests : dial'[p] # "dead"
    BY <1>1, <1>10 DEF DialerStep, Whole, Fault, CallInv, CallType
  <2>4. origin' = "campaign" =>
          \A p \in Requests : dial'[p] \in Called \ {"dispatch"} => room' # "none"
    BY <1>1, <1>10 DEF DialerStep, Whole
  <2>5. Existing' \subseteq {1} /\ ~Undialed'
    BY <1>1 DEF DialerStep, Undialed
  <2> QED BY <1>1, <2>1, <2>2, <2>3, <2>4, <2>5 DEF Whole, Dialed
<1> QED BY <1>2, <1>3, <1>5, <1>6, <1>7, <1>8, <1>9, <1>10, ServedStep DEF CallInv, DialerStep

\* Every step of a dial that does not fail.
LEMMA DialKeeps == ASSUME CallInv, NEW q \in Requests, Dial(q) PROVE CallInv'
<1>1. /\ \A r \in Rows : call[r].status = "none" => call[r] = NoRow
      /\ dial[q] \in Called => 1 \in Existing
      /\ 1 \in Rows
  BY CallAssumption DEF CallInv, RowsKnown, DialersKnown
<1> USE DEF DialTo, undialed, money
<1>2. CASE CheckKey(q)
  <2>1. PICK pc \in {"create", "replayed"} : dial' = [dial EXCEPT ![q] = pc]
    BY <1>2 DEF CheckKey
  <2>2. CallType' /\ Existing' = Existing
    BY <1>2, <2>1 DEF CheckKey, CallInv, CallType, DialSteps, Existing
  <2>3. DialerStep(q, pc)
    BY <1>1, <1>2, <2>1, <2>2 DEF CheckKey, DialerStep, Dialed, Called
  <2> QED BY <2>1, <2>2, <2>3, DialerKeeps DEF DialSteps
<1>3. ASSUME Existing = {}, UNCHANGED <<undialed, contact, room, inbox, runtime, faults>>,
             origin \in Dialed, dial[q] \in {"idle", "create"}, DialTo(q, "dispatch"),
             dial[q] = "idle" => Undialed, NEW s \in {"QUEUED", "DIALING"},
             call' = [call EXCEPT ![1] = [NoRow EXCEPT !.status = s]]
      PROVE  CallInv'
  <2>1. \A r \in Rows : call[r] = NoRow
    BY <1>3 DEF Existing
  <2>2. /\ [NoRow EXCEPT !.status = s] \in
              [status : RowStatuses, stale : BOOLEAN, answered : BOOLEAN]
        /\ [NoRow EXCEPT !.status = s].status = s
        /\ [NoRow EXCEPT !.status = s].stale = NoRow.stale
    BY DEF NoRow, RowStatuses
  <2>3. /\ call' \in [Rows -> [status : RowStatuses, stale : BOOLEAN, answered : BOOLEAN]]
        /\ call'[1].status = s /\ call'[1].stale = call[1].stale
        /\ \A r \in Rows : r # 1 => call'[r] = call[r]
    BY <1>1, <1>3, <2>1, <2>2 DEF CallInv, CallType
  <2>4. Existing' = {1}
    <3>1. call'[1] # NoRow
      BY <2>3 DEF NoRow
    <3> QED BY <1>1, <2>1, <2>3, <3>1 DEF Existing
  <2>5. CallType'
    BY <1>3, <2>3 DEF CallInv, CallType, DialSteps
  <2>6. DialerStep(q, "dispatch")
    BY <1>1, <1>3, <2>1, <2>3, <2>4 DEF DialerStep, Called
  <2> QED BY <2>5, <2>6, DialerKeeps DEF DialSteps
<1>4. CASE CreateCall(q)
  <2>1. CASE Existing = {} /\ call' = Queued /\ DialTo(q, "dispatch")
    BY <1>3, <1>4, <2>1 DEF CreateCall, Queued, Dialed
  <2>2. CASE UNCHANGED call /\ DialTo(q, "replayed")
    <3>1. CallType' /\ Existing' = Existing
      BY <1>4, <2>2 DEF CreateCall, CallInv, CallType, DialSteps, Existing
    <3>2. DialerStep(q, "replayed")
      BY <1>1, <1>4, <2>2, <3>1 DEF CreateCall, DialerStep, Dialed, Called
    <3> QED BY <3>1, <3>2, DialerKeeps DEF DialSteps
  <2> QED BY <1>4, <2>1, <2>2 DEF CreateCall
<1>5. CASE MintCall(q) \/ CreateTest(q)
  <2>1. Existing = {} /\ dial[q] = "idle"
    BY <1>5 DEF MintCall, CreateTest, CallInv, DialersKnown, Undialed
  <2>2. \E s \in {"QUEUED", "DIALING"} :
           call' = [call EXCEPT ![1] = [NoRow EXCEPT !.status = s]]
    BY <1>5 DEF MintCall, CreateTest, Queued
  <2> QED BY <1>3, <1>5, <2>1, <2>2 DEF MintCall, CreateTest, Dialed
<1>6. CASE Ring(q)
  <2>1. PICK pc \in {"ring", "done"} :
          /\ dial' = [dial EXCEPT ![q] = pc]
          /\ pc = (IF origin = "test" THEN "done" ELSE "ring")
    BY <1>6 DEF Ring
  <2>2. inbox \subseteq inbox' /\ inbox' \subseteq inbox \cup {"started", "caller"}
    BY <1>6 DEF Ring
  <2>3. CallType' /\ Existing' = Existing
    <3>1. inbox' \in SUBSET Events
      BY <2>2, EventsApart DEF CallInv, CallType
    <3> QED BY <1>1, <1>6, <2>1, <3>1 DEF Ring, CallInv, CallType, DialSteps, AgentSteps,
                                          Existing
  <2>4. origin \in Dialed
    BY <1>6 DEF Ring, CallInv, OriginsKnown
  <2>5. DialerStep(q, pc)
    BY <1>1, <1>6, <2>1, <2>2, <2>3, <2>4 DEF Ring, DialerStep, Dialed, Called
  <2> QED BY <2>1, <2>3, <2>5, DialerKeeps DEF DialSteps
<1>7. CASE Answer(q)
  <2>1. CallType' /\ Existing' = Existing
    BY <1>7, EventsApart DEF Answer, CallInv, CallType, DialSteps, Existing
  <2>2. DialerStep(q, "accepted")
    BY <1>1, <1>7, <2>1 DEF Answer, DialerStep, Dialed, Called, CallInv, OriginsKnown
  <2> QED BY <2>1, <2>2, DialerKeeps DEF DialSteps
<1>8. ASSUME dial[q] \in {"accepted", "failed"},
             UNCHANGED <<undialed, contact, room, inbox, runtime, faults>>,
             NEW pc \in {"done", "stamp", "retry"}, DialTo(q, pc),
             pc # "done" => origin = "campaign",
             call' \in [Rows -> [status : RowStatuses, stale : BOOLEAN, answered : BOOLEAN]],
             \A r \in Rows : call'[r].stale = call[r].stale,
             \A r \in Rows : call'[r].status = "none" => call'[r] = NoRow,
             Existing' = Existing
      PROVE  CallInv'
  <2>1. CallType'
    BY <1>8 DEF CallInv, CallType, DialSteps
  <2>2. DialerStep(q, pc)
    BY <1>1, <1>8 DEF DialerStep, Dialed, Called, CallInv, OriginsKnown
  <2> QED BY <2>1, <2>2, DialerKeeps DEF DialSteps
<1>9. ASSUME NEW s \in RowStatuses \ {"none"}, NEW stale \in BOOLEAN, 1 \in Existing,
             call' = [call EXCEPT ![1].status = s, ![1].stale = stale], stale = call[1].stale
      PROVE  /\ call' \in [Rows -> [status : RowStatuses, stale : BOOLEAN, answered : BOOLEAN]]
             /\ \A r \in Rows : call'[r].stale = call[r].stale
             /\ \A r \in Rows : call'[r].status = "none" => call'[r] = NoRow
             /\ Existing' = Existing
  <2>1. /\ call' \in [Rows -> [status : RowStatuses, stale : BOOLEAN, answered : BOOLEAN]]
        /\ call'[1].status = s /\ call'[1].stale = stale
        /\ \A r \in Rows : r # 1 => call'[r] = call[r]
    <3>1. call \in [Rows -> [status : RowStatuses, stale : BOOLEAN, answered : BOOLEAN]]
      BY DEF CallInv, CallType
    <3> QED BY <1>1, <1>9, <3>1
  <2>2. Existing' = Existing
    <3>1. call'[1] # NoRow
      BY <2>1 DEF NoRow
    <3>2. call[1] # NoRow
      BY <1>9 DEF Existing
    <3> QED BY <2>1, <3>1, <3>2 DEF Existing
  <2> QED BY <1>1, <1>9, <2>1, <2>2
<1>10. CASE Accept(q)
  <2>1. CASE origin = "web"
    <3>1. call' = Transition(1, "RINGING") /\ DialTo(q, "done")
      BY <1>10, <2>1 DEF Accept
    <3> QED BY <1>1, <1>8, <1>10, <2>1, <3>1, TransitionEffect DEF Accept, CallInv
  <2>2. CASE origin # "web"
    <3>1. /\ call' = [call EXCEPT ![1].status = "DIALING", ![1].stale = FALSE]
          /\ DialTo(q, "stamp") /\ dial[q] = "accepted"
      BY <1>10, <2>2 DEF Accept
    <3>2. origin = "campaign" /\ 1 \in Existing
      BY <1>1, <2>2, <3>1 DEF CallInv, OriginsKnown, Called
    <3>3. ~call[1].stale
      <4>1. ~Dialled
        BY <3>1, <3>2 DEF CallInv, DialersKnown, Dialled
      <4> QED BY <1>1, <4>1 DEF CallInv, StaleKnown
    <3>4. call[1].stale = FALSE
      BY <1>1, <3>3 DEF CallInv, CallType
    <3>5. "DIALING" \in RowStatuses \ {"none"}
      BY DEF RowStatuses
    <3> QED BY <1>8, <1>9, <1>10, <3>1, <3>2, <3>4, <3>5 DEF Accept
  <2> QED BY <2>1, <2>2
<1>11. CASE FailDial(q)
  <2>1. CASE origin # "campaign"
    <3>1. call' = Transition(1, "FAILED") /\ DialTo(q, "done") /\ "FAILED" \in Terminal
      BY <1>11, <2>1 DEF FailDial, Terminal
    <3> QED BY <1>1, <1>8, <1>11, <2>1, <3>1, TransitionEffect DEF FailDial, CallInv
  <2>2. CASE origin = "campaign"
    <3>1. /\ call' = [call EXCEPT ![1].status = "FAILED"]
          /\ DialTo(q, "retry") /\ dial[q] = "failed"
      BY <1>11, <2>2 DEF FailDial
    <3>2. 1 \in Existing /\ "FAILED" \in RowStatuses \ {"none"} /\ call[1].stale \in BOOLEAN
      BY <1>1, <3>1 DEF Called, RowStatuses, Terminal, CallInv, CallType
    <3>3. call' = [call EXCEPT ![1].status = "FAILED", ![1].stale = call[1].stale]
      BY <1>1, <3>1 DEF CallInv, CallType
    <3> QED BY <1>8, <1>9, <1>11, <2>2, <3>1, <3>2, <3>3 DEF FailDial
  <2> QED BY <2>1, <2>2
<1>12. CASE StampContact(q)
  <2>1. /\ CallType' /\ Existing' = Existing /\ origin = "campaign"
        /\ contact # "none" /\ contact' # "none" /\ dial[q] \in {"stamp", "retry"}
    BY <1>12 DEF StampContact, CallInv, CallType, DialSteps, OriginsKnown, Existing, Outcomes
  <2>2. DialerStep(q, "done")
    BY <1>1, <1>12, <2>1 DEF StampContact, DialerStep, Dialed, Called
  <2> QED BY <2>1, <2>2, DialerKeeps DEF DialSteps
<1> QED BY <1>2, <1>4, <1>5, <1>6, <1>7, <1>10, <1>11, <1>12 DEF Dial

\* A dial that fails or whose process dies.
LEMMA DialEndsKeep ==
    ASSUME CallInv, NEW q \in Requests, DialFails(q) \/ DialCrash(q)
    PROVE  CallInv'
<1>1. PICK pc \in {"failed", "dead"} :
        /\ dial' = [dial EXCEPT ![q] = pc]
        /\ pc = "dead" => Fault
        /\ pc = "failed" => \/ dial[q] = "ring" /\ UNCHANGED faults
                            \/ dial[q] = "dispatch" /\ Fault
  <2>1. CASE DialFails(q)
    <3>1. /\ dial' = [dial EXCEPT ![q] = "failed"]
          /\ \/ dial[q] = "ring" /\ UNCHANGED faults
             \/ dial[q] = "dispatch" /\ Fault
      BY <2>1 DEF DialFails, DialTo
    <3> QED BY <3>1
  <2>2. CASE DialCrash(q)
    <3>1. dial' = [dial EXCEPT ![q] = "dead"] /\ Fault
      BY <2>2 DEF DialCrash, DialTo
    <3> QED BY <3>1
  <2> QED BY <2>1, <2>2
<1>2. /\ UNCHANGED <<origin, terminal, balance, stage, counted, hook, job, sweep>>
      /\ UNCHANGED <<call, contact, room, inbox, runtime>>
      /\ UNCHANGED faults \/ Fault
      /\ dial[q] \notin {"idle", "replayed", "done", "dead"}
      /\ \A r \in Rows : call[r].status = "none" => call[r] = NoRow
  BY DEF DialFails, DialCrash, undialed, money, CallInv, RowsKnown
<1>3. faults' \in 0..MaxFaults /\ Existing' = Existing
  BY <1>2, CallAssumption DEF CallInv, CallType, Fault, Existing
<1>4. CallType'
  BY <1>1, <1>2, <1>3 DEF CallInv, CallType, DialSteps
<1>5. origin \in Dialed
  BY <1>2 DEF CallInv, OriginsKnown
<1>6. /\ dial[q] \in Called \/ pc \notin Called
      /\ pc = "failed" /\ UNCHANGED faults => dial[q] \in Called \ {"dispatch"}
  BY <1>1, <1>3 DEF Called, Fault, CallInv, CallType
<1>7. DialerStep(q, pc)
  BY <1>1, <1>2, <1>3, <1>5, <1>6 DEF DialerStep, Called
<1> QED BY <1>1, <1>4, <1>7, DialerKeeps DEF DialSteps

-----------------------------------------------------------------------------
(* The steps of the room and of the agents in it. *)

\* What such a step may do: the room opens for a caller, stays, or closes with an end
\* to report; agents that were dispatched move on, and hold or settle what is not settled.
RoomStep ==
    \/ UNCHANGED <<room, hook>> /\ room # "none"
    \/ room = "none" /\ room' = "open" /\ UNCHANGED hook /\ origin \in {"inbound", "prefixed"}
    \/ /\ room = "open" /\ room' = "closed" /\ "finished" \in inbox' /\ job["finished"] = Idle
       /\ hook' = [hook EXCEPT !["finished"] = "none"]

AgentStep ==
    /\ UNCHANGED unroomed /\ origin # "legacy"
    /\ RoomStep /\ inbox \subseteq inbox' /\ inbox' \subseteq RoomEvents
    /\ balance' \in Int /\ stage' \in [Rows -> Account!Stages]
    /\ runtime' \in [Rows -> AgentSteps]
    /\ \A r \in Rows :
          /\ runtime'[r] # "off" => runtime[r] # "off"
          /\ \/ stage'[r] = stage[r]
             \/ /\ runtime[r] # "off" /\ stage'[r] # "open" /\ stage[r] # "settled"
                /\ stage[r] \notin {"open", "held"} => stage'[r] \notin {"open", "held"}
          /\ runtime'[r] = "talking" /\ origin # "test" =>
                runtime[r] = "talking" \/ stage'[r] # "open"
    /\ \/ UNCHANGED faults /\ \A r \in Rows : Unserved(r)' /\ origin # "test" => Unserved(r)
       \/ Fault

\* A step of the room or of an agent keeps the invariant.
LEMMA AgentKeeps == ASSUME CallInv, AgentStep PROVE CallInv'
<1> USE EventsApart
<1>1. /\ UNCHANGED unroomed /\ origin # "legacy" /\ room' # "none" /\ inbox \subseteq inbox'
      /\ Existing' = Existing /\ faults' \in 0..MaxFaults
      /\ room' \in {"none", "open", "closed"}
      /\ room = "none" => origin \in {"inbound", "prefixed"}
      /\ hook' \in [RoomEvents -> {"none", "received", "processed", "failed"}]
      /\ \A e \in RoomEvents : hook'[e] = hook[e] \/ job[e].pc = "idle"
  <2>1. UNCHANGED unroomed /\ origin # "legacy" /\ inbox \subseteq inbox'
    BY DEF AgentStep
  <2>2. /\ room' # "none" /\ room' \in {"none", "open", "closed"}
        /\ room = "none" => origin \in {"inbound", "prefixed"}
    BY DEF AgentStep, RoomStep, CallInv, CallType
  <2>3. Existing' = Existing
    BY <2>1 DEF Existing, unroomed
  <2>4. faults' \in 0..MaxFaults
    BY CallAssumption DEF AgentStep, Fault, CallInv, CallType
  <2>5. /\ hook' \in [RoomEvents -> {"none", "received", "processed", "failed"}]
        /\ \A e \in RoomEvents : hook'[e] = hook[e] \/ job[e].pc = "idle"
    BY DEF AgentStep, RoomStep, CallInv, CallType, Idle
  <2> QED BY <2>1, <2>2, <2>3, <2>4, <2>5
<1>2. CallType'
  BY <1>1 DEF AgentStep, unroomed, CallInv, CallType
<1>3. JobsKnown'
  BY <1>1 DEF unroomed, CallInv, JobsKnown
<1>4. OriginsKnown'
  BY <1>1 DEF AgentStep, unroomed, CallInv, OriginsKnown
<1>5. RowsKnown'
  BY <1>1 DEF AgentStep, unroomed, CallInv, RowsKnown
<1>6. DialersKnown'
  <2>1. \A q \in Requests : dial[q] = "dispatch" => room # "none" /\ room = "none"
    BY <1>1 DEF CallInv, DialersKnown, OriginsKnown, Dialed
  <2>2. ~(origin \in Dialed /\ Existing = {})
    BY <1>1 DEF CallInv, DialersKnown, Dialed
  <2> QED BY <1>1, <2>1, <2>2 DEF unroomed, CallInv, DialersKnown, Undialed
<1>7. EndsOnce'
  BY <1>1 DEF unroomed, CallInv, EndsOnce, Ending
<1>8. StaleKnown'
  BY <1>1, StaleFrame DEF unroomed, CallInv
<1>9. NeverOpenTalking'
  BY <1>1 DEF AgentStep, unroomed, CallInv, NeverOpenTalking
<1>10. ASSUME Whole PROVE Whole'
  <2>1. 1 \in terminal /\ origin # "prefixed" => SettledAtEnd' /\ CountedAtEnd'
    <3>1. stage'[1] \in {"open", "held"} => stage[1] \in {"open", "held"}
      BY CallAssumption DEF AgentStep
    <3> QED BY <1>1, <1>10, <3>1 DEF unroomed, Whole, SettledAtEnd, CountedAtEnd, Ending
  <2>2. origin # "prefixed" /\ room' = "closed" /\ Existing # {} => Handled'
    BY <1>1, <1>10 DEF AgentStep, RoomStep, unroomed, Whole, Handled, CallInv, CallType
  <2> QED BY <1>1, <1>10, <2>1, <2>2 DEF unroomed, Whole, InboundEnds, Undialed
<1>11. Served'
  <2>1. CASE UNCHANGED faults /\ \A r \in Rows : Unserved(r)' /\ origin # "test" => Unserved(r)
    BY <1>1, <1>10, <2>1, ServedStep DEF unroomed
  <2>2. CASE Fault
    <3>1. faults' > 0 /\ (Intact' => faults = 0)
      BY <2>2, CallAssumption DEF Fault, Intact, CallInv, CallType
    <3>2. Intact' => Whole
      BY <3>1 DEF CallInv, Served, Intact
    <3> QED BY <1>10, <3>1, <3>2 DEF Served
  <2> QED BY <2>1, <2>2 DEF AgentStep
<1> QED BY <1>2, <1>3, <1>4, <1>5, <1>6, <1>7, <1>8, <1>9, <1>11 DEF CallInv

\* A room that opens for its first caller, empties, or is closed by the tester.
LEMMA RoomKeeps == ASSUME CallInv, Arrive \/ Empties \/ EndTest PROVE CallInv'
<1>1. /\ UNCHANGED unroomed /\ UNCHANGED money /\ UNCHANGED runtime /\ UNCHANGED faults
      /\ UNCHANGED <<stage, balance>>
  BY DEF Arrive, Empties, EndTest, money
<1>2. origin # "legacy"
  BY DEF Arrive, Empties, EndTest, CallInv, OriginsKnown
<1>3. RoomStep /\ inbox \subseteq inbox' /\ inbox' \subseteq RoomEvents
  <2>1. inbox \subseteq RoomEvents
    BY <1>2 DEF CallInv, OriginsKnown
  <2> QED BY <2>1 DEF Arrive, Empties, EndTest, CloseRoom, RoomStep, RoomEvents
<1>4. AgentStep
  BY <1>1, <1>2, <1>3 DEF AgentStep, CallInv, CallType, Unserved
<1> QED BY <1>4, AgentKeeps

\* The steps of an agent that answers, is refused, serves its call, settles it or dies.
LEMMA AgentMoves ==
    ASSUME CallInv, CrossingsKnown, NEW r \in Rows, Agent(r) \/ AdmitLost(r) \/ AgentDies(r)
    PROVE  CallInv'
<1>1. /\ runtime[r] # "off" /\ origin # "legacy" /\ room # "none"
      /\ stage[r] \in {"open", "held", "settled"}
  <2>1. runtime[r] # "off" /\ runtime[r] # "gone"
    BY DEF Agent, Admit, NoAgent, Leave, Teardown, SettlePing, AdmitLost, AgentDies
  <2>2. origin # "legacy" /\ room # "none"
    BY <2>1 DEF CallInv, OriginsKnown, RowsKnown
  <2> QED BY <2>1, <2>2 DEF CrossingsKnown, CallInv, CallType, Account!Stages
<1>2. PICK pc \in AgentSteps :
        /\ runtime' = [runtime EXCEPT ![r] = pc] /\ pc # "off"
        /\ pc = "talking" => runtime[r] = "dispatched" /\ ReservePing(r)
        /\ pc = "done" => \/ Fault
                          \/ UNCHANGED faults /\ IF origin = "test" THEN UNCHANGED money
                                                                  ELSE Settle(r, Minute, {})
  <2>1. CASE Admit(r)
    BY <2>1 DEF Admit, RunTo, AgentSteps
  <2>2. CASE NoAgent(r)
    BY <2>2 DEF NoAgent, RunTo, AgentSteps
  <2>3. CASE Leave(r)
    BY <2>3 DEF Leave, RunTo, AgentSteps
  <2>4. CASE Teardown(r)
    BY <2>4 DEF Teardown, RunTo, AgentSteps
  <2>5. CASE SettlePing(r)
    BY <2>5 DEF SettlePing, RunTo, AgentSteps
  <2>6. CASE AdmitLost(r)
    BY <2>6 DEF AdmitLost, RunTo, AgentSteps
  <2>7. CASE AgentDies(r)
    BY <2>7 DEF AgentDies, RunTo, AgentSteps
  <2> QED BY <2>1, <2>2, <2>3, <2>4, <2>5, <2>6, <2>7 DEF Agent
<1>3. /\ UNCHANGED unroomed
      /\ UNCHANGED faults \/ Fault
      /\ ReservePing(r) \/ Settle(r, Minute, {}) \/ UNCHANGED money
  BY DEF Agent, Admit, NoAgent, Leave, Teardown, SettlePing, AdmitLost, AgentDies
<1>4. RoomStep /\ inbox \subseteq inbox' /\ inbox' \subseteq RoomEvents
  <2>1. inbox \subseteq RoomEvents
    BY <1>1 DEF CallInv, OriginsKnown
  <2> QED BY <1>1, <2>1 DEF Agent, Admit, NoAgent, Leave, Teardown, SettlePing, AdmitLost,
                 AgentDies, CloseRoom, RoomStep, RoomEvents
<1>5. /\ balance' \in Int /\ stage' \in [Rows -> Account!Stages]
      /\ \A x \in Rows : stage'[x] = stage[x]
                      \/ /\ x = r /\ stage'[x] # "open" /\ stage[x] # "settled"
                         /\ stage[x] \notin {"open", "held"} => stage'[x] \notin {"open", "held"}
  <2>1. CASE UNCHANGED money
    BY <2>1 DEF money, CallInv, CallType
  <2>2. CASE Reserve(r, {})
    BY <1>1, <2>2, ReserveEffect DEF CallInv
  <2>3. CASE Settle(r, Minute, {})
    BY <1>1, <2>3, SettleEffect DEF CallInv
  <2> QED BY <1>3, <2>1, <2>2, <2>3 DEF ReservePing
<1>6. ReservePing(r) /\ origin # "test" => stage'[r] # "open"
  BY ReserveEffect DEF ReservePing, CallInv
<1>7. Settle(r, Minute, {}) => stage'[r] = "settled"
  BY <1>1, SettleEffect, CallAssumption DEF CallInv
<1>8. runtime' \in [Rows -> AgentSteps] /\ runtime'[r] = pc
      /\ \A x \in Rows : x # r => runtime'[x] = runtime[x]
  BY <1>2 DEF CallInv, CallType
<1>9. UNCHANGED faults =>
         Fault \/ \A x \in Rows : Unserved(x)' /\ origin # "test" => Unserved(x)
  BY <1>2, <1>5, <1>7, <1>8 DEF Unserved
<1>10. AgentStep
  <2>1. \A x \in Rows : runtime'[x] # "off" => runtime[x] # "off"
    BY <1>1, <1>2, <1>8
  <2>2. \A x \in Rows : stage'[x] = stage[x]
                     \/ /\ runtime[x] # "off" /\ stage'[x] # "open" /\ stage[x] # "settled"
                        /\ stage[x] \notin {"open", "held"} => stage'[x] \notin {"open", "held"}
    BY <1>1, <1>5
  <2>3. \A x \in Rows : runtime'[x] = "talking" /\ origin # "test" =>
                          runtime[x] = "talking" \/ stage'[x] # "open"
    BY <1>2, <1>6, <1>8
  <2>4. \/ UNCHANGED faults /\ \A x \in Rows : Unserved(x)' /\ origin # "test" => Unserved(x)
        \/ Fault
    BY <1>3, <1>9
  <2>5. UNCHANGED unroomed /\ origin # "legacy" /\ RoomStep
    BY <1>1, <1>3, <1>4
  <2> QED BY <1>4, <1>5, <1>8, <2>1, <2>2, <2>3, <2>4, <2>5 DEF AgentStep
<1> QED BY <1>10, AgentKeeps

-----------------------------------------------------------------------------
(* The steps of the sweep. *)

\* The sweep reads the call, and later writes what it made of it.
LEMMA SweepKeeps == ASSUME CallInv, SweepRead \/ SweepWrite PROVE CallInv'
<1>1. /\ UNCHANGED unswept /\ UNCHANGED money /\ UNCHANGED <<balance, stage>>
      /\ contact # "none" /\ Dialled /\ 1 \in Rows
  <2>1. UNCHANGED unswept /\ UNCHANGED <<balance, stage, late>> /\ contact # "none"
    BY DEF SweepRead, SweepWrite, unswept, money, CallInv, StaleKnown
  <2>2. Dialled
    BY DEF SweepRead, SweepWrite, Dialled, CallInv, StaleKnown
  <2> QED BY <2>1, <2>2, CallAssumption DEF money
<1>2. sweep = "stale" => 1 \in Existing
  BY DEF CallInv, StaleKnown
<1>3. /\ call' \in [Rows -> [status : RowStatuses, stale : BOOLEAN, answered : BOOLEAN]]
      /\ Existing' = Existing
      /\ \A r \in Rows : call'[r].status = "none" => call'[r] = NoRow
      /\ \A r \in Rows : call'[r].stale => call[r].stale \/ r = 1
      /\ \A r \in Rows : call[r].stale => call'[r].stale
  <2>1. CASE UNCHANGED call
    BY <2>1 DEF CallInv, CallType, RowsKnown, Existing
  <2>2. CASE call' = [call EXCEPT ![1].status = "FAILED", ![1].stale = TRUE] /\ sweep = "stale"
    <3>1. /\ call' \in [Rows -> [status : RowStatuses, stale : BOOLEAN, answered : BOOLEAN]]
          /\ call'[1].status = "FAILED" /\ call'[1].stale
          /\ \A r \in Rows : r # 1 => call'[r] = call[r]
      <4>1. /\ call \in [Rows -> [status : RowStatuses, stale : BOOLEAN, answered : BOOLEAN]]
            /\ "FAILED" \in RowStatuses
        BY DEF CallInv, CallType, RowStatuses, Terminal
      <4> QED BY <1>1, <2>2, <4>1
    <3>2. Existing' = Existing
      <4>1. call'[1] # NoRow
        BY <3>1 DEF NoRow
      <4>2. call[1] # NoRow
        BY <1>2, <2>2 DEF Existing
      <4> QED BY <3>1, <4>1, <4>2 DEF Existing
    <3> QED BY <1>1, <3>1, <3>2 DEF CallInv, RowsKnown
  <2> QED BY <2>1, <2>2 DEF SweepRead, SweepWrite
<1>4. /\ contact' \in {"dialing"} \cup Outcomes /\ contact' # "none"
      /\ sweep' \in {"idle", "stale"} \cup Outcomes
      /\ sweep' = "stale" => 1 \in Existing
  <2>1. CASE SweepRead
    <3>1. sweep' = "stale" => call[1].status # "none"
      BY <2>1 DEF SweepRead
    <3>2. sweep' \in {"idle", "stale"} \cup Outcomes /\ contact' = "dialing"
      BY <2>1 DEF SweepRead, Outcomes
    <3> QED BY <1>1, <3>1, <3>2 DEF Existing, NoRow, Outcomes
  <2>2. CASE SweepWrite
    BY <2>2 DEF SweepWrite, CallInv, CallType, Outcomes
  <2> QED BY <2>1, <2>2
<1>5. CallType'
  BY <1>1, <1>3, <1>4 DEF unswept, CallInv, CallType
<1>6. JobsKnown'
  BY <1>1, <1>3 DEF unswept, CallInv, JobsKnown
<1>7. OriginsKnown'
  BY <1>1, <1>3, <1>4 DEF unswept, CallInv, OriginsKnown
<1>8. RowsKnown'
  BY <1>1, <1>3 DEF unswept, CallInv, RowsKnown
<1>9. DialersKnown'
  BY <1>1, <1>3, DialersFrame DEF unswept, CallInv
<1>10. EndsOnce'
  BY <1>1, <1>4 DEF unswept, CallInv, EndsOnce, Ending
<1>11. StaleKnown'
  <2>1. Dialled'
    BY <1>1 DEF unswept, Dialled
  <2>2. job["finished"].pc \in {"terminal", "complete"} => job["finished"].row \in Rows
    BY EventsApart DEF CallInv, JobsKnown, Existing
  <2> QED BY <1>1, <1>3, <1>4, <2>1, <2>2 DEF unswept, CallInv, StaleKnown
<1>12. NeverOpenTalking'
  BY <1>1 DEF unswept, CallInv, NeverOpenTalking
<1>13. ASSUME Whole PROVE Whole'
  <2>1. 1 \in terminal /\ origin # "prefixed" => SettledAtEnd' /\ CountedAtEnd'
    BY <1>1, <1>4, <1>13 DEF unswept, Whole, SettledAtEnd, CountedAtEnd, Ending
  <2>2. origin = "campaign" => ~Undialed
    BY <1>1 DEF Dialled, Undialed
  <2>3. origin # "inbound"
    BY <1>1 DEF CallInv, OriginsKnown
  <2> QED BY <1>1, <1>3, <1>13, <2>1, <2>2, <2>3 DEF unswept, Whole, Handled, Undialed
<1>14. \A r \in Rows : Unserved(r)' => Unserved(r)
  BY <1>1 DEF unswept, Unserved
<1> QED BY <1>1, <1>5, <1>6, <1>7, <1>8, <1>9, <1>10, <1>11, <1>12, <1>13, <1>14, ServedStep
        DEF unswept, CallInv

-----------------------------------------------------------------------------
(* The invariant, and what follows from it. *)

\* A call starts within the invariant.
LEMMA CallInit == ASSUME Init PROVE CallInv
<1> USE EventsApart, CallAssumption
<1>1. /\ \A r \in Rows : stage[r] = "open" /\ runtime[r] = "off" /\ r \notin terminal
      /\ \A q \in Requests : dial[q] = "idle"
      /\ \A e \in Events : job[e] = Idle /\ job[e].pc = "idle"
      /\ counted = 0 /\ room = "none" /\ sweep = "idle" /\ faults = 0
      /\ contact # "none" <=> origin \in {"campaign", "legacy"}
      /\ inbox = IF origin = "legacy" THEN Statuses ELSE {}
  BY DEF Init, Idle
<1>2. /\ call \in [Rows -> [status : RowStatuses, stale : BOOLEAN, answered : BOOLEAN]]
      /\ \A r \in Rows : ~call[r].stale
      /\ \A r \in Rows : call[r].status = "none" => call[r] = NoRow
      /\ Existing = IF origin = "legacy" THEN {1} ELSE {}
  BY DEF Init, NoRow, RowStatuses, Existing
<1>3. CallType
  <2>1. job \in [Events -> [pc : JobSteps, row : Rows \cup {0}, seen : BOOLEAN]]
    BY DEF Init, Idle, JobSteps
  <2>2. origin \in {"campaign", "web", "test", "inbound", "prefixed", "legacy"}
    BY DEF Init
  <2> QED BY <1>2, <2>1, <2>2 DEF Init, CallType, DialSteps, AgentSteps, Account!Stages
<1>4. JobsKnown /\ DialersKnown /\ EndsOnce /\ StaleKnown /\ NeverOpenTalking
  <2>1. JobsKnown /\ EndsOnce /\ NeverOpenTalking
    BY <1>1, <1>2 DEF JobsKnown, EndsOnce, NeverOpenTalking, Ending
  <2>2. DialersKnown
    BY <1>1, <1>2 DEF DialersKnown, Called, Dialed
  <2>3. StaleKnown
    BY <1>1, <1>2 DEF StaleKnown
  <2> QED BY <2>1, <2>2, <2>3
<1>5. OriginsKnown /\ RowsKnown
  BY <1>1, <1>2 DEF OriginsKnown, RowsKnown
<1>6. Served
  <2>1. Whole
    BY <1>1, <1>2 DEF Init, Whole, InboundEnds, Called, NoRow
  <2> QED BY <1>1, <2>1 DEF Served, Unserved
<1> QED BY <1>3, <1>4, <1>5, <1>6 DEF CallInv

\* Every step keeps it.
LEMMA CallNext == ASSUME CallInv, CrossingsKnown, [Next]_vars PROVE CallInv'
<1>1. ASSUME NEW e \in Events,
             Handle(e) \/ Dedupe(e) \/ Swallow(e) \/ Crash(e) \/ Throw(e) \/ Redeliver(e)
      PROVE  CallInv'
  BY <1>1, ClaimKeeps, CreateKeeps, ReserveHookKeeps, NoteKeeps, FirstKeeps, CompleteKeeps,
     SettleHookKeeps, CountKeeps, FailCallKeeps, ReleaseKeeps, PlivoStatusKeeps, DedupeKeeps,
     FaultyHandlerKeeps, RedeliverKeeps DEF Handle
<1>2. ASSUME NEW q \in Requests, Dial(q) \/ DialFails(q) \/ DialCrash(q) PROVE CallInv'
  BY <1>2, DialKeeps, DialEndsKeep
<1>3. ASSUME NEW r \in Rows, Agent(r) \/ AdmitLost(r) \/ AgentDies(r) PROVE CallInv'
  BY <1>3, AgentMoves
<1>4. CASE Arrive \/ Empties \/ EndTest
  BY <1>4, RoomKeeps
<1>5. CASE SweepRead \/ SweepWrite
  BY <1>5, SweepKeeps
<1>6. CASE UNCHANGED vars
  BY <1>6 DEF vars, CallInv, CallType, JobsKnown, OriginsKnown, RowsKnown, DialersKnown,
              EndsOnce, Ending, StaleKnown, Dialled, NeverOpenTalking, Served, Unserved, Intact,
              Whole, Handled, SettledAtEnd, CountedAtEnd, InboundEnds, Existing, Undialed
<1> QED BY <1>1, <1>2, <1>3, <1>4, <1>5, <1>6 DEF Next, Progress, Rest

-----------------------------------------------------------------------------
(* Requests that miss each other. *)

\* A step that moves no credits lets nothing be missed.
Calm ==
    /\ UNCHANGED <<balance, stage>> /\ late' \subseteq late
    /\ \A e \in late' : job'[e] = job[e]

LEMMA HandlersCalm ==
    ASSUME CallInv, CrossingsKnown, NEW e \in Events,
           \/ Claim(e) \/ Create(e) \/ Note(e) \/ First(e) \/ Complete(e) \/ Count(e)
           \/ FailCall(e) \/ PlivoStatus(e) \/ Dedupe(e) \/ Swallow(e) \/ Crash(e)
           \/ Throw(e) \/ Redeliver(e)
    PROVE  Calm
<1> USE EventsApart DEF money
<1>1. CASE Claim(e) \/ PlivoStatus(e)
  <2>1. /\ UNCHANGED <<balance, stage, late>> /\ job[e].pc = "idle"
        /\ \A f \in Events : f # e => job'[f] = job[f]
    BY <1>1 DEF Claim, PlivoStatus, Begin, Done, Idle, CallInv, CallType, JobsKnown
  <2> QED BY <2>1 DEF Calm, CrossingsKnown
<1>2. CASE Create(e) \/ Note(e) \/ First(e) \/ Complete(e) \/ Count(e) \/ FailCall(e) \/ Throw(e)
  <2>1. /\ UNCHANGED <<balance, stage, late>>
        /\ job[e].pc \in {"create", "note", "terminal", "complete", "count", "fail"}
        /\ \A f \in Events : f # e => job'[f] = job[f]
    BY <1>2 DEF Create, Note, First, Complete, Count, FailCall, Throw, At, Goto, Done, CallInv,
                CallType
  <2> QED BY <2>1 DEF Calm, CrossingsKnown
<1>3. CASE Swallow(e) \/ Crash(e)
  <2>1. /\ UNCHANGED <<balance, stage>> /\ late' = late \ {e}
        /\ \A f \in Events : f # e => job'[f] = job[f]
    BY <1>3 DEF Swallow, Crash, Goto, Done, CallInv, CallType
  <2> QED BY <2>1 DEF Calm, CrossingsKnown
<1>4. CASE Dedupe(e) \/ Redeliver(e)
  BY <1>4 DEF Dedupe, Redeliver, Calm
<1> QED BY <1>1, <1>2, <1>3, <1>4

\* A step that moves no credits and brings no agent back.
LEMMA CrossingsFrame ==
    ASSUME CrossingsKnown, Calm, UNCHANGED origin,
           \A r \in Rows : runtime[r] = "gone" => runtime'[r] = "gone",
           "no_agent" \in inbox' => "no_agent" \in inbox,
           job'["no_agent"].pc # "idle" =>
              \/ job["no_agent"].pc # "idle"
              \/ "no_agent" \in inbox /\ origin \notin {"inbound", "prefixed"}
    PROVE  CrossingsKnown'
  BY CallAssumption DEF CrossingsKnown, Calm

\* A handler's request to the account: only a row without an agent is settled for
\* nothing, and only requests under way are missed.
LEMMA CrossingsAsk ==
    ASSUME CallInv, CrossingsKnown, NEW e \in Events,
           ReserveHook(e) \/ SettleHook(e) \/ Release(e)
    PROVE  CrossingsKnown'
<1> USE EventsApart
<1> DEFINE r == job[e].row
<1>1. /\ UNCHANGED <<origin, call, terminal, contact, counted, room, dial, runtime,
                     sweep, faults>>
      /\ \A f \in Events : f # e => job'[f] = job[f]
      /\ inbox' \subseteq inbox
      /\ job[e].pc \in {"reserve", "settle", "release"}
  BY DEF ReserveHook, SettleHook, Release, At, Goto, Done, CallInv, CallType
<1>2. r \in Rows /\ r \in Existing
  BY <1>1 DEF CallInv, JobsKnown, Existing
<1>3. CASE ReserveHook(e)
  <2>1. Reserve(r, {e}) /\ job[e].pc = "reserve" /\ e # "no_agent"
    BY <1>3 DEF ReserveHook, At, CallInv, JobsKnown
  <2>2. \A x \in Rows : stage'[x] \in {"void", "stranded"} => stage[x] \in {"void", "stranded"}
    BY <1>2, <2>1, ReserveEffect DEF CallInv
  <2>3. origin # "legacy"
    BY <2>1 DEF CallInv, OriginsKnown, JobsKnown
  <2>4. late' \subseteq (late \ {e}) \cup Asking(r, "release")
    BY <1>2, <2>1, ReserveEffect DEF CallInv
  <2>5. \A f \in late' : f \in Events /\ f # e /\ job[f].pc \in {"reserve", "release"}
    BY <2>1, <2>4 DEF Asking, CrossingsKnown
  <2> QED BY <1>1, <2>1, <2>2, <2>3, <2>5 DEF CrossingsKnown
<1>4. ASSUME NEW usage \in {0, Minute}, Settle(r, usage, {e}), e \notin late \/ e = "no_agent",
             usage = 0 => origin = "legacy" \/ e = "no_agent", job[e].pc # "reserve"
      PROVE  CrossingsKnown'
  <2>1. late' \subseteq (late \ {e}) \cup Asking(r, "reserve")
    BY <1>2, <1>4, SettleEffect DEF CallInv
  <2>2. \A f \in late' : f \in Events /\ f # e /\ job[f].pc \in {"reserve", "release"}
    BY <1>4, <2>1 DEF Asking, CrossingsKnown
  <2>3. e = "no_agent" => runtime[r] = "gone"
    BY <1>1, <1>2 DEF CrossingsKnown, CallInv, RowsKnown
  <2>4. origin = "legacy" => e # "no_agent"
    BY <1>1 DEF CallInv, OriginsKnown
  <2>5. \A x \in Rows : stage'[x] \in {"void", "stranded"} =>
            runtime[x] = "gone" \/ (origin = "legacy" /\ stage'[x] = "void")
    <3> SUFFICES ASSUME NEW x \in Rows, stage'[x] \in {"void", "stranded"}
                 PROVE  runtime[x] = "gone" \/ (origin = "legacy" /\ stage'[x] = "void")
      OBVIOUS
    <3>1. CASE x # r
      BY <1>2, <1>4, <3>1, SettleEffect DEF CallInv, CrossingsKnown
    <3>2. CASE x = r /\ e = "no_agent"
      BY <2>3, <3>2
    <3>3. CASE x = r /\ e # "no_agent"
      <4>1. late \cap {e} = {}
        BY <1>4, <3>3
      <4>2. /\ stage'[r] = "void" => stage[r] = "void" \/ usage = 0
            /\ stage'[r] = "stranded" => stage[r] = "stranded"
        BY <1>2, <1>4, <4>1, SettleEffect DEF CallInv
      <4> QED BY <1>2, <1>4, <3>3, <4>2 DEF CrossingsKnown
    <3> QED BY <3>1, <3>2, <3>3
  <2>6. \A f \in Events : f # e => job'[f] = job[f]
    BY <1>1
  <2>7. job'["no_agent"].pc # "idle" => job["no_agent"].pc # "idle"
    BY <1>1
  <2> QED BY <1>1, <2>2, <2>5, <2>6, <2>7 DEF CrossingsKnown
<1>5. CASE SettleHook(e)
  <2>1. PICK usage \in IF e = "finished" THEN {Minute}
                       ELSE IF e = "COMPLETED" THEN {0, Minute} ELSE {0} :
            Settle(r, usage, {e})
    BY <1>5 DEF SettleHook
  <2>2. job[e].pc = "settle" /\ e \notin late
    BY <1>5 DEF SettleHook, At, CrossingsKnown
  <2>3. usage = 0 => origin = "legacy"
    BY <2>1, <2>2, CallAssumption DEF CallInv, JobsKnown, OriginsKnown, Ends
  <2> QED BY <1>4, <2>1, <2>2, <2>3
<1>6. CASE Release(e)
  <2>1. Settle(r, 0, {e}) /\ job[e].pc = "release" /\ e = "no_agent"
    BY <1>6 DEF Release, At, CallInv, JobsKnown
  <2> QED BY <1>4, <2>1
<1> QED BY <1>3, <1>5, <1>6

\* Every other step of a handler, failing ones included.
LEMMA CrossingsHandle ==
    ASSUME CallInv, CrossingsKnown, NEW e \in Events,
           Handle(e) \/ Dedupe(e) \/ Swallow(e) \/ Crash(e) \/ Throw(e) \/ Redeliver(e)
    PROVE  CrossingsKnown'
<1> USE EventsApart DEF money
<1>1. CASE ReserveHook(e) \/ SettleHook(e) \/ Release(e)
  BY <1>1, CrossingsAsk
<1>2. CASE Claim(e)
  <2>1. /\ UNCHANGED <<origin, runtime>> /\ e \in inbox
        /\ (\A f \in Events : f # e => job'[f] = job[f]) /\ inbox' \subseteq inbox
    BY <1>2 DEF Claim, Begin, Done, CallInv, CallType
  <2>2. e = "no_agent" /\ origin \in {"inbound", "prefixed"} => job'[e] = Idle
    <3>1. e = "no_agent" /\ origin \in {"inbound", "prefixed"} =>
              Resolved(e) = {} /\ ~Inbound(e)
      BY LookupEffect DEF Inbound
    <3> QED BY <1>2, <3>1 DEF Claim, Done, CallInv, CallType
  <2>3. job'["no_agent"].pc # "idle" =>
              \/ job["no_agent"].pc # "idle"
              \/ "no_agent" \in inbox /\ origin \notin {"inbound", "prefixed"}
    BY <2>1, <2>2 DEF Idle
  <2> QED BY <1>2, <2>1, <2>3, HandlersCalm, CrossingsFrame
<1>3. CASE Create(e)
  <2>1. /\ UNCHANGED <<origin, inbox>> /\ job[e].pc = "create" /\ e = "caller"
        /\ \A f \in Events : f # e => job'[f] = job[f]
    BY <1>3 DEF Create, At, CallInv, CallType, JobsKnown
  <2>2. \A r \in Rows : runtime[r] = "gone" => runtime'[r] = "gone"
    <3>0. Existing # Rows
      BY <2>1 DEF CallInv, JobsKnown
    <3>1. Rows \ Existing \in SUBSET Nat /\ Rows \ Existing # {}
      BY <3>0, CallAssumption DEF Existing
    <3>2. Min(Rows \ Existing) \in Rows \ Existing
      BY <3>1, MinIsLeast
    <3>3. runtime[Min(Rows \ Existing)] = "off"
      BY <3>2 DEF CallInv, RowsKnown
    <3> QED BY <1>3, <3>2, <3>3 DEF Create, CallInv, CallType
  <2> QED BY <1>3, <2>1, <2>2, HandlersCalm, CrossingsFrame
<1>4. CASE \/ Note(e) \/ First(e) \/ Complete(e) \/ Count(e) \/ FailCall(e) \/ Throw(e)
           \/ PlivoStatus(e) \/ Dedupe(e) \/ Redeliver(e) \/ Swallow(e) \/ Crash(e)
  <2>1. /\ UNCHANGED <<origin, runtime>> /\ ("no_agent" \in inbox' => "no_agent" \in inbox)
        /\ \A f \in Events : f # e => job'[f] = job[f]
        /\ job[e].pc # "idle" \/ e # "no_agent" \/ job' = job
    <3>1. CASE Note(e) \/ First(e) \/ Complete(e) \/ Count(e) \/ FailCall(e) \/ Throw(e)
      BY <3>1 DEF Note, First, Complete, Count, FailCall, Throw, At, Goto, Done, CallInv, CallType
    <3>2. CASE PlivoStatus(e) \/ Dedupe(e) \/ Redeliver(e)
      BY <3>2 DEF PlivoStatus, Dedupe, Redeliver, Begin, CallInv, CallType
    <3>3. CASE Swallow(e) \/ Crash(e)
      <4>1. job[e].pc # "idle"
        BY <3>3 DEF Swallow, Crash, At, CallInv, JobsKnown
      <4> QED BY <3>3, <4>1 DEF Swallow, Crash, Goto, Done, CallInv, CallType
    <3> QED BY <1>4, <3>1, <3>2, <3>3
  <2> QED BY <1>4, <2>1, HandlersCalm, CrossingsFrame
<1> QED BY <1>1, <1>2, <1>3, <1>4 DEF Handle

\* No agent comes back, and only a row's agent that is gone is reported missing.
LEMMA CrossingsAgent ==
    ASSUME CallInv, CrossingsKnown, NEW r \in Rows, Agent(r) \/ AdmitLost(r) \/ AgentDies(r)
    PROVE  CrossingsKnown'
<1> USE EventsApart DEF money
<1>1. /\ UNCHANGED unroomed
      /\ runtime[r] \notin {"off", "gone"}
      /\ \A x \in Rows : x # r => runtime'[x] = runtime[x]
      /\ "no_agent" \in inbox' => "no_agent" \in inbox \/ runtime'[r] = "gone"
      /\ ReservePing(r) \/ Settle(r, Minute, {}) \/ UNCHANGED money
  BY DEF Agent, Admit, NoAgent, Leave, Teardown, SettlePing, AdmitLost, AgentDies, RunTo,
         CloseRoom, CallInv, CallType
<1>2. origin # "legacy" /\ r \in Existing /\ Existing \subseteq Rows
  BY <1>1 DEF CallInv, OriginsKnown, RowsKnown, Existing
<1>3. stage[r] \notin {"void", "stranded"}
  BY <1>1, <1>2 DEF CrossingsKnown
<1>4. origin \in {"inbound", "prefixed"} \/ r = 1
  BY <1>2 DEF CallInv, RowsKnown
<1>5. \A x \in Rows : stage'[x] = stage[x] \/ (x = r /\ stage'[r] \notin {"void", "stranded"})
  <2>1. CASE UNCHANGED money
    BY <2>1
  <2>2. CASE Reserve(r, {})
    BY <1>3, <2>2, ReserveEffect DEF CallInv
  <2>3. CASE Settle(r, Minute, {})
    BY <1>3, <2>3, SettleEffect, CallAssumption DEF CallInv
  <2> QED BY <1>1, <2>1, <2>2, <2>3 DEF ReservePing
<1>6. late' \subseteq late \cup Asking(r, "release") \cup Asking(r, "reserve")
  <2>1. CASE UNCHANGED money
    BY <2>1
  <2>2. CASE Reserve(r, {})
    BY <2>2, ReserveEffect DEF CallInv
  <2>3. CASE Settle(r, Minute, {})
    BY <2>3, SettleEffect DEF CallInv
  <2> QED BY <1>1, <2>1, <2>2, <2>3 DEF ReservePing
<1>7. \A e \in late' : e \in Events /\ job'[e].pc \in {"reserve", "release"}
  BY <1>1, <1>6 DEF CrossingsKnown, Asking, unroomed
<1>8. job["no_agent"].pc # "idle" \/ "no_agent" \in inbox =>
          origin \in {"inbound", "prefixed"} \/ runtime'[1] = "gone"
  BY <1>1, <1>4, CallAssumption DEF CrossingsKnown
<1> QED BY <1>1, <1>4, <1>5, <1>7, <1>8 DEF CrossingsKnown, unroomed

\* What CallInv leaves to be known of requests that miss each other.
LEMMA CrossingsNext == ASSUME CallInv, CrossingsKnown, [Next]_vars PROVE CrossingsKnown'
<1> USE EventsApart DEF money
<1>1. ASSUME NEW e \in Events,
             Handle(e) \/ Dedupe(e) \/ Swallow(e) \/ Crash(e) \/ Throw(e) \/ Redeliver(e)
      PROVE  CrossingsKnown'
  BY <1>1, CrossingsHandle
<1>2. ASSUME NEW q \in Requests, Dial(q) \/ DialFails(q) \/ DialCrash(q) PROVE CrossingsKnown'
  <2>1. UNCHANGED <<origin, job>> /\ Calm /\ ("no_agent" \in inbox' => "no_agent" \in inbox)
    BY <1>2 DEF Dial, CheckKey, CreateCall, MintCall, CreateTest, Ring, Answer, Accept, FailDial,
                StampContact, DialFails, DialCrash, undialed, Calm
  <2>2. \A r \in Rows : runtime[r] = "gone" => runtime'[r] = "gone"
    <3>1. CASE Ring(q)
      <4>1. room = "none" /\ origin # "legacy"
        BY <3>1 DEF Ring, CallInv, DialersKnown, OriginsKnown, Dialed
      <4> QED BY <4>1 DEF CallInv, RowsKnown
    <3>2. CASE UNCHANGED runtime
      BY <3>2
    <3> QED BY <1>2, <3>1, <3>2 DEF Dial, CheckKey, CreateCall, MintCall, CreateTest, Answer,
                Accept, FailDial, StampContact, DialFails, DialCrash
  <2> QED BY <2>1, <2>2, CrossingsFrame
<1>3. ASSUME NEW r \in Rows, Agent(r) \/ AdmitLost(r) \/ AgentDies(r) PROVE CrossingsKnown'
  BY <1>3, CrossingsAgent
<1>4. CASE Arrive \/ Empties \/ EndTest \/ SweepRead \/ SweepWrite \/ Rest \/ UNCHANGED vars
  <2>1. /\ UNCHANGED <<origin, job, runtime>> /\ Calm
        /\ "no_agent" \in inbox' => "no_agent" \in inbox
    BY <1>4 DEF Arrive, Empties, EndTest, CloseRoom, SweepRead, SweepWrite, Rest, unroomed,
                unswept, vars, Calm
  <2> QED BY <2>1, CrossingsFrame
<1> QED BY <1>1, <1>2, <1>3, <1>4 DEF Next, Progress

LEMMA CrossingsInit == ASSUME Init PROVE CrossingsKnown
  BY EventsApart, CallAssumption DEF Init, CrossingsKnown, Idle

\* A call keeps the invariant however its parts interleave.
THEOREM CallInvariant == Spec => [](CallInv /\ CrossingsKnown)
  BY CallInit, CallNext, CrossingsInit, CrossingsNext, PTL DEF Spec

\* However often and in whatever order the end of a call is reported, the campaign
\* counts it once.
THEOREM CallCounted == Spec => []CountedOnce
<1>1. CallInv => CountedOnce
  BY DEF CallInv, EndsOnce, CountedOnce
<1> QED BY <1>1, CallInvariant, PTL

\* No agent ever talks on a call that is neither held nor billed.
THEOREM CallBilled == Spec => []AdmittedIsBilled
<1>1. CallInv /\ CrossingsKnown => AdmittedIsBilled
  BY DEF CallInv, CallType, OriginsKnown, NeverOpenTalking, CrossingsKnown, AdmittedIsBilled,
         Account!Stages
<1> QED BY <1>1, CallInvariant, PTL

\* When nothing is left to happen to a whole call that came up, its end was taken up.
LEMMA EndAtLast ==
    ASSUME CallInv, Whole, Quiet, origin # "prefixed", origin # "legacy", Existing # {},
           room # "none"
    PROVE  1 \in terminal
<1>1. room = "closed" /\ inbox = {} /\ job["finished"].pc = "idle"
  BY EventsApart DEF Quiet, CallInv, CallType, Idle
<1> QED BY <1>1 DEF Whole, Handled

\* An end that was taken up is settled, counted and completed when nothing is left to do.
LEMMA QuietEnds ==
    ASSUME CallInv, Whole, Quiet, origin # "prefixed", 1 \in terminal
    PROVE  /\ stage[1] \notin {"open", "held"}
           /\ contact # "none" => counted = 1
           /\ origin = "inbound" => call[1].status = "COMPLETED"
<1>1. \A e \in Events : job[e].pc = "idle"
  BY DEF Quiet, Idle
<1>2. SettledAtEnd /\ CountedAtEnd
  BY DEF Whole
<1>3. job["finished"].pc = "idle"
  BY <1>1, EventsApart
<1> QED BY <1>1, <1>2, <1>3 DEF Whole, InboundEnds, SettledAtEnd, CountedAtEnd, Ending

\* If at most one thing fails, a session that served a call leaves it settled: the
\* agent's settlement and the webhook's cover for each other.
THEOREM CallSettled == ASSUME MaxFaults <= 1 PROVE Spec => []SettledWhenServed
<1>1. CallInv /\ CrossingsKnown => SettledWhenServed
  <2> SUFFICES ASSUME CallInv, CrossingsKnown, Quiet, NEW r \in Rows, runtime[r] = "done",
                      origin \notin {"prefixed", "test"}, stage[r] # "settled"
               PROVE  FALSE
    BY DEF SettledWhenServed
  <2>1. faults = 1 /\ MaxFaults = 1
    BY CallAssumption DEF CallInv, CallType, Served, Unserved
  <2>2. Whole
    BY <2>1 DEF CallInv, Served, Intact, Unserved
  <2>3. r \in Existing /\ origin # "legacy" /\ room # "none"
    BY DEF CallInv, RowsKnown, OriginsKnown
  <2>4. r = 1
    BY <2>2, <2>3 DEF Whole
  <2>5. stage[r] \in {"open", "held"}
    BY <2>3 DEF CrossingsKnown, CallInv, CallType, Account!Stages
  <2> QED BY <2>2, <2>3, <2>4, <2>5, EndAtLast, QuietEnds
<1> QED BY <1>1, CallInvariant, PTL

\* When nothing failed and nothing is left to happen, everything about the call is
\* finished, provided Plivo reports the end of the leg it was asked to place.
THEOREM CallFinished == ASSUME Statuses # {} PROVE Spec => []FinishedWhenQuiet
<1>1. CallInv /\ CrossingsKnown => FinishedWhenQuiet
  <2> SUFFICES ASSUME CallInv, CrossingsKnown, Quiet, faults = 0 PROVE FinishedWhenQuiet
    BY DEF FinishedWhenQuiet
  <2>1. Whole
    BY DEF CallInv, Served, Intact
  <2>2. origin # "prefixed" => \A r \in Rows : stage[r] # "held"
    <3> SUFFICES ASSUME origin # "prefixed", NEW r \in Rows, stage[r] = "held" PROVE FALSE
      OBVIOUS
    <3>1. r \in Existing /\ origin # "legacy" /\ room # "none"
      BY DEF CallInv, RowsKnown, OriginsKnown
    <3>2. r = 1
      BY <2>1, <3>1 DEF Whole
    <3> QED BY <2>1, <3>1, <3>2, EndAtLast, QuietEnds
  <2>3. origin = "legacy" => 1 \in terminal
    BY <2>1 DEF Whole, Quiet
  <2>4. origin = "campaign" => 1 \in terminal
    <3> SUFFICES ASSUME origin = "campaign" PROVE 1 \in terminal
      OBVIOUS
    <3>1. PICK q \in Requests : dial[q] # "idle"
      BY <2>1 DEF Whole, Quiet, Undialed
    <3>2. dial[q] = "done"
      BY <2>1, <3>1 DEF Whole, Quiet, CallInv, OriginsKnown
    <3>3. room # "none" /\ Existing # {}
      BY <2>1, <3>2 DEF Whole, CallInv, DialersKnown, Called
    <3> QED BY <2>1, <3>3, EndAtLast
  <2>5. origin \in {"campaign", "legacy"} => counted = 1
    BY <2>1, <2>3, <2>4, QuietEnds DEF CallInv, OriginsKnown
  <2>6. origin = "inbound" => \A r \in Existing : call[r].status \in Terminal
    <3> SUFFICES ASSUME origin = "inbound", NEW r \in Existing PROVE call[r].status \in Terminal
      OBVIOUS
    <3>1. r = 1 /\ room # "none"
      BY <2>1 DEF Whole, CallInv, RowsKnown
    <3> QED BY <2>1, <3>1, EndAtLast, QuietEnds DEF Terminal
  <2>7. \A r \in Rows : stage[r] = "stranded" => runtime[r] = "gone"
    BY DEF CrossingsKnown
  <2> QED BY <2>2, <2>5, <2>6, <2>7 DEF FinishedWhenQuiet
<1> QED BY <1>1, CallInvariant, PTL

-----------------------------------------------------------------------------
(* What no step does. *)

\* What a step may write over a finished row's status.
Excused(r) ==
    call[r].status \in Terminal /\ call'[r].status # call[r].status =>
        \/ call[r].stale /\ call'[r].status = "COMPLETED"
        \/ /\ contact # "none" /\ (dial' # dial \/ sweep' # sweep)
           /\ call'[r].status \in {"DIALING", "FAILED"}

\* A row asked to change its status through transitionState is not finished.
LEMMA TransitionExcused ==
    ASSUME CallInv, NEW x \in Rows, NEW target \in Terminal \cup {"RINGING", "ANSWERED"},
           call' = Transition(x, target)
    PROVE  \A r \in Rows : Excused(r)
<1>1. call[x].status = "none" => call[x] = NoRow
  BY DEF CallInv, RowsKnown
<1>2. /\ \A r \in Rows : r # x => call'[r] = call[r]
      /\ call'[x].status # call[x].status => call[x].status \notin Terminal
  BY <1>1, TransitionEffect DEF CallInv
<1> QED BY <1>2 DEF Excused

\* A row that is written whole, or overwritten where that is excused.
LEMMA WriteExcused ==
    ASSUME CallInv, NEW x \in Rows, \A r \in Rows : r # x => call'[r] = call[r],
           Excused(x)
    PROVE  \A r \in Rows : Excused(r)
  BY DEF Excused

\* No webhook changes a finished row, but room_finished the one the sweep failed.
LEMMA HandlerExcused ==
    ASSUME CallInv, NEW e \in Events, Handle(e)
    PROVE  \A r \in Rows : Excused(r)
<1> USE EventsApart
<1>1. CASE UNCHANGED call
  BY <1>1 DEF Excused
<1>2. job[e].pc \notin {"idle", "create"} => job[e].row \in Rows
  BY DEF CallInv, JobsKnown, Existing
<1>3. CASE Create(e)
  <2>1. Existing # Rows
    BY <1>3 DEF Create, At, CallInv, JobsKnown
  <2>2. Rows \ Existing \in SUBSET Nat /\ Rows \ Existing # {}
    BY <2>1, CallAssumption DEF Existing
  <2>3. PICK new \in Rows \ Existing : new = Min(Rows \ Existing)
    BY <2>2, MinIsLeast
  <2>4. call' = [call EXCEPT ![new] = [NoRow EXCEPT !.status = "IN_PROGRESS"]]
    BY <1>3, <2>3 DEF Create
  <2>5. \A r \in Rows : r # new => call'[r] = call[r]
    BY <2>4 DEF CallInv, CallType
  <2>6. call[new].status = "none"
    BY <2>3 DEF Existing, NoRow
  <2>7. Excused(new)
    BY <2>6 DEF Excused, Terminal
  <2> QED BY <2>3, <2>5, <2>7, WriteExcused
<1>4. CASE Note(e)
  <2>1. UNCHANGED call \/ call' = Transition(job[e].row, "ANSWERED")
    BY <1>4 DEF Note
  <2>2. job[e].row \in Rows
    BY <1>2, <1>4 DEF Note, At
  <2> QED BY <1>1, <2>1, <2>2, TransitionExcused
<1>5. CASE Complete(e)
  <2>1. job[e].row \in Rows /\ e = "finished" /\ "COMPLETED" \in Terminal
    BY <1>2, <1>5 DEF Complete, At, CallInv, JobsKnown, Terminal
  <2>2. PICK r \in Rows : r = job[e].row
    BY <2>1
  <2>3. CASE call' = Transition(r, "COMPLETED")
    BY <2>1, <2>3, TransitionExcused
  <2>4. CASE call' = [call EXCEPT ![r].status = "COMPLETED", ![r].stale = FALSE]
             /\ SweepRecovery(e)
    <3>1. call[r].stale
      BY <1>5, <2>1, <2>2, <2>4 DEF Complete, At, SweepRecovery, CallInv, StaleKnown
    <3>2. call'[r].status = "COMPLETED" /\ \A x \in Rows : x # r => call'[x] = call[x]
      <4>1. call \in [Rows -> [status : RowStatuses, stale : BOOLEAN, answered : BOOLEAN]]
        BY DEF CallInv, CallType
      <4> QED BY <2>4, <4>1
    <3>3. Excused(r)
      BY <3>1, <3>2 DEF Excused
    <3> QED BY <3>2, <3>3, WriteExcused
  <2> QED BY <1>1, <1>5, <2>1, <2>2, <2>3, <2>4 DEF Complete
<1>6. CASE FailCall(e)
  <2>1. call' = Transition(job[e].row, "FAILED") /\ job[e].row \in Rows /\ "FAILED" \in Terminal
    BY <1>2, <1>6 DEF FailCall, At, Terminal
  <2> QED BY <2>1, TransitionExcused
<1>7. CASE PlivoStatus(e)
  <2>1. call' = Transition(1, e) /\ e \in Terminal /\ 1 \in Rows
    BY <1>7, CallAssumption DEF PlivoStatus
  <2> QED BY <2>1, TransitionExcused
<1>8. CASE Claim(e) \/ ReserveHook(e) \/ First(e) \/ SettleHook(e) \/ Count(e) \/ Release(e)
  BY <1>1, <1>8 DEF Claim, ReserveHook, First, SettleHook, Count, Release
<1> QED BY <1>3, <1>4, <1>5, <1>6, <1>7, <1>8 DEF Handle

\* Nor does a dialer, but the campaign's.
LEMMA DialExcused ==
    ASSUME CallInv, NEW q \in Requests, Dial(q)
    PROVE  \A r \in Rows : Excused(r)
<1>1. CASE UNCHANGED call
  BY <1>1 DEF Excused
<1>2. /\ 1 \in Rows
      /\ call \in [Rows -> [status : RowStatuses, stale : BOOLEAN, answered : BOOLEAN]]
  BY CallAssumption DEF CallInv, CallType
<1>3. CASE MintCall(q) \/ CreateTest(q) \/ (CreateCall(q) /\ ~UNCHANGED call)
  <2>1. Existing = {}
    BY <1>3 DEF MintCall, CreateTest, CreateCall, CallInv, DialersKnown
  <2>2. \A r \in Rows : call[r].status = "none"
    BY <2>1 DEF Existing, NoRow
  <2> QED BY <2>2 DEF Excused, Terminal
<1>4. ASSUME NEW s \in {"DIALING", "FAILED"}, NEW b \in BOOLEAN, contact # "none", dial' # dial,
             call' = [call EXCEPT ![1].status = s, ![1].stale = b]
      PROVE  \A r \in Rows : Excused(r)
  <2>1. call'[1].status = s /\ \A x \in Rows : x # 1 => call'[x] = call[x]
    BY <1>2, <1>4
  <2>2. Excused(1)
    BY <1>4, <2>1 DEF Excused
  <2> QED BY <1>2, <2>1, <2>2, WriteExcused
<1>5. CASE Accept(q)
  <2>1. CASE origin = "web"
    BY <1>2, <1>5, <2>1, TransitionExcused DEF Accept
  <2>2. CASE origin # "web"
    <3>1. contact # "none"
      BY <1>5, <2>2 DEF Accept, CallInv, OriginsKnown
    <3>2. dial[q] = "accepted" /\ dial' = [dial EXCEPT ![q] = "stamp"]
      BY <1>5, <2>2 DEF Accept, DialTo
    <3>3. dial' # dial
      BY <3>2 DEF CallInv, CallType
    <3> QED BY <1>4, <1>5, <2>2, <3>1, <3>3 DEF Accept
  <2> QED BY <2>1, <2>2
<1>6. CASE FailDial(q)
  <2>1. CASE origin # "campaign"
    BY <1>2, <1>6, <2>1, TransitionExcused DEF FailDial, Terminal
  <2>2. CASE origin = "campaign"
    <3>1. contact # "none" /\ call[1].stale \in BOOLEAN
      BY <1>2, <2>2 DEF CallInv, OriginsKnown
    <3>2. call' = [call EXCEPT ![1].status = "FAILED", ![1].stale = call[1].stale]
      BY <1>2, <1>6, <2>2 DEF FailDial
    <3>3. dial[q] = "failed" /\ dial' = [dial EXCEPT ![q] = "retry"]
      BY <1>6, <2>2 DEF FailDial, DialTo
    <3>4. dial' # dial
      BY <3>3 DEF CallInv, CallType
    <3> QED BY <1>4, <3>1, <3>2, <3>4
  <2> QED BY <2>1, <2>2
<1>7. CASE CheckKey(q) \/ Ring(q) \/ Answer(q) \/ StampContact(q)
  BY <1>1, <1>7 DEF CheckKey, Ring, Answer, StampContact, undialed
<1> QED BY <1>1, <1>3, <1>5, <1>6, <1>7 DEF Dial

\* A finished call stays finished as it was, but for the two writers that are excused.
THEOREM CallKept == Spec => TerminalKept
<1>1. ASSUME CallInv, [Next]_vars PROVE \A r \in Rows : Excused(r)
  <2>1. CASE UNCHANGED call
    BY <2>1 DEF Excused
  <2>2. ASSUME NEW e \in Events, Handle(e) PROVE \A r \in Rows : Excused(r)
    BY <1>1, <2>2, HandlerExcused
  <2>3. ASSUME NEW q \in Requests, Dial(q) PROVE \A r \in Rows : Excused(r)
    BY <1>1, <2>3, DialExcused
  <2>4. CASE SweepWrite
    <3>1. sweep = "stale" => contact # "none"
      BY <1>1 DEF CallInv, StaleKnown
    <3>2. UNCHANGED call \/ /\ call' = [call EXCEPT ![1].status = "FAILED", ![1].stale = TRUE]
                            /\ contact # "none" /\ sweep' # sweep
      BY <2>4, <3>1 DEF SweepWrite
    <3>3. CASE ~UNCHANGED call
      <4>1. call \in [Rows -> [status : RowStatuses, stale : BOOLEAN, answered : BOOLEAN]]
        BY <1>1 DEF CallInv, CallType
      <4>2. call'[1].status = "FAILED" /\ \A x \in Rows : x # 1 => call'[x] = call[x]
        BY <3>2, <3>3, <4>1, CallAssumption
      <4> QED BY <3>2, <3>3, <4>2 DEF Excused
    <3> QED BY <2>1, <3>3
  <2>5. CASE \E e \in Events : Dedupe(e) \/ Swallow(e) \/ Crash(e) \/ Throw(e) \/ Redeliver(e)
    BY <2>1, <2>5 DEF Dedupe, Swallow, Crash, Throw, Redeliver
  <2>6. CASE \E q \in Requests : DialFails(q) \/ DialCrash(q)
    BY <2>1, <2>6 DEF DialFails, DialCrash
  <2>7. CASE \E r \in Rows : Agent(r) \/ AdmitLost(r) \/ AgentDies(r)
    BY <2>1, <2>7 DEF Agent, Admit, NoAgent, Leave, Teardown, SettlePing, AdmitLost, AgentDies,
                      unroomed
  <2>8. CASE Empties \/ Arrive \/ EndTest \/ SweepRead \/ Rest \/ UNCHANGED vars
    BY <2>1, <2>8 DEF Empties, Arrive, EndTest, SweepRead, Rest, unroomed, vars
  <2> QED BY <1>1, <2>2, <2>3, <2>4, <2>5, <2>6, <2>7, <2>8 DEF Next, Progress
<1>2. ASSUME CallInv, [Next]_vars
      PROVE  [\A r \in Rows : call[r].status \in Terminal /\ call'[r].status # call[r].status =>
                 \/ call[r].stale /\ call'[r].status = "COMPLETED"
                 \/ /\ contact # "none" /\ (dial' # dial \/ sweep' # sweep)
                    /\ call'[r].status \in {"DIALING", "FAILED"}]_vars
  BY <1>1, <1>2 DEF Excused
<1> QED BY <1>2, CallInvariant, PTL DEF Spec, TerminalKept

-----------------------------------------------------------------------------
(* Refinement of the account. *)

\* A step that moves no credits is none of the account's.
LEMMA CalmMoves ==
    ASSUME Calm
    PROVE  Account!Next
<1>1. {job[e].row : e \in late}' \subseteq {job[e].row : e \in late}
  BY DEF Calm
<1> QED BY <1>1 DEF Calm, Account!Next

\* Reserving and settling are what the account offers, or nothing, and only requests
\* of the same row miss them.
LEMMA AccountMoves ==
    ASSUME CallInv, NEW r \in Rows, NEW usage \in {0, Minute},
           NEW asks \in SUBSET Events, \A e \in asks : job[e].row = r /\ e \notin late',
           \A e \in Events \ asks : job'[e] = job[e], late \subseteq Events,
           Reserve(r, asks) \/ Settle(r, usage, asks)
    PROVE  Account!Next
<1> DEFINE meeting == {job[e].row : e \in late}
<1>1. late' \subseteq late \cup Asking(r, "release") \cup Asking(r, "reserve")
  BY ReserveEffect, SettleEffect DEF CallInv
<1>2. ASSUME NEW e \in late' PROVE e \in Events /\ job'[e] = job[e] /\ (e \in late \/ job[e].row = r)
  BY <1>1, <1>2 DEF Asking
<1>3. meeting' \subseteq meeting \cup {r}
  BY <1>2
<1>4. late \cap asks # {} => r \in meeting
  OBVIOUS
<1>5. CASE UNCHANGED <<balance, stage>> /\ late' = late \ asks
  BY <1>2, <1>5, CalmMoves DEF Calm
<1>6. CASE \/ Account!Hold(r) \/ Account!Charge(r, usage)
           \/ late \cap asks # {} /\ (Account!HoldLate(r) \/ Account!ChargeBlind(r))
  <2>1. Account!Request(r)
    BY <1>3, <1>6 DEF Account!Request
  <2> QED BY <2>1 DEF Account!Next
<1> QED BY <1>5, <1>6 DEF Reserve, Settle, Over

\* Every step of the call is a step of the account or leaves it alone: however the
\* webhooks, the agent and their retries interleave, a row is held at most once,
\* charged at most once, and a hold outlives its settlement only when the two met.
THEOREM CallAccounts == Spec => Account!Spec
<1>1. Init => Account!Init
  BY DEF Init, Account!Init
<1>2. ASSUME CallInv, CrossingsKnown, Next PROVE Account!Next
  <2> USE DEF money
  <2>1. late \subseteq Events
    BY <1>2 DEF CrossingsKnown
  <2>2. ASSUME NEW e \in Events, ReserveHook(e) \/ SettleHook(e) \/ Release(e)
        PROVE  Account!Next
    <3>1. job[e].row \in Rows /\ job[e].pc \in {"reserve", "settle", "release"}
      BY <1>2, <2>2 DEF ReserveHook, SettleHook, Release, At, CallInv, JobsKnown, Existing
    <3>2. \A f \in Events \ {e} : job'[f] = job[f]
      BY <1>2, <2>2 DEF ReserveHook, SettleHook, Release, Goto, Done, CallInv, CallType
    <3>3. PICK usage \in {0, Minute} :
              \/ Reserve(job[e].row, {e}) /\ job[e].pc = "reserve"
              \/ Settle(job[e].row, usage, {e}) /\ job[e].pc # "reserve"
      BY <2>2 DEF ReserveHook, SettleHook, Release, At
    <3>4. e \notin late'
      BY <1>2, <3>1, <3>3, ReserveEffect, SettleEffect DEF CallInv, Asking
    <3> QED BY <1>2, <2>1, <3>1, <3>2, <3>3, <3>4, AccountMoves
  <2>3. ASSUME NEW e \in Events,
               Handle(e) \/ Dedupe(e) \/ Swallow(e) \/ Crash(e) \/ Throw(e) \/ Redeliver(e)
        PROVE  Account!Next
    BY <1>2, <2>2, <2>3, HandlersCalm, CalmMoves DEF Handle
  <2>4. ASSUME NEW r \in Rows, Agent(r) \/ AdmitLost(r) \/ AgentDies(r)
        PROVE  Account!Next
    <3>1. ReservePing(r) \/ Settle(r, Minute, {}) \/ UNCHANGED money
      BY <2>4 DEF Agent, Admit, NoAgent, Leave, Teardown, SettlePing, AdmitLost, AgentDies
    <3>2. UNCHANGED job
      BY <2>4 DEF Agent, Admit, NoAgent, Leave, Teardown, SettlePing, AdmitLost, AgentDies,
                  unroomed
    <3>3. CASE UNCHANGED money
      BY <3>2, <3>3, CalmMoves DEF Calm
    <3>4. CASE Reserve(r, {}) \/ Settle(r, Minute, {})
      BY <1>2, <2>1, <3>2, <3>4, AccountMoves
    <3> QED BY <3>1, <3>3, <3>4 DEF ReservePing
  <2>5. CASE \E q \in Requests : Dial(q) \/ DialFails(q) \/ DialCrash(q)
    <3>1. UNCHANGED <<money, job>>
      BY <2>5 DEF Dial, CheckKey, CreateCall, MintCall, CreateTest, Ring, Answer, Accept,
                  FailDial, StampContact, DialFails, DialCrash, undialed
    <3> QED BY <3>1, CalmMoves DEF Calm
  <2>6. CASE Empties \/ Arrive \/ EndTest \/ SweepRead \/ SweepWrite \/ Rest
    <3>1. UNCHANGED <<money, job>>
      BY <2>6 DEF Empties, Arrive, EndTest, SweepRead, SweepWrite, unswept, unroomed, Rest, vars
    <3> QED BY <3>1, CalmMoves DEF Calm
  <2> QED BY <1>2, <2>3, <2>4, <2>5, <2>6 DEF Next, Progress
<1>3. UNCHANGED vars => UNCHANGED Account!vars
  BY DEF vars, Account!vars
<1> QED BY <1>1, <1>2, <1>3, CallInvariant, PTL DEF Spec, Account!Spec

=============================================================================
