---------------------------- MODULE CampaignDial ----------------------------
(***************************************************************************)
(* One campaign: the start request, the Redis queue and retry set, the     *)
(* worker replicas that process dial jobs and sweep, and the room_finished *)
(* webhook that ends a call.  A worker's step is one round trip to         *)
(* MongoDB, Redis or LiveKit, so workers, the web process and webhooks     *)
(* interleave between any two.  The preflight reads are one step, and so   *)
(* is a webhook.                                                           *)
(*                                                                         *)
(* Time is abstract: a contact is "aged" once its lastAttemptAt lies more  *)
(* than stale_after_seconds back; a parked retry may come due at any       *)
(* moment.  The dispatch lock is taken to exclude (see DispatchLock).  The *)
(* governors are shared with other campaigns, so they may refuse at any    *)
(* time; env counts how often, and how many faults are left.               *)
(***************************************************************************)
EXTENDS Naturals, Sequences, FiniteSets, SequencesExt, FiniteSetsExt

CONSTANTS
    Contacts,     \* contacts of the campaign
    Barred,       \* those on the do-not-call list
    Workers,      \* worker replicas
    MaxAttempts,  \* the campaign's retryConfig.maxAttempts
    DefaultMax,   \* config.max_call_attempts, for jobs that carry no maximum
    BatchSize,    \* DISPATCH_BATCH_SIZE
    OldRows,      \* contacts were imported more than stale_after ago
    Orderly,      \* queued jobs are served, and calls last, as long as intended
    FailedRoom,   \* what a failed dial leaves: "none", or a room that "ended"
    Faulty,       \* worker steps at which a database call may raise
    Budget        \* how many refusals, errors, crashes and lost webhooks occur

ASSUME CampaignAssumption ==
    /\ IsFiniteSet(Contacts) /\ Barred \subseteq Contacts /\ "none" \notin Contacts
    /\ {MaxAttempts, DefaultMax, BatchSize} \subseteq Nat \ {0}
    /\ {OldRows, Orderly} \subseteq BOOLEAN
    /\ FailedRoom \subseteq {"none", "ended"}
    /\ Budget \in [refusals : Nat, errors : Nat, crashes : Nat, lost : Nat]

VARIABLES
    campaign,  \* campaigns.status
    contact,   \* contact[c]: the campaign_contacts row
    aged,      \* contacts that stale_contacts() would return
    calls,     \* calls[c]: the call rows minted for c, oldest first, and their rooms
    queue,     \* sigulon:campaign:queue
    retries,   \* sigulon:campaign:retries
    parked,    \* the retry dedupe keys that are set
    web,       \* the start request
    worker,    \* worker[w]: where the replica is, and its local variables
    env        \* faults the environment may still produce

vars == <<campaign, contact, aged, calls, queue, retries, parked, web, worker, env>>

\* of the statuses in the source, those that some code writes to a contact
NONTERMINAL_CONTACT == {"pending", "queued", "dialing"}
TerminalContact == {"completed", "failed", "dnc"}

NoMax == 0   \* a job without max_attempts
Job == [contact : Contacts, attempt : Nat, max : Nat]
InitialJob(c, attempt) == [contact |-> c, attempt |-> attempt, max |-> MaxAttempts]

NoJob == [contact |-> "none", attempt |-> 0, max |-> NoMax]

Idle == [pc |-> "pop", back |-> "pop", job |-> NoJob, attempts |-> 0, call |-> 0,
         verdict |-> "failed", todo |-> {}, rows |-> {}]

Init ==
    /\ campaign = "draft"
    /\ contact = [c \in Contacts |-> [status |-> "pending", attempts |-> 0]]
    /\ aged = IF OldRows THEN Contacts ELSE {}
    /\ calls = [c \in Contacts |-> <<>>]
    /\ queue = <<>>
    /\ retries = {}
    /\ parked = {}
    /\ web = [pc |-> "idle", claimed |-> {}]
    /\ worker = [w \in Workers |-> Idle]
    /\ env = Budget

-----------------------------------------------------------------------------
(* Shared writes.                                                          *)

\* set_contact_status: unconditional, and it restamps lastAttemptAt
SetContact(c, row) ==
    /\ contact' = [contact EXCEPT ![c] = row]
    /\ aged' = aged \ {c}

SetStatus(c, status) == SetContact(c, [contact[c] EXCEPT !.status = status])

DedupeKey(job) == <<job.contact, job.attempt>>
Keys(jobs) == {DedupeKey(j) : j \in jobs}

\* a mutant: the job is added whether or not its key was free
ScheduleAlways(job) ==
    /\ retries' = retries \cup {job}
    /\ parked' = parked \cup {DedupeKey(job)}

\* SET NX on the dedupe key; ZADD only when it was free
Schedule(job) ==
    IF DedupeKey(job) \in parked
    THEN UNCHANGED <<retries, parked>>
    ELSE /\ retries' = retries \cup {job}
         /\ parked' = parked \cup {DedupeKey(job)}

Fresh == {c \in Contacts : contact[c] = [status |-> "pending", attempts |-> 0]}

\* a mutant: retries that wait as pending do not count
DrainedButRetries(rows) ==
    \A c \in Contacts : rows[c].status \notin NONTERMINAL_CONTACT \ {"pending"}

\* checkAndMarkCompletion's and nonterminal_contact_count's question
Drained(rows) == \A c \in Contacts : rows[c].status \notin NONTERMINAL_CONTACT

\* up to BatchSize members of S, which ones the index order decides
Batches(S) == {T \in SUBSET S : Cardinality(T) = Min({BatchSize, Cardinality(S)})}

Spend(fault) == env[fault] > 0 /\ env' = [env EXCEPT ![fault] = @ - 1]

-----------------------------------------------------------------------------
(* POST /api/campaigns/[id]/start, under the dispatch lock, which is taken *)
(* here to exclude (DispatchLock says when it does). Its reads of the page *)
(* and its claims are one step.                                            *)

StartClaim ==
    /\ web.pc = "idle"
    /\ campaign = "draft"
    /\ \E page \in Batches({c \in Contacts : contact[c].status = "pending"}) :
          /\ contact' = [c \in Contacts |->
                           IF c \notin page THEN contact[c]
                           ELSE [contact[c] EXCEPT !.status =
                                   IF c \in Barred THEN "dnc" ELSE "queued"]]
          /\ web' = [pc |-> "claimed", claimed |-> page \ Barred]
    /\ UNCHANGED <<campaign, aged, calls, queue, retries, parked, worker, env>>

StartRunning ==
    /\ web.pc = "claimed"
    /\ campaign' = "running"
    /\ web' = [web EXCEPT !.pc = "enqueue"]
    /\ UNCHANGED <<contact, aged, calls, queue, retries, parked, worker, env>>

Push(jobs) == queue' = queue \o SetToSeq(jobs)

StartEnqueue ==
    /\ web.pc = "enqueue"
    /\ Push({InitialJob(c, contact[c].attempts) : c \in web.claimed})
    /\ campaign' = IF web.claimed = {} /\ Drained(contact) THEN "completed" ELSE campaign
    /\ web' = [pc |-> "idle", claimed |-> {}]
    /\ UNCHANGED <<contact, aged, calls, retries, parked, worker, env>>

\* Redis rejects the batch: status and claims are restored
StartRollback ==
    /\ web.pc = "enqueue"
    /\ web.claimed # {}
    /\ Spend("errors")
    /\ campaign' = "draft"
    /\ contact' = [c \in Contacts |->
                     IF c \in web.claimed /\ contact[c].status = "queued"
                     THEN [contact[c] EXCEPT !.status = "pending"]
                     ELSE contact[c]]
    /\ web' = [pc |-> "idle", claimed |-> {}]
    /\ UNCHANGED <<aged, calls, queue, retries, parked, worker>>

-----------------------------------------------------------------------------
(* The worker's main loop: pop one job, process the due retries, perhaps   *)
(* sweep, and again.                                                       *)

At(w, pc) == worker[w].pc = pc
Goto(w, pc) == worker' = [worker EXCEPT ![w].pc = pc]
Target(w) == worker[w].job.contact
Busy(c) == \E w \in Workers : Target(w) = c
Return(w) == worker' = [worker EXCEPT ![w] =
                          [Idle EXCEPT !.pc = worker[w].back, !.todo = worker[w].todo]]

Begin(w, job, back, todo) ==
    worker' = [worker EXCEPT ![w] =
                 [Idle EXCEPT !.pc = "preflight", !.back = back, !.job = job, !.todo = todo]]

\* BRPOP takes from the end RPUSH appends to
Pop(w) ==
    /\ At(w, "pop")
    /\ IF queue = <<>>
       THEN Goto(w, "claim") /\ UNCHANGED queue
       ELSE Begin(w, Last(queue), "claim", {}) /\ queue' = Front(queue)
    /\ UNCHANGED <<campaign, contact, aged, calls, retries, parked, web, env>>

\* ZREM gives each due job to one worker.  When Orderly, a job parked for a
\* minute or more outlasts the rest of the step that parked it.
ClaimDue(w) ==
    /\ At(w, "claim")
    /\ \E due \in SUBSET {j \in retries : Orderly => ~Busy(j.contact)} \ {{}} :
          /\ retries' = retries \ due
          /\ worker' = [worker EXCEPT ![w] = [@ EXCEPT !.pc = "free", !.todo = due]]
    /\ UNCHANGED <<campaign, contact, aged, calls, queue, parked, web, env>>

\* DELETE of the dedupe keys of what was claimed
FreeKeys(w) ==
    /\ At(w, "free")
    /\ parked' = parked \ Keys(worker[w].todo)
    /\ Goto(w, "retries")
    /\ UNCHANGED <<campaign, contact, aged, calls, queue, retries, web, env>>

NoneDue(w) ==
    /\ At(w, "claim")
    /\ Goto(w, "sweep")
    /\ UNCHANGED <<campaign, contact, aged, calls, queue, retries, parked, web, env>>

NextRetry(w) ==
    /\ At(w, "retries")
    /\ IF worker[w].todo = {}
       THEN Goto(w, "sweep")
       ELSE \E j \in worker[w].todo : Begin(w, j, "retries", worker[w].todo \ {j})
    /\ UNCHANGED <<campaign, contact, aged, calls, queue, retries, parked, web, env>>

\* sweep_interval_seconds have not passed, or the campaign is not running
SkipSweep(w) ==
    /\ At(w, "sweep")
    /\ Goto(w, "pop")
    /\ UNCHANGED <<campaign, contact, aged, calls, queue, retries, parked, web, env>>

-----------------------------------------------------------------------------
(* _process_job.                                                           *)

MaxOf(job) == IF job.max = NoMax THEN DefaultMax ELSE job.max
Attempts(job) == IF contact[job.contact].attempts > 0
                 THEN contact[job.contact].attempts
                 ELSE job.attempt

\* dnc-listed; the other preflight refusals (no agent, no number, no consent,
\* unparseable) terminalise a contact in the same way
Barring(job) == job.contact \in Barred

\* the reads: a campaign that does not run parks its queued contacts
PreflightNotRunning(w) ==
    /\ At(w, "preflight")
    /\ campaign # "running"
    /\ IF contact[Target(w)].status = "queued" THEN Goto(w, "park") ELSE Return(w)
    /\ UNCHANGED <<campaign, contact, aged, calls, queue, retries, parked, web, env>>

\* attempts used up, or do-not-call: the contact will be terminalised, whatever it is now
PreflightRefuse(w) ==
    LET exhausted == Attempts(worker[w].job) >= MaxOf(worker[w].job)
    IN /\ At(w, "preflight")
       /\ campaign = "running"
       /\ exhausted \/ Barring(worker[w].job)
       /\ worker' = [worker EXCEPT ![w] =
                       [@ EXCEPT !.pc = "terminal",
                                 !.verdict = IF exhausted THEN "failed" ELSE "dnc"]]
       /\ UNCHANGED <<campaign, contact, aged, calls, queue, retries, parked, web, env>>

PreflightPass(w) ==
    LET attempts == Attempts(worker[w].job)
    IN /\ At(w, "preflight")
       /\ campaign = "running"
       /\ attempts < MaxOf(worker[w].job)
       /\ ~Barring(worker[w].job)
       /\ worker' = [worker EXCEPT ![w] = [@ EXCEPT !.pc = "slots", !.attempts = attempts]]
       /\ UNCHANGED <<campaign, contact, aged, calls, queue, retries, parked, web, env>>

Park(w) ==
    /\ At(w, "park")
    /\ SetStatus(Target(w), "pending")
    /\ Return(w)
    /\ UNCHANGED <<campaign, calls, queue, retries, parked, web, env>>

Terminal(w) ==
    /\ At(w, "terminal")
    /\ SetStatus(Target(w), worker[w].verdict)
    /\ Return(w)
    /\ UNCHANGED <<campaign, calls, queue, retries, parked, web, env>>

AdmitSlots(w) ==
    /\ At(w, "slots")
    /\ Goto(w, "claim_contact")
    /\ UNCHANGED <<campaign, contact, aged, calls, queue, retries, parked, web, env>>

RefuseSlots(w) ==
    /\ At(w, "slots")
    /\ Spend("refusals")
    /\ Schedule(worker[w].job)
    /\ Goto(w, "defer")
    /\ UNCHANGED <<campaign, contact, aged, calls, queue, web>>

Defer(w) ==
    /\ At(w, "defer")
    /\ SetStatus(Target(w), "queued")
    /\ Return(w)
    /\ UNCHANGED <<campaign, calls, queue, retries, parked, web, env>>

Claimable == {"pending", "queued"}

\* find_one_and_update; the loser of a race drops its job
ClaimContact(w) ==
    /\ At(w, "claim_contact")
    /\ IF contact[Target(w)].status \in Claimable
       THEN SetStatus(Target(w), "dialing") /\ Goto(w, "mint")
       ELSE UNCHANGED <<contact, aged>> /\ Return(w)
    /\ UNCHANGED <<campaign, calls, queue, retries, parked, web, env>>

\* its exception is swallowed and read as a race that was lost: the job is dropped,
\* whether or not the claim reached the row
ClaimRaises(w) ==
    /\ At(w, "claim_contact")
    /\ "claim_contact" \in Faulty
    /\ Spend("errors")
    /\ \/ UNCHANGED <<contact, aged>>
       \/ contact[Target(w)].status \in Claimable /\ SetStatus(Target(w), "dialing")
    /\ Return(w)
    /\ UNCHANGED <<campaign, calls, queue, retries, parked, web>>

NewCall == [status |-> "queued", swept |-> FALSE, room |-> "none", connected |-> FALSE]

Mint(w) ==
    /\ At(w, "mint")
    /\ calls' = [calls EXCEPT ![Target(w)] = Append(@, NewCall)]
    /\ worker' = [worker EXCEPT ![w] =
                    [@ EXCEPT !.pc = "dial", !.call = Len(calls[Target(w)]) + 1]]
    /\ UNCHANGED <<campaign, contact, aged, queue, retries, parked, web, env>>

CallOf(w) == calls[Target(w)][worker[w].call]
SetCall(w, row) == calls' = [calls EXCEPT ![Target(w)][worker[w].call] = row]

\* dispatch, then the SIP participant: dial() returns once the callee answers
DialAccepted(w) ==
    /\ At(w, "dial")
    /\ SetCall(w, [CallOf(w) EXCEPT !.room = "live", !.connected = TRUE])
    /\ Goto(w, "accepted")
    /\ UNCHANGED <<campaign, contact, aged, queue, retries, parked, web, env>>

\* the leg fails, before or after the dispatch has created the room
DialFailed(w) ==
    /\ At(w, "dial")
    /\ \E room \in FailedRoom : SetCall(w, [CallOf(w) EXCEPT !.room = room])
    /\ Goto(w, "failed")
    /\ UNCHANGED <<campaign, contact, aged, queue, retries, parked, web, env>>

\* a mutant: the attempt that failed is not counted
FailuresBefore(w) == worker[w].attempts

Failures(w) == worker[w].attempts + 1

FailCall(w) ==
    /\ At(w, "failed")
    /\ SetCall(w, [CallOf(w) EXCEPT !.status = "failed"])
    /\ Goto(w, IF Failures(w) >= MaxOf(worker[w].job) THEN "terminal" ELSE "backoff")
    /\ UNCHANGED <<campaign, contact, aged, queue, retries, parked, web, env>>

Backoff(w) ==
    /\ At(w, "backoff")
    /\ Schedule(worker[w].job)
    /\ Goto(w, "count_failure")
    /\ UNCHANGED <<campaign, contact, aged, calls, queue, web, env>>

CountFailure(w) ==
    /\ At(w, "count_failure")
    /\ SetContact(Target(w), [status |-> "pending", attempts |-> Failures(w)])
    /\ Return(w)
    /\ UNCHANGED <<campaign, calls, queue, retries, parked, web, env>>

MarkCallDialing(w) ==
    /\ At(w, "accepted")
    /\ SetCall(w, [CallOf(w) EXCEPT !.status = "dialing", !.swept = FALSE])
    /\ Goto(w, "mark_contact")
    /\ UNCHANGED <<campaign, contact, aged, queue, retries, parked, web, env>>

MarkContactDialing(w) ==
    /\ At(w, "mark_contact")
    /\ SetContact(Target(w), [status |-> "dialing", attempts |-> worker[w].attempts + 1])
    /\ Return(w)
    /\ UNCHANGED <<campaign, calls, queue, retries, parked, web, env>>

\* process_job's handler: the contact goes back to pending, then the job is parked
Throw(w) ==
    /\ worker[w].pc \in Faulty \ {"claim_contact"}
    /\ Spend("errors")
    /\ SetStatus(Target(w), "pending")
    /\ Goto(w, "park_job")
    /\ UNCHANGED <<campaign, calls, queue, retries, parked, web>>

ParkJob(w) ==
    /\ At(w, "park_job")
    /\ Schedule(worker[w].job)
    /\ Return(w)
    /\ UNCHANGED <<campaign, contact, aged, calls, queue, web, env>>

\* a kill, or an orderly stop that leaves claimed retries behind; then a restart
Crash(w) ==
    /\ worker[w] # Idle
    /\ Spend("crashes")
    /\ worker' = [worker EXCEPT ![w] = Idle]
    /\ UNCHANGED <<campaign, contact, aged, calls, queue, retries, parked, web>>

\* a kill between the SET of a dedupe key and the ZADD it guards
CrashScheduling(w) ==
    /\ Spend("crashes")
    /\ \E job \in IF At(w, "requeue") THEN worker[w].rows
                  ELSE IF worker[w].pc \in {"slots", "backoff", "park_job"} THEN {worker[w].job}
                  ELSE {} :
          parked' = parked \cup {DedupeKey(job)}
    /\ worker' = [worker EXCEPT ![w] = Idle]
    /\ UNCHANGED <<campaign, contact, aged, calls, queue, retries, web>>

-----------------------------------------------------------------------------
(* sweep_campaign.                                                         *)

\* mutants: no cutoff on the age of a row; only queued rows are looked for
StaleAnyAge(status) == {c \in Contacts : contact[c].status = status}
StaleQueuedOnly(status) ==
    {c \in Contacts : status = "queued" /\ contact[c].status = status /\ c \in aged}

Stale(status) == {c \in Contacts : contact[c].status = status /\ c \in aged}

SweepQueued(w) ==
    /\ At(w, "sweep")
    /\ campaign = "running"
    /\ worker' = [worker EXCEPT ![w] = [@ EXCEPT !.pc = "requeue", !.rows =
                    {[contact |-> c, attempt |-> contact[c].attempts, max |-> NoMax] :
                       c \in Stale("queued")}]]
    /\ UNCHANGED <<campaign, contact, aged, calls, queue, retries, parked, web, env>>

\* the job is parked and the row written, in one step
Requeue(w) ==
    /\ At(w, "requeue")
    /\ \E job \in worker[w].rows :
          /\ Schedule(job)
          /\ SetStatus(job.contact, "queued")
          /\ worker' = [worker EXCEPT ![w].rows = @ \ {job}]
    /\ UNCHANGED <<campaign, calls, queue, web, env>>

SweepActive(w) ==
    /\ At(w, "requeue")
    /\ worker[w].rows = {}
    /\ worker' = [worker EXCEPT ![w] = [@ EXCEPT !.pc = "heal", !.rows = Stale("dialing")]]
    /\ UNCHANGED <<campaign, contact, aged, calls, queue, retries, parked, web, env>>

CALL_TERMINAL_MIRROR == {"completed", "failed"}

\* _heal_stale_active: mirror a terminal call, leave a live one, fail the rest; one row's
\* reads and writes are one step
Heal(w) ==
    /\ At(w, "heal")
    /\ \E c \in worker[w].rows :
          LET none == calls[c] = <<>>
              latest == Last(calls[c])
              mirrored == ~none /\ latest.status \in CALL_TERMINAL_MIRROR
              live == ~none /\ latest.status = "answered" /\ latest.room = "live"
          IN /\ worker' = [worker EXCEPT ![w].rows = @ \ {c}]
             /\ IF live THEN UNCHANGED <<contact, aged>>
                ELSE SetStatus(c, IF mirrored THEN latest.status ELSE "failed")
             /\ IF live \/ mirrored \/ none THEN UNCHANGED calls
                ELSE calls' = [calls EXCEPT ![c] =
                       Append(Front(@), [latest EXCEPT !.status = "failed", !.swept = TRUE])]
    /\ UNCHANGED <<campaign, queue, retries, parked, web, env>>

ActiveBatchWork ==
    \E c \in Contacts : \/ contact[c].status \in {"queued", "dialing"}
                        \/ contact[c].status = "pending" /\ contact[c].attempts > 0

LockFree == web.pc = "idle" /\ \A v \in Workers : worker[v].pc # "refill"

\* under the dispatch lock: check again and claim the next page of fresh contacts, in one step
Refill(w) ==
    /\ At(w, "heal")
    /\ worker[w].rows = {}
    /\ IF LockFree /\ campaign = "running" /\ ~ActiveBatchWork /\ Fresh # {}
       THEN \E page \in Batches(Fresh) :
              /\ contact' = [c \in Contacts |->
                               IF c \in page THEN [contact[c] EXCEPT !.status = "queued"]
                               ELSE contact[c]]
              /\ aged' = aged \ page
              /\ worker' = [worker EXCEPT ![w] = [@ EXCEPT !.pc = "refill", !.rows = page]]
       ELSE Goto(w, "count") /\ UNCHANGED <<contact, aged>>
    /\ UNCHANGED <<campaign, calls, queue, retries, parked, web, env>>

RefillEnqueue(w) ==
    /\ At(w, "refill")
    /\ Push({InitialJob(c, 0) : c \in worker[w].rows})
    /\ worker' = [worker EXCEPT ![w] = [Idle EXCEPT !.pc = "count"]]
    /\ UNCHANGED <<campaign, contact, aged, calls, retries, parked, web, env>>

\* Redis rejects the page: the claims are undone and this sweep is over
RefillRestore(w) ==
    /\ At(w, "refill")
    /\ Spend("errors")
    /\ contact' = [c \in Contacts |->
                     IF c \in worker[w].rows /\ contact[c] = [status |-> "queued", attempts |-> 0]
                     THEN [contact[c] EXCEPT !.status = "pending"]
                     ELSE contact[c]]
    /\ worker' = [worker EXCEPT ![w] = Idle]
    /\ UNCHANGED <<campaign, aged, calls, queue, retries, parked, web>>

\* nonterminal_contact_count, then complete_campaign
CountRemaining(w) ==
    /\ At(w, "count")
    /\ Goto(w, IF Drained(contact) THEN "complete" ELSE "pop")
    /\ UNCHANGED <<campaign, contact, aged, calls, queue, retries, parked, web, env>>

CompleteCampaign(w) ==
    /\ At(w, "complete")
    /\ campaign' = "completed"
    /\ worker' = [worker EXCEPT ![w] = Idle]
    /\ UNCHANGED <<contact, aged, calls, queue, retries, parked, web, env>>

-----------------------------------------------------------------------------
(* Time, LiveKit and the webhook.                                          *)

\* jobs a replica has taken and not yet parked again
InHand(w) == worker[w].todo \cup (IF worker[w].pc \in {"defer", "count_failure"} THEN {}
                                  ELSE {worker[w].job})
Waiting(c) == \/ \E j \in ToSet(queue) \cup retries : j.contact = c
              \/ \E w \in Workers : \E j \in InHand(w) : j.contact = c

\* stale_after_seconds pass without a write to the row.  A job is processed in
\* less; when Orderly, so is the wait for a worker.
Age(c) ==
    /\ campaign = "running"
    /\ c \notin aged
    /\ contact[c].status \in {"queued", "dialing"}
    /\ ~Busy(c)
    /\ Orderly => LockFree /\ ~Waiting(c)
    /\ aged' = aged \cup {c}
    /\ UNCHANGED <<campaign, contact, calls, queue, retries, parked, web, worker, env>>

\* The TTL of a dedupe key, delay + 1 h, runs out.  A job is claimed within that
\* hour of coming due, so its key is not among those that expire.
KeyExpires ==
    /\ \E key \in parked \ Keys(retries) :
          /\ \A w \in Workers : At(w, "free") => key \notin Keys(worker[w].todo)
          /\ parked' = parked \ {key}
    /\ UNCHANGED <<campaign, contact, aged, calls, queue, retries, web, worker, env>>

\* participant_joined, when its transition is admissible
Answered(c) ==
    /\ \E i \in DOMAIN calls[c] :
          /\ calls[c][i].room = "live"
          /\ calls[c][i].status = "dialing"
          /\ calls' = [calls EXCEPT ![c][i].status = "answered"]
    /\ UNCHANGED <<campaign, contact, aged, queue, retries, parked, web, worker, env>>

HangUp(c) ==
    /\ Orderly => ~Busy(c)
    /\ \E i \in DOMAIN calls[c] :
          /\ calls[c][i].room = "live"
          /\ calls' = [calls EXCEPT ![c][i].room = "ended"]
    /\ UNCHANGED <<campaign, contact, aged, queue, retries, parked, web, worker, env>>

\* room_finished: the call row, the contact, and checkAndMarkCompletion
RoomFinished(c) ==
    /\ Orderly => ~Busy(c)
    /\ \E i \in DOMAIN calls[c] :
          LET call == calls[c][i]
              recovery == call.status = "failed" /\ call.swept
              status == IF recovery \/ call.status = "answered" THEN "completed" ELSE call.status
              mirrors == NONTERMINAL_CONTACT \cup (IF recovery THEN {"failed"} ELSE {})
          IN /\ call.room = "ended"
             /\ calls' = [calls EXCEPT ![c][i] =
                            [call EXCEPT !.status = status, !.swept = @ /\ ~recovery,
                                         !.room = "reported"]]
             /\ IF contact[c].status \in mirrors THEN SetStatus(c, "completed")
                ELSE UNCHANGED <<contact, aged>>
    /\ campaign' = IF Drained(contact') THEN "completed" ELSE campaign
    /\ UNCHANGED <<queue, retries, parked, web, worker, env>>

WebhookLost(c) ==
    /\ Spend("lost")
    /\ \E i \in DOMAIN calls[c] :
          /\ calls[c][i].room = "ended"
          /\ calls' = [calls EXCEPT ![c][i].room = "reported"]
    /\ UNCHANGED <<campaign, contact, aged, queue, retries, parked, web, worker>>

-----------------------------------------------------------------------------
Start == StartClaim \/ StartRunning \/ StartEnqueue \/ StartRollback

MainLoop(w) ==
    Pop(w) \/ ClaimDue(w) \/ FreeKeys(w) \/ NoneDue(w) \/ NextRetry(w) \/ SkipSweep(w)

ProcessJob(w) ==
    \/ PreflightNotRunning(w) \/ PreflightRefuse(w) \/ PreflightPass(w)
    \/ Park(w) \/ Terminal(w)
    \/ AdmitSlots(w) \/ RefuseSlots(w) \/ Defer(w)
    \/ ClaimContact(w) \/ ClaimRaises(w) \/ Mint(w) \/ DialAccepted(w) \/ DialFailed(w)
    \/ FailCall(w) \/ Backoff(w) \/ CountFailure(w)
    \/ MarkCallDialing(w) \/ MarkContactDialing(w)
    \/ Throw(w) \/ ParkJob(w)

Sweep(w) ==
    \/ SweepQueued(w) \/ Requeue(w) \/ SweepActive(w) \/ Heal(w)
    \/ Refill(w) \/ RefillEnqueue(w) \/ RefillRestore(w)
    \/ CountRemaining(w) \/ CompleteCampaign(w)

Next ==
    \/ Start
    \/ \E w \in Workers : \/ MainLoop(w) \/ ProcessJob(w) \/ Sweep(w)
                          \/ Crash(w) \/ CrashScheduling(w)
    \/ KeyExpires
    \/ \E c \in Contacts : Age(c) \/ Answered(c) \/ HangUp(c) \/ RoomFinished(c) \/ WebhookLost(c)

Spec == Init /\ [][Next]_vars

\* The worker keeps looping, its sweep interval passes, parked retries come due,
\* calls end, LiveKit delivers, and rows grow old.
Fairness ==
    /\ WF_vars(StartRunning) /\ WF_vars(StartEnqueue) /\ WF_vars(KeyExpires)
    /\ \A w \in Workers : /\ WF_vars(MainLoop(w) \/ ProcessJob(w) \/ Sweep(w))
                          /\ SF_vars(ClaimDue(w))
                          /\ SF_vars(SweepQueued(w))
    /\ \A c \in Contacts : WF_vars(HangUp(c)) /\ WF_vars(RoomFinished(c)) /\ WF_vars(Age(c))

FairSpec == Spec /\ Fairness
=============================================================================
