# Formal verification of Sigulon

Sigulon is a multi-tenant platform for AI voice calls.  This directory holds
TLA+ models of the parts of it in which several processes, requests, tasks or
pages share state, the TLC configurations that check them on small instances,
and TLAPS proofs of the results that hold for every instance.  Paths below are
relative to the repository.

## 1. The system

| component | state it keeps | operations | shares state with | modules |
|---|---|---|---|---|
| Billing ledger (`packages/database/.../BillingRepository.ts`, `transactions/index.ts`) | `billing_accounts`, `credit_ledger`, `calls.costCredits` | reserve, settle, grant, ensureAccount | webhooks, voice runtime (through HTTP), operators | `CreditAccount`, `CreditLedger` |
| Campaign worker (`services/campaign-worker`) | Redis queue, retry ZSET, dedupe keys, governor counters; contact and call documents | process a job, claim retries, sweep, refill, complete | campaign start, call webhooks | `CampaignDial`, `Governors` |
| Campaign start (`api/campaigns/[id]/start`, `lib/campaign-queue.ts`) | Redis dispatch lock, contacts, campaign status | start, rollback | worker refills | `CampaignDial`, `DispatchLock` |
| Call lifecycle (`CallRepository.ts`, `api/webhooks/*`, `api/calls`, `api/internal`) | `calls`, `call_events`, `webhook_events` | state transitions, LiveKit and Plivo webhooks, single dials | billing, campaign contacts, voice runtime | `CallLifecycle` |
| Voice runtime (`voice-runtime`) | tasks of one process per job, Redis tenant counters | admission, session, teardown, post-call report | billing, calls | `VoiceSession` |
| Call configuration (`voice-runtime/config.py`, `lib/agent-config.ts`, `lib/redis.ts`) | process memory, Redis keys, agent rows | pre-warm, look up, write back | agents, test calls | `CallConfig` |
| Agents (`AgentRepository.ts`, `api/agents/[id]`, the editor and agent pages) | draft row, immutable versions, page state and timers | edit, autosave, publish, regenerate, pause | calls (what they run) | `AgentDraft` |
| Agent scripts (`lib/agent-bundle`, `packages/agent-schema`, `script-editor.tsx`, `bundle_runner.py`) | a graph of sections, a list of variables, the runner's section | edit, repair, validate, walk | agents, voice runtime | `ScriptGraph`, `ScriptEditor` |
| Agent creation (`agents/new/page.tsx`, `api/agents/generate`, `rate-limiter.ts`) | page state, limiter window | generate, edit, save | agents | `AgentCreation` |
| Browser test call (`browser-call-playground.tsx`, `test-session/route.ts`) | a session object per attempt, a room | start, end, unmount | calls | `BrowserCall` |
| Team (`organizations/members`, `auth/invitations`, `auth/signup`, `roles.ts`) | members, invitations, accounts | invite, accept, change role, remove, sign up | | `Team` |
| Campaign making (`calling/campaigns/new`, `campaign-wizard.tsx`, `api/campaigns`) | form, sheet, campaigns | fill in, read a sheet, create, start | campaign start, contacts | `CampaignDesk` |
| Instant calls (`calling/instant/page.tsx`, `POST api/calls`) | what the page says of its call | screen, meet, ring, end | contacts, do-not-call list, call lifecycle | `SingleDial` |
| Listing pages (`agents`, `calls`, `results`, `calling/campaigns`, `lib/api/*.ts`) | filter, list, open details, requests under way | choose, poll, open, change a row | every row they list | `Listings` |
| Appointments, contacts, numbers (`api/appointments`, `api/contacts`, `api/phone-numbers`, `voice-runtime/tools`) | one document per row | book, reopen; flag, upload, note; register, assign, delete | voice runtime's tools, campaign dial path | `Calendar`, `Contacts`, `Numbers` |
| Provider clients, voice helpers, sign-in, pages of figures, scripts | | pure I/O, rendering or single writes | | not modelled |

Everything runs in several processes: any number of Next.js instances, any
number of worker replicas, one voice job per call.  They meet in MongoDB (some
writes in snapshot transactions, most as single-document updates), in Redis
(atomic commands and two Lua scripts) and through webhooks that the providers
deliver at least once and in any order.  Inside a voice job asyncio tasks, and
inside a page promise continuations, timers and unmounts, interleave at every
await.

What makes each part correct, and is hard to test:

* **Billing.** A call is held at most once and charged at most once; money moves
  only with a ledger row; nothing stays held after settlement but where a settlement for
  nothing met its hold; retries of a commit whose outcome is unknown change nothing.
* **Campaigns.** A contact is dialled by one job at a time, at most
  `max_attempts` times; every contact of a running campaign reaches a terminal
  state; a campaign is completed only when it has drained; a lock is lost only to its TTL or
  to a release misled in one of two ways; every governor slot is accounted for.
* **Calls.** Terminal states are kept; redelivered and reordered webhooks count
  a call's end once; nobody is served unbilled; each served call is settled.
* **Voice runtime.** No more calls at once than the plan allows; a slot and a
  hold the job knows of are given back on every path; a caller who leaves ends
  the session; a job runs the configuration its call was made for.
* **Agents and scripts.** A page's last edit is always on its way; a version is
  the draft at one moment; edges never dangle; what the schema accepts the
  runner can walk; the model is told of the section the runner is in.
* **Workspace.** Invitations grant what was mailed, once; an owner remains; no
  unexplained overlap; flag and list agree; a number has one owner; a page
  accounts for the requests, rooms and microphones it started; a barred number is not
  called; a campaign that is made can be dialled, and a retry does not start it twice; a
  list shows what was asked for last.

## 2. Modules and plan

| step | modules | state |
|---|---|---|
| 1 | `CreditAccount` (abstract), `CreditLedger`, `CreditLedgerProofs` | done |
| 2 | `CampaignDial`, `CampaignProps`, `CampaignDialProofs` | done; single dials are in `CallLifecycle` |
| 3 | `DispatchLock`, `Governors`, `CallConfig`, composed in `RedisGuards`; `RedisGuardsProofs` | done |
| 4 | `CallLifecycle`, `CallProps`: composed with `CreditAccount` by INSTANCE; `CallLifecycleProofs` | done |
| 5 | `VoiceSession`, `VoiceProps`, `VoiceSessionProofs` | done |
| 6 | `AgentDraft`, `DraftProps`, `AgentDraftProofs` | done |
| 7 | `ScriptGraph`, `ScriptEditor`, `ScriptProps`, `ScriptProofs` | done |
| 8 | `Team`, `TeamProps`, `Calendar`, `Contacts`, `Numbers`, `AgentCreation`, `BrowserCall`, composed in `Workspace`; `WorkspaceProofs` | done |
| 8a | `SingleDial` (over `Contacts`), `CampaignDesk`, `Listings`, in `Workspace` too | done |
| 9 | the campaign's invariants under weaker schedules, proved | open |
| 10 | a voice session and a call lifecycle over one call configuration; deletion of agents and what points to them | open |

Each `MC...` module instantiates one of these for TLC; its `.cfg` files give the
constants.  The definitions follow the code's names where TLA+ allows; each module
says at its head what it leaves out.

## 3. Billing: `CreditAccount`, `CreditLedger`

`CreditAccount` is what the ledger promises: hold, charge and grant as atomic
steps, each effective once, and says what of it fails when two requests of one call
meet: a hold and a settlement for nothing may pass each other, and the hold then stays
(`HoldLate`, `ChargeBlind`, stage `stranded`).  Failed legs are settled for nothing as a
matter of course (livekit `route.ts:453`), so this is part of what is promised and of what
`CallLifecycle` builds on.  `CreditLedger` is `BillingRepository` as it runs:
every operation is a unit of work inside `withTransaction`, with a snapshot
taken at its first read, a write set, first-writer-wins conflicts, a unique
index on the idempotency key, a bounded number of retries, and a commit that
may be applied and yet be reported as failed.

| definition | code |
|---|---|
| `ledger`, `account`, `cost` | `credit_ledger`, `billing_accounts`, `calls.costCredits` |
| `Request`, `Retry` | a caller invokes reserve, settle or grant; `withTransaction` runs the work again; both take a snapshot |
| `Commit`, `CommitUnacknowledged`, `AbortTransient`, `Fail` | the ways an attempt ends: committed, committed but reported as unknown, a transient error, any other error or the death of the process |
| `Replayed` | the early returns on an existing row, and the settle row as barrier to a late hold |
| `Moved`, `NewRow`, `CostAfter` | what the work computes from its snapshot and writes |
| `Conflict`, `Duplicate` | MongoDB's write conflict on a document both transactions write; the unique index |
| `RetryOrThrow` | the loop of `transactions/index.ts` |
| `EnsureAccount` | the upsert outside any transaction |

| run | instance | properties |
|---|---|---|
| `billing_ledger` | 1 call, 3 processes, 4 requests, 2 attempts; usages 0 and 7 | `ReservedIsHeld`, `CostIsCharge`, `MoneyMovesWithRows`, `ImplementsAtomicAccount`, `BarrierUnlessTheyMeet` |
| `billing_barrier` | the same with 2 processes | `ReservedIsOpenHolds`: violated, section 10 |

Two processes are what a conflict needs and three what a conflict plus a late
barrier needs; a call has at most one hold and one settlement, so four requests
on one call reach every order of them with a replay, and calls share nothing but
the account, which grants write too.  The usages are nothing and more than the
estimate of 5, so that a settlement refunds in one case and overruns in the other.
The number of requests is bounded, so these runs end: deadlock is not checked in them.

`ImplementsAtomicAccount` maps `stage` from the call's rows and `meeting` from the open
transactions: a call is in `meeting` while one of them has missed a hold or a settlement
of it.  `BarrierUnlessTheyMeet` says what is left of the barrier that
`BillingRepository.ts:99-101` describes: a hold stays behind its settlement only if the
settlement charged nothing and the later of the two had taken its snapshot before the
earlier committed.  A hold that starts after the settlement is refused.

## 4. Campaigns: `CampaignDial`, `CampaignProps`

One campaign from draft to completed.

| variable | code |
|---|---|
| `campaign`, `contact` | `campaigns.status`; `callStatus` and `attemptCount` of the contact rows |
| `aged` | the rows whose `lastAttemptAt` (or, without one, `createdAt`) is before the sweep's cutoff |
| `calls` | the call rows minted for a contact: status, the `fail_reason=stale_sweep` tag, and the LiveKit room (`none`, `live`, `ended`, `reported` once its `room_finished` was handled or lost) |
| `queue`, `retries`, `parked` | the Redis list, the retry ZSET, the retry dedupe keys |
| `web` | the start request between its database and Redis round trips |
| `worker[w]` | where replica `w` is in `run()`, `_process_job` or `sweep_campaign`, with that code's local variables (`todo`: the retries it claimed; `rows`: the rows the sweep listed) |
| `env` | how many refusals, raised errors, crashes and lost webhooks may still occur |

A replica's `pc` follows the code: `pop`, `claim`, `free`, `retries` and `sweep` are
`run()`; `preflight` to `park_job` are `process_job`; `requeue`, `heal`, `refill`, `count`
and `complete` are the sweep.  `back` is where a job returns to.  The order of
writes is the code's: a refused job is parked before the contact is rewritten, a
failed dial parks the retry before it counts the failure, the start marks the
campaign running before it pushes.

Abstractions, each named in the module:

* Time.  A parked retry may come due at once; a row ages at any time.  A job is
  processed in less than the 15 minutes of `stale_after_seconds`, so a row does
  not age while a worker has its job in progress.
* `Orderly`.  When TRUE the queue is served within the cutoff (a contact ages only
  when no job for it waits anywhere), a retry parked for a minute outlasts the step
  that parked it, and a call outlasts the two writes that record it.  When
  FALSE none of this is assumed.
* `OldRows`: contacts were imported more than the cutoff before the start.
* `FailedRoom`: whether a failed dial leaves nothing or a room that will report its
  end.  `Faulty`: the steps at which a database call raises.
* The preflight reads are one step, and so is the `room_finished` handler.  Its
  call counter and its settlement are left to `CallLifecycle` and `CreditLedger`.
* Four more things are one step each that are several round trips in the code, so that
  nothing else is seen to happen between them: the start's reads and its claims
  (`StartClaim`); the refill's checks, its lock, its second check and its claims (`Refill`);
  parking a requeued row's job and writing the row (`Requeue`, `worker.py:423-432`); reading,
  failing and mirroring one stale row's call (`Heal`, `worker.py:548-568`).  The lists the
  sweep works through are still snapshots taken earlier.  For the first two the dispatch
  lock is taken to exclude; section 5 says when it does.
* A claim whose database call raises is taken for a race that was lost, and the job is
  dropped, whether or not the row was claimed (`ClaimRaises`, `store.py:715-716`).  It happens
  where `Faulty` has `claim_contact`, as in `campaign_backlog`: the sweep is what finds such a
  row again.  `campaign_converges` takes no raised errors.
* A dedupe key is not outlived by the job it stands for: its TTL is the delay
  plus an hour (`KeyExpires`).  `schedule_retry` failing open when Redis rejects the
  SET is left out.
* A contact skipped for consent or an unparseable number is treated like one that
  is barred.  `calling`, `ringing` and `answered` are written to no contact.

Runs and bounds (`maxAttempts` is 2 throughout: one retry, then exhaustion; pages of
one contact, so that two contacts already need a refill):

| run | instance | properties |
|---|---|---|
| `campaign_orderly` | 2 contacts, 2 replicas; 2 refusals, 1 rejected page, 1 lost webhook; orderly | `OneAtATime`, `CompletedIsDrained`, `NeverReopened` |
| `campaign_backlog` | 1 contact, 1 replica; old rows, late queue, failed rooms that report, an error at the claim or the mint, 1 crash, 1 lost webhook | `DialsWithinMax`, `RetriesDeduped` |
| `campaign_converges` | 3 contacts, one barred, 1 replica; 1 refusal, 1 lost webhook; fair | `Converges` |

Two replicas are the smallest number that race; two contacts the smallest in
which one page waits for another.  Replicas are symmetric in the safety run.  The
conditions of the passing runs are the ones under which the properties hold:
dropping them gives the violations of section 10, so they are part of what the
runs show.

Fairness (`Fairness` in the module), for `Converges` only: the start request goes on;
each replica keeps looping (`main.py` has no other exit than a stop) and, infinitely
often, finds its due retries due and its sweep interval passed (strong fairness
of `ClaimDue` and `SweepQueued`, since both are skipped while time has not come);
calls end (`max_call_seconds`), LiveKit delivers webhooks it does not lose, rows
grow old.  Nothing is assumed of the outcome of a dial, nor of the governors:
they refuse as often as the budget lets them.

`campaign_doubledial` is a violation run; see section 10.

## 5. What the services keep in Redis: `RedisGuards`

`RedisGuards` puts three models side by side: different keys, no operation on
two kinds, so a behaviour uses one of them.

* **`DispatchLock`**: the lock that start requests (TypeScript) and refills
  (Python) share.  A start keeps its token in a map of its process keyed by
  campaign, so `tokens[p]` is overwritten by the next start in the same process;
  its release is one Lua script.  A refill's release is a GET and a DELETE, two
  steps.  Any lock may expire under its operation at any time; an operation
  that fails to acquire does nothing more.  `Exclusive`: two operations dispatch at once
  only if one of them lost its lock, to the TTL or to the release of an operation that had
  lost its own before and was misled in one of two ways: a refill deletes what it has not
  read again, and a start takes the token that another start left in their process.  Both
  do happen (section 10); no other release ever removes another's lock.  `robber` and
  `lapsed` are history.  `CampaignDial` takes the lock without expiry as its `LockFree`
  guard, so what it shows is of starts and refills that end within their lock's TTL.
* **`Governors`**: the worker's slot counters (`queueing.py:88`, `worker.py`), one
  per layer, taken by one Lua script in all layers or in none, given back by a
  dial that does not come about, and otherwise left to the TTL.  `DialsGoverned`: a
  counter holds exactly the dials under way and the slots left to the TTL, within
  its limit, and always with a TTL, unless the key expired under a dial.  A dial
  may be killed between admission and release; its slot then rides the TTL, which
  every other admission starts again.
* **`CallConfig`**: which configuration a voice job runs with.  The web pre-warms a
  Redis key under the id of the call; the job takes the one its process remembers
  (`config.py:183`), or the key, or reads the agent's row and writes it back.
  `ConfigIsCalls`: a job never runs another call's configuration or an older
  revision than the one its call was made with; a test call never runs without
  what the member asked for, unless Redis lost the key or failed.

| run | instance |
|---|---|
| `redis_guards` | 3 starts in 2 processes and 2 refills, any of which may outlive its lock; 3 dials in the counters of an organisation (limit 2) and 2 numbers (limit 1), one kill or hold-up, two tries each; 2 calls (a test, and one of any other kind), 3 jobs in 2 processes, 2 revisions, 2 Redis faults |

Three dials are what it takes to fill an organisation's counter and a number's
by different dials; two jobs in one process are what it takes to read another
job's memory.  Any operation may stop for good where it is, so deadlock is not
checked.

## 6. Calls: `CallLifecycle`, `CallProps`

One call from dial to settled bill, composed with `CreditAccount` by `INSTANCE`, so that the
billing it uses is the one section 3 shows the ledger to implement, with settlements for
nothing.  `late` are the webhooks whose reserve or settlement has missed another's of the
same row: LiveKit's `agent_dispatch_failed` settles for nothing while `room_started` or
`participant_joined` may be reserving (`route.ts:285`, `route.ts:453`).  An agent's requests meet
no such settlement, since none was dispatched to that row.

| variable | code |
|---|---|
| `call`, `terminal` | the row of `calls`; the `terminal:<id>` rows of `call_events` |
| `hook` | `webhook_events`: the claim a handler makes before it works |
| `inbox` | what LiveKit and Plivo go on sending until they get a 2xx |
| `job[e]` | the handler working on event `e`, between its awaits |
| `dial[q]` | `POST /api/calls` with an idempotency key, or the worker's two writes |
| `runtime[r]` | the voice agent: reserve ping, talk, settle ping |
| `sweep` | what the campaign sweep read of the call, until it has acted on it |
| `contact`, `counted`, `stage`, `balance` | the contact, the campaign's counter, the account |

`Origins` says how a call came about, because that decides how a webhook finds its row
(the module's head lists the six).  Every event may be delivered again and in any
order; a handler may fail after any write, lose its answer, or die.

`calls`: every origin, two rows, two dial requests under one key, `MaxFaults` = 1.  One
fault at every place is what the code is written for (the two settlements cover
for each other); the properties that speak of faults say what one may cost.
Nothing is assumed fair: every behaviour is finite, `Rest` is the only stutter and
is allowed in `Quiet` states only, so that the deadlock check shows every behaviour to
reach `Quiet`, and `SettledWhenServed` and `FinishedWhenQuiet` say what is true there.  This is how
"eventually" is said in this run and the next.

`AdmittedIsBilled`: nobody is served unbilled.  `CountedOnce`: redelivery counts an end
once.  `TerminalKept` names the two writers that may change a terminal status: the recovery
of a call the sweep had failed, and the campaign's own dialer and sweep, which overwrite
what they find; no webhook is excused with them.
`SettledWhenServed`: a served call is settled after any single failure.
`FinishedWhenQuiet`: without a fault no hold, no uncounted call, no open inbound row
is left, in any order of events, except that the hold of a call no agent took may have met
its release and stay (`stranded`).

## 7. A voice job: `VoiceSession`, `VoiceProps`

The jobs of one tenant.  Each is four asyncio tasks that start, await and cancel
one another: the owner (`agent.py`), the task that closes the media, the cleanup that
gives slot and hold back (`lifecycle.py`), the shutdown callback.  Every await is a step;
a command that is cancelled or fails may have been applied.  `slots`, `expires`, `counted`
and `seen` are the tenant's counter: INCR, the EXPIRE that follows it, and the DECR that a
refusal or the cleanup sends.  The post-call report and the recording's end are the
handlers of the control plane, beside the job.

`sessions`: 2 jobs on a limit of 1, one of them recorded, one fault (a lost ping, a
Redis error or a killed process), a counter that may expire at any time.  A limit of
1 and two jobs are enough for a spurious refusal, for an admission during another's
release, and for the DECR that finds the counter gone.  As for calls, every
behaviour is finite and must stop in a `Quiet` state.

`WithinLimit`: admission keeps to the plan unless the counter expired under a call.
`SlotsReturned`: the slots left are at most as many as the jobs that were cancelled inside
the commands of their admission (`torn`: the INCR, the EXPIRE, or the DECR of a refusal was
on its way); a job cancelled before, in its session or during teardown leaves none.  `KnownHoldSettled`: refused, served,
timed out or shut down.  `CallerGoneEnds`: also a caller who left before the job knew
whom to wait for.

## 8. Scripts and drafts

**`ScriptGraph`, `ScriptEditor`, `ScriptProps`.**  A script is a sequence of sections
`[key, order, enabled, edges]` and a list of variables; prose is left out, and with it the
rules about wording and language.  `Valid` is the schema's rule set (`lib/agent-bundle`),
`ValidInPackage` the one of `packages/agent-schema`; `Generated` is repair and synthesis of what
the language model gives, `Migrated` the migration.  The editor has one action per
control.  A call copies an accepted script and walks it: tool calls may be made
together and name any section, a lock runs them in turn, and each changes the
section first and the model's instructions next.

`scripts`: every script the product makes from four raw ones (a loop with a repeated key and
a dangling edge, a section nothing leads to, an order that differs from the
document's, a straight line), up to 5 sections, 3 edits, 2 tool calls.  Three edits reach
delete, add and rewire in any order, which is what a duplicate key or a
dangling edge takes.  The user may stop editing: deadlock is not checked.

`TypeOK` holds the graph's own invariant: edges never dangle while there is a close.
`RunnerCoversScript`: schema and runner find entry and edges by different rules and agree.
`ToldIsCurrent`: the model never acts on another section's instructions.
`NeverBothValid`: no script passes both rule sets, so the validate route refuses whatever may be
stored.

**`AgentDraft`, `DraftProps`.**  One agent's row, its versions, the editor pages with
their autosave timer and requests, the agent page, pause and regenerate, each of
which reads the row and writes back later; publishing is a transaction.

`drafts`: 2 pages, 2 edits (one script invalid), 2 clicks, 1 lost request; pages are
symmetric.  `EditsCarried`: an edit that is not yet saved is in the timer or in a request on
its way, or went with a save that failed or was lost (`dropped`), which no code tries again.
`PublishAfterSave`: a publish waits for the answer of its save.
`VersionsAreSnapshots`: a version is the row when it appears, numbered in sequence.

## 9. The workspace: nine books

`Workspace` puts eight models side by side; one of them, `SingleDial`, extends `Contacts`,
since its calls read what the requests on the contact write.  The eight share no state
and no request writes two, so a behaviour uses one; nothing that they could do together
is missing.

| module | the interleaving | property |
|---|---|---|
| `Team` | requests that read roles and owners and write later; invitations resent, expired, mailed and accepted in two tabs; a signup cut between account and workspace | `GrantedAsMailed`, `OwnerRemains`, `Housed` |
| `Calendar` | the form and the agent's tool look, then insert, by different rules | `OverlapsExplained` |
| `Contacts` | the flag and the do-not-call list are two writes; a lead is read and written back | `ContactAgrees` (`FlagMatchesList`, `NotesKept`) |
| `SingleDial` | a call's screening reads list and flag side by side while both are written; the page waits for an answer that comes with the callee, late or never | `BarredNotCalled`, `CallsShown` (`CallShown`) |
| `Numbers` | a number is looked for, then registered; rows are reactivated by hand; agents go | `NumberOwned` |
| `AgentCreation` | a stream, its fallback, the limiter, two saves before the page is left | `MadeAsAsked` (`CreationAnswered`) |
| `CampaignDesk` | the page and the wizard create, store, make and start in turn, each step answered, refused or lost; the agent is deleted meanwhile | `MadeAsAsked` (`Diallable`, `SheetStartedOnce`) |
| `BrowserCall` | start, end, the room's events and the unmount, each awaiting the others' requests | `CallsShown` (`CallAccounted`) |
| `Listings` | filters, polls and waiting handlers each ask anew; answers come in any order, and rows change meanwhile | `PagesTold` (`ListIsNewest`, `DetailsKept`) |

Where the code keeps no promise of its own (two owners who demote each other at once,
two bookings checked before either is inserted, a number registered twice at once, two
answers in the wrong order, a retry after a lost answer), the property names exactly that
cause, by a history variable, and excludes every other.  In the new books these are:

* `BarredNotCalled`: two requests that are half through setting the flag while a number is
  screened (`flags`) can hide a bar from both reads; one alone cannot, nor can any
  order of a finished one.
* `CallShown`: End Call ends the call on the page only, and an answer may be lost while
  the call goes on; an error answered while the callee rings counts as lost.
* `SheetStartedOnce`: the wizard keeps sheet and button after an error, so a campaign that runs
  without the wizard being told so (`untold`) and a second click give two from one sheet.  The
  answer of the start was lost, or the start failed after it had set its campaign running
  (`start/route.ts:221`) and is answered 500 (`route.ts:265-269`).
* `ListIsNewest`: no page but the team's drops an older answer (`outdone`), a handler that waited asks
  under the filter it was clicked with (`strayed`), and one whose answer is lost throws before
  it asks again (`unheard`).

In `Listings` one model serves five pages: `view` is the page that is open, and each page has
its own actions for what it lists, filters, polls and lets its reader do.  A row is a status and
whether there is a recording; a failed question is an empty list, as in `lib/api`.
`SingleDial` has one action per await of `POST /api/calls`; what becomes of the row, its money
and its webhooks is `CallLifecycle`'s.  `CampaignDesk` ends where `CampaignDial` begins.

`workspace`: 3 people, 2 requests and 2 tabs, 2 tokens, 3 requests of the team page, 1
signup; windows that overlap, one across midnight and one that ends before it begins, 2
bookings (an overlap is between two), 1 change; 3 requests on a contact with 3 notes, and
one call to it (`MaxDials`); 2 workspaces, 3 registrations, 2 updates; a limit of 2
generations, 2 asked, 2 saves, 1 lost answer; 2 call sessions with 2 faults; 1 number, 2
sheets and 2 orders of campaigns (`MaxOrders`), each of which may be lost; 2 rows, one a
contact and one with an address of its own, 3 questions (`MaxSent`), 1 change by others
(`MaxMoves`), 2 clicks (`MaxClicks`), questions times clicks and changes at most 4 (`MaxTurns`).  Three questions
are what it takes to ask, to ask otherwise, and to be asked by a handler that waited; every
excuse of a property, and every case it speaks of, is reached within these bounds.  A second instant
call races with the first only on the page, where `callStatus` admits one at a time; the
theorem covers any number.  Viewers are told apart from members by no rule of the
team's requests, so the asked roles are member, admin and owner.  People other than
the founder, requests and tabs are symmetric.  Users may stop: deadlock is not
checked.

## 10. Where code and documents disagree

Checked by a run:

* `campaign_doubledial`: a contact without `lastAttemptAt` counts as stale by its
  creation time, and the start does not stamp it.  The sweep makes a second job;
  a slot refusal writes `queued` over a contact that is in a call
  (`worker.py:224`), against `worker.py:232-234`.
* `billing_barrier`: a settlement of 0 for a call without a hold writes no document that a
  late reserve also writes, so both commit and the hold stays (`BillingRepository.ts:102`),
  against `BillingRepository.ts:99-101`: "A late hold after settlement would strand credits
  forever, so the durable settle ledger is the ordering barrier."  The passing runs and the
  theorems are of the code with this in it.

Seen while modelling; each is kept out of the passing runs by a named condition, and
no run checks it:

* Retries claimed from the set and not yet processed are lost by a stop
  (`main.py:131-133`), against `worker.py:6-9`: `Converges` takes a worker that is not
  stopped.
* The end of a failed dial's room completes the contact and its retry is dropped
  (livekit `route.ts:373-386`), against `docs/campaigns.md:50-52`: `FailedRoom`.
* A sweep that acts on an old list overwrites `completed` with `failed`
  (`worker.py:568`), against `docs/campaigns.md:11-12`: `Orderly`.
* The refill's GET and DELETE can remove another dispatcher's lock
  (`queueing.py:64-65`), against `queueing.py:46-47`; and two starts served by one process
  share one token (`campaign-queue.ts:82`), so that the first, its lock expired, releases
  the second's, against `campaign-queue.ts:59-63`.  Both are in `DispatchLock`, and `Exclusive`
  names them (`Misled`).
* A start that fails after it set the campaign running (a lost reply to the update, the
  check for completion, the rollback itself) is answered 500 with the campaign running
  (`start/route.ts:221-269`); the wizard's retry makes and starts another: `untold`.
* A web dial asks for RINGING from QUEUED, which `VALID_TRANSITIONS` does not have
  (`CallRepository.ts:12`), and `transitionState` says nothing: the row of a dial that was
  accepted stays QUEUED to the end, since neither ANSWERED nor COMPLETED is reached from
  there.  `Transition` is modelled as it is, so the runs include it, and `FinishedWhenQuiet`
  says of web rows that they are settled, not that they have ended.
* The voice runtime refuses a call whose first hold is not covered and deletes its
  room, where `docs/billing.md:28-31` says a live answered call is never dropped.
* The two rule sets for scripts accept disjoint sets (`NeverBothValid`).
* The editor's footer says all edits are saved while an edit made during a save
  waits in the timer (`edit/page.tsx:496`); a save that fails before a publish is
  swallowed and the older draft is published as a success.
* The limiter's comment says sliding window, the code is a fixed one
  (`rate-limiter.ts:9`).
* A room whose start request is answered by nothing is closed by its empty timeout
  only; `browser-call-playground.tsx:109-110` says no room can be orphaned by a cancellation.

* `GET /api/calls` takes no direction, so the page's filter of that name changes nothing, and
  it compares the outcome kept, of which "completed" is shown as qualified.
* `toggleCampaignStatus` and `updateLead` change a copy in the page and save nothing
  (`lib/api/campaigns.ts`, `lib/api/leads.ts`): Pause pauses nothing, and a lead is hot until
  its details are opened again.
* The new-campaign page always sends `contacts: []`, which the route refuses, so its Launch
  never makes a campaign; the wizard, which no page mounts, does.
* The instant page's End Call does not hang up, and the lead it then creates is refused
  because the call has made the contact: "Call Ended & Outcome Saved" says neither truly.  A
  fresh `Idempotency-Key` per click means that a retry after a lost answer dials again.
* A failed request lists nothing, as if there were no rows.

## 11. What is proved

All proofs are for every value of the constants, under the named assumptions of
the modules.

* **Billing** (`CreditLedgerProofs`).  The inductive invariant is
  `TypeOK /\ RowInv /\ ReservedIsHeld /\ SnapInv(p)` for every process: rows determine
  what was moved, the reserved balance is the sum of the unreleased holds, a
  process's snapshot is consistent in itself, and as long as nobody has written the
  account since, it equals the present one.  From it follow type correctness,
  `ReservedIsHeld`, `MoneyMovesWithRows` and `CostIsCharge`; and, for any usages, nothing
  included, `BarrierUnlessTheyMeet` and that `CreditLedger` implements `CreditAccount`.  A
  hold and a settlement that charges or releases anything both write the account, so the
  later of two that overlap conflicts; what is left is the settlement for nothing.
* **Campaigns** (`CampaignDialProofs`), in three parts.
  `RetriesDeduped` holds of every run.  It is not inductive: between the ZREM of a claim
  and the DELETE of its key another path might park a job under the key, and the late
  DELETE would strip it.  The strengthening `HeldInv` says that keys about to be freed are
  still set, belong to no parked job and to one worker only.
  `OneAtATime`, `CompletedIsDrained` and `NeverReopened` are proved of an orderly campaign
  (`Regime`: the constants of run `campaign_orderly`, but any contacts, replicas, page
  sizes, refusals, rejected pages and lost webhooks).  Without it they are false: that is the
  run `campaign_doubledial`.  `CampaignInv` says who owns a contact: its job is in the
  list, parked, or with one worker; what a worker holds agrees with the row at each of its
  program points; a claim of a batch covers only contacts nobody has touched; and a row
  does not go stale while its job is about, so the sweep never makes a second.
  `DialsWithinMax` is proved of an orderly campaign, and (`Alone`) of one replica under
  any schedule, with old rows, crashes, errors at the claim and the mint and lost webhooks, if the
  governors never refuse and the sweep's default maximum is not above the campaign's: the
  constants of run `campaign_backlog`.  `DialInv`: every call is counted in the row before
  the row can be claimed again, and no job allows more than the campaign.
* **Calls** (`CallLifecycleProofs`).  `CallInv` is inductive for any rows, requests, Plivo
  statuses and faults.  Beside the types it says which handler can be where for each origin
  (`JobsKnown`, `OriginsKnown`, `RowsKnown`, `DialersKnown`), that the end of a row is taken up
  by one handler only, even when it is delivered again (`EndsOnce`), what the sweep may still
  believe (`StaleKnown`), and, as long as nothing has failed or the one fault struck only the
  session that served the call, what is still to come for everything unfinished
  (`Intact`, `Whole`, `SettledAtEnd`, `CountedAtEnd`, `InboundEnds`).  `CountedOnce` and
  `AdmittedIsBilled` follow for any number of faults; `SettledWhenServed` for `MaxFaults <= 1`
  (two faults can take the agent's settlement and the webhook's); `FinishedWhenQuiet` if Plivo
  reports any status at all (`Statuses # {}`).  `CrossingsKnown` says which requests can have
  missed each other: one reserves, the other releases, and the row had no agent.  `TerminalKept` is proved step by step, and so is
  `CallAccounts`: the lifecycle implements `CreditAccount` with 0 among its usages, as the
  ledger does.
* **Dispatch lock** (`RedisGuardsProofs`).  `Exclusive`, for any operations and processes,
  whatever outlives its lock.  The invariant says that an operation that dispatches has the
  lock, or has lost it to the TTL or to a robber (`HasLock`); that a robber had lost its own
  and was misled (`Robbers`); and that a token is remembered, or about to be compared with,
  only in the process it was drawn in (`TokensOfProcess`).
* **Governors and configurations** (`RedisGuardsProofs`).  `DialsGoverned` is inductive
  with the types of its variables; the work is in the cardinalities.
  `ConfigIsCalls` follows from `ConfigInv`: everything that is kept for a call, in Redis, in
  a process's memory or in a job between two awaits, fits that call (`KeptFits`);
  nothing is kept before the web made the call (`NothingYet`); and a test that has a
  job has its key, or Redis failed it (`TestKept`).
* **Voice jobs** (`VoiceSessionProofs`).  The counter alone does not bound admissions: two
  jobs may have seen the same value, one before and one after another's DECR.  `Ranked` is
  what does: in every set of counted jobs one has seen a counter at least as high as
  the set is large.  Since who was admitted saw at most `Limit` and is counted as long as
  it uses the slot (`Covered`), `WithinLimit` follows.  `SlotsReturned` follows from `Exact`: while
  nothing has failed, the counter is the number of jobs it counts, and each of them still uses
  its slot or was cancelled while it was being counted.  `KnownHoldSettled` and `CallerGoneEnds` follow
  from `Settled` and `Noticed`.
* **Drafts** (`AgentDraftProofs`).  `DraftInv` follows each edit: what a page shows is in its
  timer or in a save on its way, or was written or refused (`Kept`); a save that is to
  publish is the one the page waits for (`SavesKnown`); the row is what was written and
  counts its versions (`RowKnown`).  `EditsCarried` and `PublishAfterSave` follow, and
  `VersionsAreSnapshots` from each step of a publish.
* **Scripts** (`ScriptProofs`).  `ScriptInv` says what every page holds, whatever was loaded,
  repaired or edited: sections whose edges lead to sections of the page or to the close, the
  FAQs among them and terminal (`IsWired`); a list of variables with exactly one phone, of
  key `phone` (`HasOnePhone`); and for a call, sections that are in the script, none while
  the page is edited, and `ToldIsCurrent`.  `TypeOK` follows (`ScriptTyped`), for all raw
  scripts.  It rests on what repair gives (`RepairIsPage`) and what validity gives
  (`ValidIsPage`), and these on the places a filter picks being numbered in order by their
  rank (`RanksNumber`, `PickedIs`).  `NeverBothValid` follows from the rules: one
  wants terminal FAQs, the other a terminal close and nothing terminal before the last
  section.  `RunnerCoversScript` takes induction over the two recursive searches, done on
  sets of numbers (`Inductive`): the orders of an accepted script are a permutation, so
  both searches start at the section of order 1, which is not the FAQs, or nothing else
  would be reached (`NotFromFaqs`); and each step of the walk finds what the schema's finds
  without the FAQs (`StepAgrees`).
* **Team** (`WorkspaceProofs`).  `GrantedAsMailed` rests on `TokensOnce` (a token stands for one
  pending row or for none, and for none that was used) and `TokenMeaning` (mail, and the
  request that is about to send it, name what the row grants).  `OwnerRemains` needs that a
  judged request has counted more than one owner and that, unless requests raced, whoever has
  an invitation is no member.
* **Appointments and numbers** (`WorkspaceProofs`).  `OverlapsExplained` carries over from the look
  to the insert: what was free when it was checked stays free, but for what has
  been reopened (`StillFree`).  `NumberOwned`: a clerk who found no row saw none active.
* **Contacts, creation and test calls** (`WorkspaceProofs`).  `ContactAgrees`: a request between
  its two writes knows which it has made, and a lead that found the contact still finds it
  (`JobShape`).  For `BarredNotCalled` that is not enough: list and flag are read at different
  times, so what has been seen of one must be tied to what the other was.  `Watch` (of `DialInv`) does
  so by counting the requests that were half through since the click: with none, whatever
  bars the number has been seen if it was read; with one, either the list or the flag has
  barred it all the time and is what was or will be read, and a flag set behind the reader
  was set by that request, which will write the list.  `CreationAnswered`: there are as many agents as saves that made one, and of the
  saves that did or still may at most one is not explained by a lost answer or by a second
  click (`SavesExplained`).  `CallAccounted`: each handle of a session is behind what its requests
  have done (`Handles`), and a session that is let go of has let go of its media (`LetGo`).
  `CallShown` follows from `Shown`: only the last request of the page can be waiting or told.
* **Campaign making** (`WorkspaceProofs`).  `DeskInv`: an order that got on has numbers, stored before
  it is made (`OrdersInOrder`); the wizard waits for one order at a time, made from the sheet it still
  shows (`WizardWaits`); and a sheet of which a campaign runs is either about to be
  told so, gone from the wizard, or one of which the wizard was not told (`SheetsSpent`).  `DeskHolds` and, with
  `CreationAnswered`, `MadeAsAsked` follow.
* **Listing pages** (`WorkspaceProofs`).  `PagesTold` rests on `ListingsInv`: questions are numbered in the
  order they were asked (`Numbered`), the newest is under way or shown (`NewestAsked`) and asks for what is
  chosen (`AskedAsChosen`), and the page's last change is still to be asked for by its
  handler, is asked for by the newest question, or is in the list (`ChangeAsked`).

Assumptions on the constants that only the proofs need: contacts of a campaign are
finitely many; `NoTimer` and `NoContact` are none of the values they stand beside; a raw script
is a list of sections and one of variables with the fields the schema names.

`CreditLedger`'s type invariant is proved (`TypeCorrect`) and in no run.  Only model-checked: `Converges`,
liveness under fairness.  No fact about what a fold or
`SelectSeq` returns can be proved here for lists of every length, so filters are written over
places (`Picked`) instead; `Deduped`, whose result no theorem needs, stays a fold.

## 12. Not modelled

* `withTransaction` without a replica set runs the work with no transaction; the
  models assume a replica set, as `docs/deployment.md` requires.  The
  `UsageRecord` branch of settlement has no caller that uses it.
* What LiveKit's library keeps of an update of instructions that fails or is cancelled: the
  runner goes back to its section (`bundle_runner.py:189-193`), and `UpdateFailed` takes the
  session to be back on its old instructions too.
* Leaving the instant page during a call, and what is shown when it is opened again.
* That a start which is rolled back was running for a moment: `CampaignDesk` shows its
  campaign as never started (`CampaignDial` has both steps).
* The limit of five crashes per job, and pausing a campaign (no code writes
  `paused`).
* What LiveKit does with a dial that the worker abandons after its timeout.
* Call configuration: the test session's lost answer of `createDispatch`; what the
  Mongo path drops (tools, subagents) and the default limit of a pre-warmed one.  One limit per
  tenant is modelled.
* A voice job's slot counter in local development, which is process memory.
* Deleting agents and the unused `PUT`; the LiveKit trunk of a number, best effort in the code.
* Requests to providers and their formatting, speech, prompts, rendering, the pages of
  figures, billing and settings, the search box and agent filter of the lists, sign-in sessions, password resets and one-off scripts: pure I/O or
  single-document writes of one user.
