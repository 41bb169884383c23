------------------------- MODULE CampaignDialProofs -------------------------
(***************************************************************************)
(* What the campaign pipeline keeps, for any contacts, workers and limits. *)
(*                                                                         *)
(* 1. In every run, whatever the schedule and the faults: the retry set    *)
(*    holds one entry per contact and attempt, and its dedupe key is set.  *)
(*    That is not inductive by itself.  A worker that has removed jobs     *)
(*    from the set still has to free their keys, and what it frees must be *)
(*    its own: if another path could park a job under such a key           *)
(*    meanwhile, the late DELETE would leave that job without one.         *)
(*                                                                         *)
(* 2. In an orderly campaign (Regime): one job and one call at a time, a   *)
(*    completed campaign is drained, and no contact is opened again.  All  *)
(*    three follow from who owns a contact's job (CampaignInv).            *)
(*                                                                         *)
(* 3. In an orderly campaign, and with one replica in any: no contact is   *)
(*    dialled more often than its campaign allows, because each call is    *)
(*    counted in the row before the row can be claimed again (DialInv).    *)
(***************************************************************************)
EXTENDS CampaignProps, FiniteSetTheorems, FunctionTheorems, SequenceTheorems, TLAPS

\* the keys a worker is about to free
Held(w) == IF At(w, "free") THEN Keys(worker[w].todo) ELSE {}

Fields == {"pc", "back", "job", "attempts", "call", "verdict", "todo", "rows"}

\* A worker's local variables are a record with the fields of Idle; no job is
\* taken up in the middle of freeing keys, so none returns there.
Local(r) == DOMAIN r = Fields /\ r.back # "free"
Shape == DOMAIN worker = Workers /\ \A w \in Workers : Local(worker[w])

\* Held keys are set, belong to no parked job, and to no other worker.
HeldInv ==
    /\ \A w \in Workers : Held(w) \subseteq parked
    /\ \A w \in Workers : Held(w) \cap Keys(retries) = {}
    /\ \A v, w \in Workers : v # w => Held(v) \cap Held(w) = {}

KeyInv == RetriesDeduped /\ HeldInv

\* a step of w to a place where it holds no key
LocalStep(w) ==
    \E r : Local(r) /\ r.pc # "free" /\ worker' = [worker EXCEPT ![w] = r]

-----------------------------------------------------------------------------
\* Parking a job adds at most its own key, and only one that was free.
LEMMA ScheduleKeeps ==
    ASSUME NEW job, Schedule(job), KeyInv
    PROVE  /\ RetriesDeduped'
           /\ parked \subseteq parked'
           /\ \A w \in Workers : Held(w) \cap Keys(retries') = {}
<1>1. CASE DedupeKey(job) \in parked
  BY <1>1 DEF Schedule, KeyInv, HeldInv, RetriesDeduped
<1>2. CASE DedupeKey(job) \notin parked
  <2>1. /\ retries' = retries \cup {job}
        /\ parked' = parked \cup {DedupeKey(job)}
    BY <1>2 DEF Schedule
  <2>2. Keys(retries') = Keys(retries) \cup {DedupeKey(job)}
    BY <2>1 DEF Keys
  <2>3. \A j \in retries : DedupeKey(j) \in parked
    BY DEF KeyInv, RetriesDeduped, Keys
  <2>4. \A i, j \in retries' : DedupeKey(i) = DedupeKey(j) => i = j
    BY <1>2, <2>1, <2>3 DEF KeyInv, RetriesDeduped
  <2>5. Keys(retries') \subseteq parked'
    BY <2>1, <2>2 DEF KeyInv, RetriesDeduped
  <2>6. \A w \in Workers : Held(w) \cap Keys(retries') = {}
    BY <1>2, <2>2 DEF KeyInv, HeldInv
  <2> QED
    BY <2>1, <2>4, <2>5, <2>6 DEF RetriesDeduped, Keys
<1> QED
  BY <1>1, <1>2

\* Such a step leaves what the other workers hold alone.
LEMMA LocalStepHolds ==
    ASSUME Shape, NEW w \in Workers, LocalStep(w)
    PROVE  Shape' /\ \A v \in Workers : Held(v)' \subseteq Held(v)
<1>1. PICK r : Local(r) /\ r.pc # "free" /\ worker' = [worker EXCEPT ![w] = r]
  BY DEF LocalStep
<1>2. DOMAIN worker' = Workers /\ worker'[w] = r
  BY <1>1 DEF Shape
<1>3. \A v \in Workers \ {w} : worker'[v] = worker[v]
  BY <1>1 DEF Shape
<1>4. Shape'
  BY <1>1, <1>2, <1>3 DEF Shape, Local
<1>5. Held(w)' = {}
  BY <1>1, <1>2 DEF Held, At
<1>6. \A v \in Workers \ {w} : Held(v)' = Held(v)
  BY <1>3 DEF Held, At, Keys, DedupeKey
<1> QED
  BY <1>4, <1>5, <1>6

\* Moving on frees no key.
LEMMA GotoIsLocal ==
    ASSUME Shape, NEW w \in Workers, NEW pc, pc # "free", Goto(w, pc)
    PROVE  LocalStep(w)
<1> DEFINE r == [worker[w] EXCEPT !.pc = pc]
<1>1. DOMAIN worker[w] = Fields /\ worker[w].back # "free"
  BY DEF Shape, Local
<1>2. DOMAIN r = Fields /\ r.pc = pc /\ r.back = worker[w].back
  BY <1>1 DEF Fields
<1>3. worker' = [worker EXCEPT ![w] = r]
  BY DEF Goto
<1> HIDE DEF r
<1> QED
  BY <1>1, <1>2, <1>3 DEF LocalStep, Local

\* Giving a job up frees no key.
LEMMA ReturnIsLocal ==
    ASSUME Shape, NEW w \in Workers, Return(w)
    PROVE  LocalStep(w)
<1> DEFINE r == [Idle EXCEPT !.pc = worker[w].back, !.todo = worker[w].todo]
<1>1. worker[w].back # "free"
  BY DEF Shape, Local
<1>2. DOMAIN r = Fields /\ r.pc = worker[w].back /\ r.back = "pop"
  BY DEF Fields, Idle
<1>3. worker' = [worker EXCEPT ![w] = r]
  BY DEF Return
<1> HIDE DEF r
<1> QED
  BY <1>1, <1>2, <1>3 DEF LocalStep, Local

\* Taking a job up frees no key.
LEMMA BeginIsLocal ==
    ASSUME Shape, NEW w \in Workers, NEW job, NEW back, NEW todo,
           back # "free", Begin(w, job, back, todo)
    PROVE  LocalStep(w)
<1> DEFINE r == [Idle EXCEPT !.pc = "preflight", !.back = back, !.job = job, !.todo = todo]
<1>1. DOMAIN r = Fields /\ r.pc = "preflight" /\ r.back = back
  BY DEF Fields, Idle
<1>2. worker' = [worker EXCEPT ![w] = r]
  BY DEF Begin
<1> HIDE DEF r
<1> QED
  BY <1>1, <1>2 DEF LocalStep, Local

\* Starting over frees no key.
LEMMA IdleIsLocal ==
    ASSUME Shape, NEW w \in Workers, worker' = [worker EXCEPT ![w] = Idle]
    PROVE  LocalStep(w)
<1>1. DOMAIN Idle = Fields /\ Idle.pc = "pop" /\ Idle.back = "pop"
  BY DEF Fields, Idle
<1> QED
  BY <1>1 DEF LocalStep, Local

-----------------------------------------------------------------------------
\* Where keys stay with what is parked, and nobody holds more than before.
LEMMA KeepKeys ==
    ASSUME KeyInv, RetriesDeduped', parked \subseteq parked',
           \A w \in Workers : Held(w) \cap Keys(retries') = {},
           \A w \in Workers : Held(w)' \subseteq Held(w)
    PROVE  KeyInv'
<1>1. \A w \in Workers : Held(w)' \subseteq parked'
  BY DEF KeyInv, HeldInv
<1>2. Keys(retries)' = Keys(retries')
  BY DEF Keys, DedupeKey
<1>3. \A w \in Workers : Held(w)' \cap Keys(retries)' = {}
  BY <1>2
<1>4. \A v, w \in Workers : v # w => Held(v)' \cap Held(w)' = {}
  BY DEF KeyInv, HeldInv
<1> QED
  BY <1>1, <1>3, <1>4 DEF KeyInv, HeldInv

\* A step that leaves the retry set alone keeps the invariant.
LEMMA QuietKeeps ==
    ASSUME Shape, KeyInv, NEW w \in Workers, LocalStep(w), retries' = retries,
           parked \subseteq parked'
    PROVE  Shape' /\ KeyInv'
<1>1. Shape' /\ \A v \in Workers : Held(v)' \subseteq Held(v)
  BY LocalStepHolds
<1>2. RetriesDeduped'
  BY DEF KeyInv, RetriesDeduped, Keys, DedupeKey
<1>3. \A v \in Workers : Held(v) \cap Keys(retries') = {}
  BY DEF KeyInv, HeldInv
<1> QED
  BY <1>1, <1>2, <1>3, KeepKeys

\* So does a step that parks a job.
LEMMA ParkingKeeps ==
    ASSUME Shape, KeyInv, NEW w \in Workers, LocalStep(w), NEW job, Schedule(job)
    PROVE  Shape' /\ KeyInv'
<1>1. Shape' /\ \A v \in Workers : Held(v)' \subseteq Held(v)
  BY LocalStepHolds
<1>2. /\ RetriesDeduped'
      /\ parked \subseteq parked'
      /\ \A v \in Workers : Held(v) \cap Keys(retries') = {}
  BY ScheduleKeeps
<1> QED
  BY <1>1, <1>2, KeepKeys

\* What no worker's step touches but the keys' owners.
LEMMA ElsewhereKeeps ==
    ASSUME Shape, KeyInv, UNCHANGED <<retries, parked, worker>>
    PROVE  Shape' /\ KeyInv'
<1>1. \A w \in Workers : Held(w)' = Held(w)
  BY DEF Held, At, Keys, DedupeKey
<1>2. Keys(retries)' = Keys(retries)
  BY DEF Keys, DedupeKey
<1>3. Shape'
  BY DEF Shape, Local
<1> QED
  BY <1>1, <1>2, <1>3 DEF KeyInv, HeldInv, RetriesDeduped, DedupeKey

-----------------------------------------------------------------------------
\* The main loop: a claim takes keys out of sight together with their jobs, and
\* the worker that claimed is the only one to free them.
LEMMA ClaimKeeps ==
    ASSUME Shape, KeyInv, NEW w \in Workers, ClaimDue(w)
    PROVE  Shape' /\ KeyInv'
<1>1. PICK due \in SUBSET retries :
         /\ retries' = retries \ due
         /\ worker' = [worker EXCEPT ![w] = [worker[w] EXCEPT !.pc = "free", !.todo = due]]
  BY DEF ClaimDue
<1>2. parked' = parked
  BY DEF ClaimDue
<1> DEFINE r == [worker[w] EXCEPT !.pc = "free", !.todo = due]
<1>3. DOMAIN r = Fields /\ r.pc = "free" /\ r.todo = due /\ r.back = worker[w].back
  BY DEF Shape, Local, Fields
<1>4. worker' = [worker EXCEPT ![w] = r]
  BY <1>1
<1> HIDE DEF r
<1>5. worker'[w] = r /\ \A v \in Workers \ {w} : worker'[v] = worker[v]
  BY <1>4 DEF Shape
<1>6. Shape'
  BY <1>3, <1>4, <1>5 DEF Shape, Local
<1>7. Held(w)' = Keys(due)
  BY <1>3, <1>5 DEF Held, At, Keys, DedupeKey
<1>8. \A v \in Workers \ {w} : Held(v)' = Held(v)
  BY <1>5 DEF Held, At, Keys, DedupeKey
<1>9. Keys(retries)' \subseteq Keys(retries) /\ Keys(due) \subseteq Keys(retries)
  BY <1>1 DEF Keys, DedupeKey
<1>10. Keys(due) \cap Keys(retries)' = {}
  <2>1. \A i \in due, j \in retries' : DedupeKey(i) # DedupeKey(j)
    BY <1>1 DEF KeyInv, RetriesDeduped
  <2> QED
    BY <2>1 DEF Keys, DedupeKey
<1>11. RetriesDeduped'
  BY <1>1, <1>2, <1>9 DEF KeyInv, RetriesDeduped, DedupeKey
<1>12. HeldInv'
  <2>1. \A v \in Workers : Held(v)' \subseteq parked'
    BY <1>2, <1>7, <1>8, <1>9 DEF KeyInv, HeldInv, RetriesDeduped
  <2>2. \A v \in Workers : Held(v)' \cap Keys(retries)' = {}
    BY <1>7, <1>8, <1>9, <1>10 DEF KeyInv, HeldInv
  <2>3. \A u, v \in Workers : u # v => Held(u)' \cap Held(v)' = {}
    BY <1>7, <1>8, <1>9 DEF KeyInv, HeldInv
  <2> QED
    BY <2>1, <2>2, <2>3 DEF HeldInv
<1> QED
  BY <1>6, <1>11, <1>12 DEF KeyInv

\* A worker frees the keys of the batch it holds, and those belong to no parked job.
LEMMA FreeKeeps ==
    ASSUME Shape, KeyInv, NEW w \in Workers, FreeKeys(w)
    PROVE  Shape' /\ KeyInv'
<1>1. parked' = parked \ Held(w) /\ retries' = retries
  BY DEF FreeKeys, Held
<1>2. LocalStep(w)
  BY GotoIsLocal DEF FreeKeys
<1>3. Shape' /\ \A v \in Workers : Held(v)' \subseteq Held(v)
  BY <1>2, LocalStepHolds
<1>4. Held(w)' = {}
  <2>1. PICK r : Local(r) /\ r.pc # "free" /\ worker' = [worker EXCEPT ![w] = r]
    BY <1>2 DEF LocalStep
  <2> QED
    BY <2>1 DEF Held, At, Shape
<1>5. Keys(retries)' = Keys(retries)
  BY <1>1 DEF Keys, DedupeKey
<1>6. RetriesDeduped'
  BY <1>1, <1>5 DEF KeyInv, HeldInv, RetriesDeduped, DedupeKey
<1>7. \A v \in Workers : Held(v)' \subseteq parked'
  BY <1>1, <1>3, <1>4 DEF KeyInv, HeldInv
<1>8. \A v \in Workers : Held(v)' \cap Keys(retries)' = {}
  BY <1>3, <1>5 DEF KeyInv, HeldInv
<1>9. \A u, v \in Workers : u # v => Held(u)' \cap Held(v)' = {}
  BY <1>3 DEF KeyInv, HeldInv
<1> QED
  BY <1>3, <1>6, <1>7, <1>8, <1>9 DEF KeyInv, HeldInv

\* The main loop outside process_job.
LEMMA MainLoopKeeps ==
    ASSUME Shape, KeyInv, NEW w \in Workers, MainLoop(w)
    PROVE  Shape' /\ KeyInv'
<1>1. CASE Pop(w)
  <2>1. LocalStep(w)
    BY <1>1, GotoIsLocal, BeginIsLocal DEF Pop
  <2> QED
    BY <1>1, <2>1, QuietKeeps DEF Pop
<1>2. CASE ClaimDue(w)
  BY <1>2, ClaimKeeps
<1>3. CASE FreeKeys(w)
  BY <1>3, FreeKeeps
<1>4. CASE NextRetry(w)
  <2>1. LocalStep(w)
    BY <1>4, GotoIsLocal, BeginIsLocal DEF NextRetry
  <2> QED
    BY <1>4, <2>1, QuietKeeps DEF NextRetry
<1>5. CASE NoneDue(w)
  BY <1>5, GotoIsLocal, QuietKeeps DEF NoneDue
<1>6. CASE SkipSweep(w)
  BY <1>6, GotoIsLocal, QuietKeeps DEF SkipSweep
<1> QED
  BY <1>1, <1>2, <1>3, <1>4, <1>5, <1>6 DEF MainLoop

-----------------------------------------------------------------------------
\* Processing a job parks it or leaves the retry set alone.
LEMMA ProcessJobKeeps ==
    ASSUME Shape, KeyInv, NEW w \in Workers, ProcessJob(w)
    PROVE  Shape' /\ KeyInv'
<1>1. CASE PreflightNotRunning(w)
  BY <1>1, GotoIsLocal, ReturnIsLocal, QuietKeeps DEF PreflightNotRunning
<1>2. CASE PreflightRefuse(w)
  <2> DEFINE r == [worker[w] EXCEPT !.pc = "terminal",
                 !.verdict = IF Attempts(worker[w].job) >= MaxOf(worker[w].job)
                             THEN "failed" ELSE "dnc"]
  <2>1. DOMAIN r = Fields /\ r.pc = "terminal" /\ r.back = worker[w].back
    BY DEF Shape, Local, Fields
  <2>2. worker' = [worker EXCEPT ![w] = r]
    BY <1>2 DEF PreflightRefuse
  <2> HIDE DEF r
  <2>3. LocalStep(w)
    BY <2>1, <2>2 DEF LocalStep, Local, Shape
  <2> QED
    BY <1>2, <2>3, QuietKeeps DEF PreflightRefuse
<1>3. CASE PreflightPass(w)
  <2> DEFINE r == [worker[w] EXCEPT !.pc = "slots", !.attempts = Attempts(worker[w].job)]
  <2>1. DOMAIN r = Fields /\ r.pc = "slots" /\ r.back = worker[w].back
    BY DEF Shape, Local, Fields
  <2>2. worker' = [worker EXCEPT ![w] = r]
    BY <1>3 DEF PreflightPass
  <2> HIDE DEF r
  <2>3. LocalStep(w)
    BY <2>1, <2>2 DEF LocalStep, Local, Shape
  <2> QED
    BY <1>3, <2>3, QuietKeeps DEF PreflightPass
<1>4. CASE Park(w)
  BY <1>4, ReturnIsLocal, QuietKeeps DEF Park
<1>5. CASE Terminal(w)
  BY <1>5, ReturnIsLocal, QuietKeeps DEF Terminal
<1>6. CASE AdmitSlots(w)
  BY <1>6, GotoIsLocal, QuietKeeps DEF AdmitSlots
<1>7. CASE RefuseSlots(w)
  BY <1>7, GotoIsLocal, ParkingKeeps DEF RefuseSlots
<1>8. CASE Defer(w)
  BY <1>8, ReturnIsLocal, QuietKeeps DEF Defer
<1>9. CASE ClaimContact(w)
  BY <1>9, GotoIsLocal, ReturnIsLocal, QuietKeeps DEF ClaimContact
<1>10. CASE Mint(w)
  <2> DEFINE r == [worker[w] EXCEPT !.pc = "dial", !.call = Len(calls[Target(w)]) + 1]
  <2>1. DOMAIN r = Fields /\ r.pc = "dial" /\ r.back = worker[w].back
    BY DEF Shape, Local, Fields
  <2>2. worker' = [worker EXCEPT ![w] = r]
    BY <1>10 DEF Mint
  <2> HIDE DEF r
  <2>3. LocalStep(w)
    BY <2>1, <2>2 DEF LocalStep, Local, Shape
  <2> QED
    BY <1>10, <2>3, QuietKeeps DEF Mint
<1>11. CASE DialAccepted(w)
  BY <1>11, GotoIsLocal, QuietKeeps DEF DialAccepted
<1>12. CASE DialFailed(w)
  BY <1>12, GotoIsLocal, QuietKeeps DEF DialFailed
<1>13. CASE FailCall(w)
  BY <1>13, GotoIsLocal, QuietKeeps DEF FailCall
<1>14. CASE Backoff(w)
  BY <1>14, GotoIsLocal, ParkingKeeps DEF Backoff
<1>15. CASE CountFailure(w)
  BY <1>15, ReturnIsLocal, QuietKeeps DEF CountFailure
<1>16. CASE MarkCallDialing(w)
  BY <1>16, GotoIsLocal, QuietKeeps DEF MarkCallDialing
<1>17. CASE MarkContactDialing(w)
  BY <1>17, ReturnIsLocal, QuietKeeps DEF MarkContactDialing
<1>18. CASE Throw(w)
  BY <1>18, GotoIsLocal, QuietKeeps DEF Throw
<1>19. CASE ParkJob(w)
  BY <1>19, ReturnIsLocal, ParkingKeeps DEF ParkJob
<1>20. CASE ClaimRaises(w)
  BY <1>20, ReturnIsLocal, QuietKeeps DEF ClaimRaises
<1> QED
  BY <1>1, <1>2, <1>3, <1>4, <1>5, <1>6, <1>7, <1>8, <1>9, <1>10, <1>11, <1>12, <1>13, <1>14,
     <1>15, <1>16, <1>17, <1>18, <1>19, <1>20 DEF ProcessJob

\* A sweep parks the jobs it makes for stale rows.
LEMMA SweepKeeps ==
    ASSUME Shape, KeyInv, NEW w \in Workers, Sweep(w)
    PROVE  Shape' /\ KeyInv'
<1>1. CASE SweepQueued(w)
  <2> DEFINE r == [worker[w] EXCEPT !.pc = "requeue", !.rows =
                        {[contact |-> c, attempt |-> contact[c].attempts, max |-> NoMax] :
                           c \in Stale("queued")}]
  <2>1. DOMAIN r = Fields /\ r.pc = "requeue" /\ r.back = worker[w].back
    BY DEF Shape, Local, Fields
  <2>2. worker' = [worker EXCEPT ![w] = r]
    BY <1>1 DEF SweepQueued
  <2> HIDE DEF r
  <2>3. LocalStep(w)
    BY <2>1, <2>2 DEF LocalStep, Local, Shape
  <2> QED
    BY <1>1, <2>3, QuietKeeps DEF SweepQueued
<1>2. CASE Requeue(w)
  <2>1. PICK job \in worker[w].rows :
          /\ Schedule(job)
          /\ worker' = [worker EXCEPT ![w].rows = @ \ {job}]
    BY <1>2 DEF Requeue
  <2> DEFINE r == [worker[w] EXCEPT !.rows = worker[w].rows \ {job}]
  <2>2. DOMAIN r = Fields /\ r.pc = "requeue" /\ r.back = worker[w].back
    BY <1>2 DEF Shape, Local, Fields, Requeue, At
  <2>3. worker' = [worker EXCEPT ![w] = r]
    BY <2>1
  <2> HIDE DEF r
  <2>4. LocalStep(w)
    BY <2>2, <2>3 DEF LocalStep, Local, Shape
  <2> QED
    BY <2>1, <2>4, ParkingKeeps
<1>3. CASE SweepActive(w)
  <2> DEFINE r == [worker[w] EXCEPT !.pc = "heal", !.rows = Stale("dialing")]
  <2>1. DOMAIN r = Fields /\ r.pc = "heal" /\ r.back = worker[w].back
    BY DEF Shape, Local, Fields
  <2>2. worker' = [worker EXCEPT ![w] = r]
    BY <1>3 DEF SweepActive
  <2> HIDE DEF r
  <2>3. LocalStep(w)
    BY <2>1, <2>2 DEF LocalStep, Local, Shape
  <2> QED
    BY <1>3, <2>3, QuietKeeps DEF SweepActive
<1>4. CASE Heal(w)
  <2>1. PICK c : worker' = [worker EXCEPT ![w].rows = @ \ {c}]
    BY <1>4 DEF Heal
  <2> DEFINE r == [worker[w] EXCEPT !.rows = worker[w].rows \ {c}]
  <2>2. DOMAIN r = Fields /\ r.pc = "heal" /\ r.back = worker[w].back
    BY <1>4 DEF Shape, Local, Fields, Heal, At
  <2>3. worker' = [worker EXCEPT ![w] = r]
    BY <2>1
  <2> HIDE DEF r
  <2>4. LocalStep(w)
    BY <2>2, <2>3 DEF LocalStep, Local, Shape
  <2> QED
    BY <1>4, <2>4, QuietKeeps DEF Heal
<1>5. CASE Refill(w)
  <2>1. CASE Goto(w, "count")
    BY <1>5, <2>1, GotoIsLocal, QuietKeeps DEF Refill
  <2>2. CASE ~Goto(w, "count")
    <3>1. PICK page :
            worker' = [worker EXCEPT ![w] = [worker[w] EXCEPT !.pc = "refill", !.rows = page]]
      BY <1>5, <2>2 DEF Refill
    <3> DEFINE r == [worker[w] EXCEPT !.pc = "refill", !.rows = page]
    <3>2. DOMAIN r = Fields /\ r.pc = "refill" /\ r.back = worker[w].back
      BY DEF Shape, Local, Fields
    <3>3. worker' = [worker EXCEPT ![w] = r]
      BY <3>1
    <3> HIDE DEF r
    <3>4. LocalStep(w)
      BY <3>2, <3>3 DEF LocalStep, Local, Shape
    <3> QED
      BY <1>5, <3>4, QuietKeeps DEF Refill
  <2> QED
    BY <2>1, <2>2
<1>6. CASE RefillEnqueue(w)
  <2> DEFINE r == [Idle EXCEPT !.pc = "count"]
  <2>1. DOMAIN r = Fields /\ r.pc = "count" /\ r.back = "pop"
    BY DEF Fields, Idle
  <2>2. worker' = [worker EXCEPT ![w] = r]
    BY <1>6 DEF RefillEnqueue
  <2> HIDE DEF r
  <2>3. LocalStep(w)
    BY <2>1, <2>2 DEF LocalStep, Local
  <2> QED
    BY <1>6, <2>3, QuietKeeps DEF RefillEnqueue
<1>7. CASE RefillRestore(w)
  BY <1>7, IdleIsLocal, QuietKeeps DEF RefillRestore
<1>8. CASE CountRemaining(w)
  BY <1>8, GotoIsLocal, QuietKeeps DEF CountRemaining
<1>9. CASE CompleteCampaign(w)
  BY <1>9, IdleIsLocal, QuietKeeps DEF CompleteCampaign
<1> QED
  BY <1>1, <1>2, <1>3, <1>4, <1>5, <1>6, <1>7, <1>8, <1>9 DEF Sweep

\* A crash holds no key any more; what it leaves behind is a key without a job.
LEMMA CrashKeeps ==
    ASSUME Shape, KeyInv, NEW w \in Workers, Crash(w) \/ CrashScheduling(w)
    PROVE  Shape' /\ KeyInv'
<1>1. LocalStep(w)
  BY IdleIsLocal DEF Crash, CrashScheduling
<1>2. retries' = retries /\ parked \subseteq parked'
  BY DEF Crash, CrashScheduling
<1> QED
  BY <1>1, <1>2, QuietKeeps

\* The keys that expire are neither those of parked jobs nor held.
LEMMA ExpiryKeeps ==
    ASSUME Shape, KeyInv, KeyExpires
    PROVE  Shape' /\ KeyInv'
<1>1. PICK key \in parked \ Keys(retries) :
         /\ \A w \in Workers : At(w, "free") => key \notin Keys(worker[w].todo)
         /\ parked' = parked \ {key}
  BY DEF KeyExpires
<1>2. UNCHANGED <<retries, worker>>
  BY DEF KeyExpires
<1>3. \A w \in Workers : Held(w)' = Held(w) /\ key \notin Held(w)
  BY <1>1, <1>2 DEF Held, At, Keys, DedupeKey
<1>4. Keys(retries)' = Keys(retries)
  BY <1>2 DEF Keys, DedupeKey
<1>5. Shape'
  BY <1>2 DEF Shape, Local
<1>6. RetriesDeduped'
  BY <1>1, <1>2, <1>4 DEF KeyInv, RetriesDeduped, DedupeKey
<1>7. HeldInv'
  BY <1>1, <1>3, <1>4 DEF KeyInv, HeldInv
<1> QED
  BY <1>5, <1>6, <1>7 DEF KeyInv

-----------------------------------------------------------------------------
\* What a parked job's key protects, with the strengthening it needs, holds in
\* every reachable state.
THEOREM KeysFollowJobs == Spec => [](Shape /\ KeyInv)
<1>1. Init => Shape /\ KeyInv
  <2> SUFFICES ASSUME Init PROVE Shape /\ KeyInv
    OBVIOUS
  <2>1. Local(Idle) /\ Idle.pc = "pop"
    BY DEF Local, Idle, Fields
  <2>2. Shape /\ \A w \in Workers : Held(w) = {}
    BY <2>1 DEF Init, Shape, Held, At
  <2>3. retries = {} /\ Keys(retries) = {}
    BY DEF Init, Keys
  <2> QED
    BY <2>2, <2>3 DEF KeyInv, HeldInv, RetriesDeduped
<1>2. (Shape /\ KeyInv) /\ [Next]_vars => (Shape /\ KeyInv)'
  <2> SUFFICES ASSUME Shape, KeyInv, [Next]_vars PROVE Shape' /\ KeyInv'
    OBVIOUS
  <2>1. CASE Start
    BY <2>1, ElsewhereKeeps DEF Start, StartClaim, StartRunning, StartEnqueue, StartRollback
  <2>2. ASSUME NEW w \in Workers, MainLoop(w) PROVE Shape' /\ KeyInv'
    BY <2>2, MainLoopKeeps
  <2>3. ASSUME NEW w \in Workers, ProcessJob(w) PROVE Shape' /\ KeyInv'
    BY <2>3, ProcessJobKeeps
  <2>4. ASSUME NEW w \in Workers, Sweep(w) PROVE Shape' /\ KeyInv'
    BY <2>4, SweepKeeps
  <2>5. ASSUME NEW w \in Workers, Crash(w) \/ CrashScheduling(w) PROVE Shape' /\ KeyInv'
    BY <2>5, CrashKeeps
  <2>6. CASE KeyExpires
    BY <2>6, ExpiryKeeps
  <2>7. ASSUME NEW c \in Contacts,
               Age(c) \/ Answered(c) \/ HangUp(c) \/ RoomFinished(c) \/ WebhookLost(c)
        PROVE  Shape' /\ KeyInv'
    BY <2>7, ElsewhereKeeps DEF Age, Answered, HangUp, RoomFinished, WebhookLost
  <2>8. CASE UNCHANGED vars
    BY <2>8, ElsewhereKeeps DEF vars
  <2> QED
    BY <2>1, <2>2, <2>3, <2>4, <2>5, <2>6, <2>7, <2>8 DEF Next
<1> QED
  BY <1>1, <1>2, PTL DEF Spec

\* The retry set holds one entry per contact and attempt, and its key is set.
THEOREM RetriesDedupedAlways == Spec => []RetriesDeduped
<1>1. Shape /\ KeyInv => RetriesDeduped
  BY DEF KeyInv
<1> QED
  BY <1>1, KeysFollowJobs, PTL

-----------------------------------------------------------------------------
(* 2. The orderly campaign.                                                *)

Handed == {"defer", "count_failure"}
Claiming == {"preflight", "slots", "claim_contact", "defer"}
Calling == {"mint", "dial", "accepted", "mark_contact", "failed", "backoff", "count_failure"}
Working == Claiming \cup Calling \cup {"terminal"}
Looping == {"pop", "claim", "free", "retries", "sweep", "requeue", "heal", "refill", "count",
            "complete"}
Silent == {"mint", "dial", "failed", "backoff", "count_failure", "terminal"}

Row == [status : NONTERMINAL_CONTACT \cup TerminalContact, attempts : Nat]
Status == {"queued", "dialing", "answered", "completed", "failed"}
Room == {"none", "live", "ended", "reported"}
Call == [status : Status, swept : BOOLEAN, room : Room, connected : BOOLEAN]

Queued(c) == \E i \in DOMAIN queue : queue[i].contact = c
Parked(c) == \E j \in retries : j.contact = c
Taken(w, c) == \E j \in worker[w].todo : j.contact = c
HasJob(c) == Queued(c) \/ Parked(c) \/ (\E w \in Workers : Taken(w, c)) \/ Busy(c)
Locked(c) == c \in web.claimed \/ \E w \in Workers : At(w, "refill") /\ c \in worker[w].rows
Waits(c) == \/ contact[c].status = "queued"
            \/ contact[c].status = "pending" /\ contact[c].attempts > 0
Dialing(c) == contact[c].status = "dialing"
Done(c) == contact[c].status \in TerminalContact
Untouched(c) == contact[c] = [status |-> "pending", attempts |-> 0]
Open(call) == call.room \in {"live", "ended"}
NoOpen(c) == \A i \in DOMAIN calls[c] : ~Open(calls[c][i])

Typed ==
    /\ queue \in Seq(Job) /\ retries \subseteq Job
    /\ contact \in [Contacts -> Row]
    /\ calls \in [Contacts -> Seq(Call)]

TypeInv ==
    /\ Typed /\ aged \subseteq Contacts
    /\ campaign \in {"draft", "running", "completed"}
    /\ DOMAIN env = {"refusals", "errors", "crashes", "lost"} /\ env.crashes = 0

LocalInv(w) ==
    /\ worker[w].pc \in Working \cup Looping
    /\ worker[w].back \in {"pop", "claim", "retries"}
    /\ worker[w].todo \subseteq Job
    /\ worker[w].attempts \in Nat
    /\ worker[w].verdict \in {"failed", "dnc"}
    /\ worker[w].pc \in Working => worker[w].job \in Job /\ worker[w].back # "pop"
    /\ worker[w].pc \in Looping => worker[w].job = NoJob
    /\ worker[w].todo # {} => \/ worker[w].pc \in {"free", "retries"}
                              \/ worker[w].pc \in Working /\ worker[w].back = "retries"
    /\ worker[w].pc = "requeue" => worker[w].rows = {}
    /\ worker[w].pc \in {"heal", "refill"} => worker[w].rows \subseteq Contacts

WorkerInv(w) ==
    /\ LocalInv(w)
    /\ worker[w].pc \in Claiming => Waits(Target(w))
    /\ worker[w].pc \in Calling => Dialing(Target(w))
    /\ worker[w].pc = "terminal" => Waits(Target(w)) \/ Dialing(Target(w))
    /\ Parked(Target(w)) => worker[w].pc \in Handed
    /\ worker[w].pc = "defer" => worker[w].job \in retries
    /\ worker[w].pc \in Silent => NoOpen(Target(w))
    /\ worker[w].pc \in {"dial", "accepted", "failed"} =>
          worker[w].call = Len(calls[Target(w)]) /\ worker[w].call > 0
    /\ worker[w].pc = "heal" =>
          \A c \in worker[w].rows : Done(c) \/ (Dialing(c) /\ ~Busy(c))
    /\ worker[w].pc = "refill" => web.pc = "idle" /\ campaign # "draft"
    /\ worker[w].pc = "complete" => \A c \in Contacts : Done(c)

OwnInv ==
    /\ \A i, k \in DOMAIN queue : queue[i].contact = queue[k].contact => i = k
    /\ \A i, j \in retries : i.contact = j.contact => i = j
    /\ \A v, w \in Workers : \A i \in worker[v].todo, j \in worker[w].todo :
          i.contact = j.contact => v = w /\ i = j
    /\ \A v, w \in Workers : Target(v) = Target(w) /\ Target(v) \in Contacts => v = w

ContactInv(c) ==
    /\ Queued(c) => contact[c].status = "queued" /\ ~Parked(c) /\ ~Busy(c)
    /\ \A w \in Workers : Taken(w, c) => Waits(c) /\ ~Queued(c) /\ ~Parked(c) /\ ~Busy(c)
    /\ Parked(c) => Busy(c) \/ Waits(c)
    /\ contact[c].status = "queued" => Locked(c) \/ HasJob(c)
    /\ c \in aged => Dialing(c) /\ ~Busy(c)
    /\ Locked(c) => contact[c] = [status |-> "queued", attempts |-> 0] /\ ~HasJob(c)
    /\ ~LockFree \/ campaign = "draft" => Locked(c) \/ Untouched(c) \/ Done(c)
    /\ campaign = "completed" => Done(c)
    /\ \A i \in DOMAIN calls[c] :
          Open(calls[c][i]) => i = Len(calls[c]) /\ (Done(c) \/ Dialing(c))

LockInv ==
    /\ web.pc \in {"idle", "claimed", "enqueue"} /\ web.claimed \subseteq Contacts
    /\ web.pc = "idle" => web.claimed = {}
    /\ web.pc = "enqueue" => campaign # "draft"
    /\ DOMAIN web = {"pc", "claimed"}
    /\ \A v, w \in Workers : At(v, "refill") /\ At(w, "refill") => v = w

KeyExact == \A k \in parked : k \in Keys(retries) \/ \E w \in Workers : k \in Held(w)

CampaignInv ==
    /\ Shape /\ TypeInv /\ LockInv /\ OwnInv /\ KeyExact
    /\ \A w \in Workers : WorkerInv(w)
    /\ \A c \in Contacts : ContactInv(c)

\* the schedule and the faults of an orderly run
Regime ==
    /\ Orderly /\ ~OldRows
    /\ FailedRoom = {"none"} /\ Faulty = {} /\ Budget.crashes = 0

\* The freshly created campaign: every contact untouched, no job anywhere, no claim.
LEMMA CampaignStarts == ASSUME Regime, Init PROVE CampaignInv
<1>1. TypeInv
  <2>1. DOMAIN env = {"refusals", "errors", "crashes", "lost"} /\ env.crashes = 0
    BY CampaignAssumption DEF Init, Regime
  <2> QED BY <2>1 DEF Init, Regime, TypeInv, Typed, Row, NONTERMINAL_CONTACT
<1>2. Shape
  BY DEF Init, Shape, Local, Idle, Fields
<1>3. LockInv /\ KeyExact
  BY DEF Init, LockInv, KeyExact, At, Idle
<1>4. \A c : ~Queued(c) /\ ~Parked(c)
  BY DEF Init, Queued, Parked
<1>5. \A w \in Workers : worker[w] = Idle /\ \A c : ~Taken(w, c)
  BY DEF Init, Idle, Taken
<1>6. ASSUME NEW w \in Workers PROVE WorkerInv(w)
  BY <1>4, <1>5 DEF WorkerInv, LocalInv, Idle, Working, Looping, Claiming, Calling, Silent,
     Target, NoJob
<1>7. OwnInv
  BY <1>5, CampaignAssumption DEF Init, OwnInv, Idle, Target, NoJob
<1>8. ASSUME NEW c \in Contacts PROVE ContactInv(c)
  <2>1. ~Busy(c) /\ ~Locked(c) /\ c \notin aged
    BY <1>5, CampaignAssumption DEF Busy, Target, Idle, NoJob, Locked, Init, At, Regime
  <2> QED
    BY <1>4, <1>5, <2>1 DEF Init, ContactInv, Untouched
<1> QED BY <1>1, <1>2, <1>3, <1>6, <1>7, <1>8 DEF CampaignInv

-----------------------------------------------------------------------------
Others(w) == \A v \in Workers \ {w} : worker'[v] = worker[v]

\* what a step of w leaves alone in its own record
Same(w) ==
    /\ Others(w)
    /\ worker'[w].back = worker[w].back /\ worker'[w].job = worker[w].job
    /\ worker'[w].todo = worker[w].todo

\* What a replica's next step leaves of its local variables.
LEMMA GotoDoes ==
    ASSUME Shape, NEW w \in Workers, NEW pc, Goto(w, pc)
    PROVE  /\ Same(w) /\ worker'[w].pc = pc /\ worker'[w].attempts = worker[w].attempts
           /\ worker'[w].verdict = worker[w].verdict /\ worker'[w].call = worker[w].call
           /\ worker'[w].rows = worker[w].rows
BY DEF Shape, Local, Fields, Goto, Same, Others

\* What returning from process_job leaves: the job is gone, the batch in hand stays.
LEMMA ReturnDoes ==
    ASSUME Shape, NEW w \in Workers, Return(w)
    PROVE  /\ Others(w) /\ worker'[w].pc = worker[w].back /\ worker'[w].back = "pop"
           /\ worker'[w].job = NoJob /\ worker'[w].todo = worker[w].todo
           /\ worker'[w].attempts = 0 /\ worker'[w].verdict = "failed" /\ worker'[w].rows = {}
BY DEF Shape, Return, Others, Idle

\* What the owner of a contact's job may rely on.
LEMMA Owner ==
    ASSUME CampaignInv, NEW w \in Workers, worker[w].pc \in Working
    PROVE  /\ Target(w) \in Contacts /\ worker[w].job \in Job
           /\ ~Queued(Target(w)) /\ \A v \in Workers : ~Taken(v, Target(w))
           /\ ~Locked(Target(w)) /\ Target(w) \notin aged
           /\ ~Done(Target(w)) /\ ~Untouched(Target(w))
           /\ LockFree /\ campaign = "running"
           /\ \A v \in Workers : v # w => Target(v) # Target(w)
<1>1. worker[w].job \in Job /\ Target(w) \in Contacts
  BY DEF CampaignInv, WorkerInv, LocalInv, Job, Target
<1>2. Busy(Target(w)) /\ HasJob(Target(w)) /\ ContactInv(Target(w))
  BY <1>1 DEF CampaignInv, Busy, HasJob
<1>3. Waits(Target(w)) \/ Dialing(Target(w))
  BY DEF CampaignInv, WorkerInv, Working
<1>4. contact[Target(w)] \in Row
  BY <1>1 DEF CampaignInv, TypeInv, Typed
<1>5. ~Done(Target(w)) /\ ~Untouched(Target(w))
  BY <1>3, <1>4 DEF Waits, Dialing, Done, Untouched, TerminalContact
<1>6. ~Queued(Target(w)) /\ (\A v \in Workers : ~Taken(v, Target(w))) /\ ~Locked(Target(w))
      /\ Target(w) \notin aged
  BY <1>2 DEF ContactInv
<1>7. LockFree /\ campaign = "running"
  BY <1>2, <1>5, <1>6 DEF ContactInv, CampaignInv, TypeInv, Typed
<1>8. \A v \in Workers : v # w => Target(v) # Target(w)
  BY <1>1 DEF CampaignInv, OwnInv
<1> QED BY <1>1, <1>5, <1>6, <1>7, <1>8

\* A step of the replica that processes a job: it writes at most the row and the calls of its
\* contact, parks at most its own job, and may give the job up.
JobStep(w) ==
    /\ Others(w) /\ worker'[w].todo = worker[w].todo
    /\ worker'[w].job \in {worker[w].job, NoJob}
    /\ worker'[w].pc \notin {"free", "refill"}
    /\ UNCHANGED <<queue, web, campaign>>
    /\ \A c \in Contacts : c # Target(w) => contact'[c] = contact[c] /\ calls'[c] = calls[c]
    /\ \/ retries' = retries
       \/ worker[w].pc \notin Handed /\ retries' = retries \cup {worker[w].job}
    /\ parked \subseteq parked' /\ \A k \in parked' \ parked : k \in Keys(retries')
    /\ aged' \subseteq aged

\* Such a step is the owner's affair: it has only its own worker and contact to answer for.
LEMMA JobKeeps ==
    ASSUME CampaignInv, NEW w \in Workers, worker[w].pc \in Working, JobStep(w),
           Shape', TypeInv', WorkerInv(w)', NEW c0, c0 = Target(w),
           Parked(c0)' => worker'[w].job = worker[w].job \/ Waits(c0)',
           contact'[c0].status = "queued" => worker'[w].job = worker[w].job \/ Parked(c0)',
           \A i \in DOMAIN calls'[c0] :
              Open(calls'[c0][i]) => i = Len(calls'[c0]) /\ (Done(c0)' \/ Dialing(c0)')
    PROVE  CampaignInv'
<1>1. /\ c0 \in Contacts /\ worker[w].job \in Job /\ worker[w].job.contact = c0
      /\ ~Queued(c0) /\ \A v \in Workers : ~Taken(v, c0)
      /\ ~Locked(c0) /\ c0 \notin aged /\ ~Done(c0) /\ ~Untouched(c0)
      /\ LockFree /\ campaign = "running"
      /\ \A v \in Workers : v # w => Target(v) # c0
  BY Owner DEF Target
<1>2. /\ \A v \in Workers : v # w => worker'[v] = worker[v] /\ Target(v)' = Target(v)
      /\ \A v \in Workers : worker'[v].todo = worker[v].todo
      /\ Target(w)' \in {c0, "none"}
  BY DEF JobStep, Others, Target, NoJob
<1>3. \A c : (Queued(c)' <=> Queued(c)) /\ \A v \in Workers : (Taken(v, c)' <=> Taken(v, c))
  BY <1>2 DEF Queued, Taken, JobStep
<1>4. \A c : c # c0 => (Parked(c)' <=> Parked(c))
  BY <1>1 DEF Parked, JobStep
<1>5. \A c \in Contacts : c # c0 => (Busy(c)' <=> Busy(c))
  BY <1>1, <1>2, CampaignAssumption DEF Busy
<1>6. worker[w].pc # "refill"
  BY DEF Working, Claiming, Calling
<1>7. \A c : Locked(c)' <=> Locked(c)
  BY <1>2, <1>6 DEF Locked, At, JobStep
<1>8. LockFree'
  BY <1>1, <1>2 DEF LockFree, At, JobStep
<1>9. ASSUME NEW c \in Contacts, c # c0 PROVE ContactInv(c)'
  <2>1. /\ contact'[c] = contact[c] /\ calls'[c] = calls[c] /\ campaign' = campaign
        /\ aged' \subseteq aged
    BY <1>9 DEF JobStep
  <2>2. ContactInv(c)
    BY DEF CampaignInv
  <2>3. HasJob(c)' <=> HasJob(c)
    BY <1>3, <1>4, <1>5, <1>9 DEF HasJob
  <2> QED
    BY <1>1, <1>3, <1>4, <1>5, <1>7, <1>8, <1>9, <2>1, <2>2, <2>3
    DEF ContactInv, Waits, Dialing, Done, Untouched
<1>10. ContactInv(c0)'
  <2>1. worker'[w].job = worker[w].job => Busy(c0)'
    BY DEF Busy, Target
  <2>2. contact'[c0].status = "queued" => HasJob(c0)'
    BY <2>1 DEF HasJob
  <2>3. campaign' = "running" /\ c0 \notin aged' /\ ~Queued(c0)' /\ ~Locked(c0)'
    BY <1>1, <1>3, <1>7 DEF JobStep
  <2>4. Parked(c0)' => Busy(c0)' \/ Waits(c0)'
    BY <2>1
  <2>5. \A v \in Workers : ~Taken(v, c0)'
    BY <1>1, <1>3
  <2> QED
    BY <1>8, <2>2, <2>3, <2>4, <2>5 DEF ContactInv
<1>11. ASSUME NEW v \in Workers, v # w PROVE WorkerInv(v)'
  <2>1. WorkerInv(v) /\ worker'[v] = worker[v] /\ Target(v)' = Target(v) /\ Target(v) # c0
    BY <1>1, <1>2, <1>11 DEF CampaignInv
  <2>2. LocalInv(v)'
    BY <2>1 DEF WorkerInv, LocalInv
  <2>3. worker[v].pc \in Working => Target(v) \in Contacts
    BY <2>1 DEF WorkerInv, LocalInv, Job, Target
  <2>4. worker[v].pc \in Working => contact'[Target(v)] = contact[Target(v)]
                                    /\ calls'[Target(v)] = calls[Target(v)]
    BY <2>1, <2>3 DEF JobStep
  <2>5. Parked(Target(v))' <=> Parked(Target(v))
    BY <1>4, <2>1
  <2>6. worker[v].pc = "heal" =>
          \A c \in worker[v].rows : Done(c)' \/ (Dialing(c)' /\ ~Busy(c)')
    <3> SUFFICES ASSUME worker[v].pc = "heal", NEW c \in worker[v].rows
                 PROVE  Done(c)' \/ (Dialing(c)' /\ ~Busy(c)')
      OBVIOUS
    <3>1. c \in Contacts /\ (Done(c) \/ (Dialing(c) /\ ~Busy(c)))
      BY <2>1 DEF WorkerInv, LocalInv
    <3>2. c # c0
      BY <1>1, <3>1 DEF Busy
    <3> QED BY <1>5, <3>1, <3>2 DEF JobStep, Done, Dialing
  <2>7. worker[v].pc # "complete"
    BY <1>1, <2>1 DEF WorkerInv
  <2> QED
    BY <2>1, <2>2, <2>4, <2>5, <2>6, <2>7
    DEF WorkerInv, Waits, Dialing, NoOpen, Working, JobStep, Silent, Claiming, Calling
<1>12. OwnInv'
  <2>1. \A i, j \in retries' : i.contact = j.contact => i = j
    <3>1. CASE retries' = retries
      BY <3>1 DEF CampaignInv, OwnInv
    <3>2. CASE worker[w].pc \notin Handed /\ retries' = retries \cup {worker[w].job}
      <4>1. ~Parked(c0)
        BY <3>2 DEF CampaignInv, WorkerInv
      <4> QED BY <1>1, <3>2, <4>1 DEF CampaignInv, OwnInv, Parked
    <3> QED BY <3>1, <3>2 DEF JobStep
  <2>2. \A u, v \in Workers : Target(u)' = Target(v)' /\ Target(u)' \in Contacts => u = v
    BY <1>1, <1>2, CampaignAssumption DEF CampaignInv, OwnInv
  <2> QED BY <1>2, <2>1, <2>2 DEF CampaignInv, OwnInv, JobStep
<1>13. LockInv'
  BY <1>2 DEF CampaignInv, LockInv, JobStep, At
<1>14. KeyExact'
  <2>1. \A v \in Workers : Held(v)' = Held(v)
    BY <1>2 DEF Held, At, JobStep, Keys, DedupeKey, Working, Claiming, Calling
  <2>2. Keys(retries) \subseteq Keys(retries)'
    BY DEF Keys, DedupeKey, JobStep
  <2> QED BY <2>1, <2>2 DEF CampaignInv, KeyExact, JobStep, Keys, DedupeKey
<1>15. \A c \in Contacts : ContactInv(c)'
  BY <1>9, <1>10
<1>16. \A v \in Workers : WorkerInv(v)'
  BY <1>11
<1> QED BY <1>12, <1>13, <1>14, <1>15, <1>16 DEF CampaignInv

\* Writing a contact's row touches no other row, and refreshes its updated_at.
LEMMA SetContactDoes ==
    ASSUME Typed, NEW c \in Contacts, NEW row \in Row, SetContact(c, row)
    PROVE  /\ contact' \in [Contacts -> Row] /\ contact'[c] = row
           /\ \A d \in Contacts : d # c => contact'[d] = contact[d]
           /\ aged' \subseteq aged /\ c \notin aged'
BY DEF SetContact, TypeInv, Typed

\* Writing a contact's status keeps its count of attempts.
LEMMA SetStatusDoes ==
    ASSUME Typed, NEW c \in Contacts, NEW st \in NONTERMINAL_CONTACT \cup TerminalContact,
           SetStatus(c, st)
    PROVE  /\ contact' \in [Contacts -> Row]
           /\ contact'[c].status = st /\ contact'[c].attempts = contact[c].attempts
           /\ \A d \in Contacts : d # c => contact'[d] = contact[d]
           /\ aged' \subseteq aged /\ c \notin aged'
<1> DEFINE row == [contact[c] EXCEPT !.status = st]
<1>1. contact[c] \in Row
  BY DEF TypeInv, Typed
<1>2. row \in Row /\ row.status = st /\ row.attempts = contact[c].attempts
  BY <1>1 DEF Row
<1> HIDE DEF row
<1> QED BY <1>2, SetContactDoes DEF SetStatus, row

\* A call row stays one, whatever fields are written.
LEMMA CallSet ==
    ASSUME NEW row \in Call, NEW st \in Status, NEW rm \in Room, NEW b \in BOOLEAN
    PROVE  /\ [row EXCEPT !.status = st] \in Call /\ [row EXCEPT !.room = rm] \in Call
           /\ [row EXCEPT !.room = rm, !.connected = b] \in Call
           /\ [row EXCEPT !.status = st, !.swept = b] \in Call
           /\ [row EXCEPT !.status = st].room = row.room
           /\ [row EXCEPT !.room = rm].room = rm
           /\ [row EXCEPT !.status = st, !.swept = b].room = row.room
BY DEF Call

\* The row a room_finished webhook or the recovery pass writes.
LEMMA CallReported ==
    ASSUME NEW row \in Call, NEW st \in Status, NEW b \in BOOLEAN, NEW rm \in Room
    PROVE  /\ [row EXCEPT !.status = st, !.swept = b, !.room = rm] \in Call
           /\ [row EXCEPT !.status = st, !.swept = b, !.room = rm].room = rm
BY DEF Call

\* The statuses and rooms the actions write are among those a call row can have.
LEMMA Words ==
    /\ \A st \in {"queued", "dialing", "answered", "completed", "failed"} : st \in Status
    /\ \A rm \in {"none", "live", "ended", "reported"} : rm \in Room
BY DEF Status, Room

\* The two truth values, for the solver that does not know them.
LEMMA Truth == TRUE \in BOOLEAN /\ FALSE \in BOOLEAN
<1>1. TRUE \in BOOLEAN
  BY SMT
<1>2. FALSE \in BOOLEAN
  BY SMT
<1> QED BY <1>1, <1>2

\* A minted call is a row, and its room is not open yet.
LEMMA NewCallType == NewCall \in Call /\ ~Open(NewCall)
<1>1. ASSUME NEW b \in BOOLEAN, NEW c \in BOOLEAN, NEW s \in Status, NEW rm \in Room
      PROVE  [status |-> s, swept |-> b, room |-> rm, connected |-> c] \in Call
  BY DEF Call
<1>2. NewCall \in Call
  BY <1>1, Words, Truth, Zenon DEF NewCall
<1> QED BY <1>2 DEF Open, NewCall

\* Writing the call in hand touches no other call row.
LEMMA SetCallDoes ==
    ASSUME Typed, NEW w \in Workers, Target(w) \in Contacts, NEW row \in Call,
           worker[w].call \in DOMAIN calls[Target(w)], SetCall(w, row)
    PROVE  /\ calls' \in [Contacts -> Seq(Call)]
           /\ Len(calls'[Target(w)]) = Len(calls[Target(w)])
           /\ calls'[Target(w)][worker[w].call] = row
           /\ \A i \in DOMAIN calls[Target(w)] :
                 i # worker[w].call => calls'[Target(w)][i] = calls[Target(w)][i]
           /\ \A d \in Contacts : d # Target(w) => calls'[d] = calls[d]
<1> DEFINE s == calls[Target(w)]  i == worker[w].call
<1>1. s \in Seq(Call) /\ i \in 1..Len(s)
  BY DEF TypeInv, Typed
<1>2. calls' = [calls EXCEPT ![Target(w)] = [s EXCEPT ![i] = row]]
  BY DEF SetCall
<1>3. [s EXCEPT ![i] = row] \in Seq(Call) /\ Len([s EXCEPT ![i] = row]) = Len(s)
      /\ [s EXCEPT ![i] = row][i] = row
      /\ \A k \in 1..Len(s) : k # i => [s EXCEPT ![i] = row][k] = s[k]
  BY <1>1, ExceptSeq
<1> HIDE DEF s, i
<1> QED BY <1>1, <1>2, <1>3 DEF TypeInv, Typed, s, i

\* A step that only moves on, with nothing written.
LEMMA MoveKeeps ==
    ASSUME CampaignInv, Shape', NEW w \in Workers, worker[w].pc \in Working, Same(w),
           UNCHANGED <<campaign, contact, aged, calls, queue, retries, parked, web, env>>,
           WorkerInv(w)'
    PROVE  CampaignInv'
<1>0. PICK c0 : c0 = Target(w)
  OBVIOUS
<1>1. /\ c0 \in Contacts /\ worker[w].job \in Job /\ LocalInv(w)'
      /\ ContactInv(c0)
  BY <1>0, Owner DEF WorkerInv, CampaignInv
<1>2. TypeInv'
  BY DEF CampaignInv, TypeInv, Typed
<1>3. worker'[w].pc \notin {"free", "refill"}
  BY <1>1, CampaignAssumption DEF LocalInv, Same, Looping, Working, Claiming, Calling, Job,
     NoJob
<1>4. JobStep(w)
  BY <1>1, <1>3 DEF JobStep, Same
<1> QED
  BY <1>0, <1>1, <1>2, <1>4, JobKeeps DEF Same, ContactInv, Done, Dialing

\* A job the preflight refuses goes to the terminal write, which its contact still awaits.
LEMMA RefuseKeeps ==
    ASSUME CampaignInv, Shape', NEW w \in Workers, PreflightRefuse(w)
    PROVE  CampaignInv'
<1> DEFINE r == [worker[w] EXCEPT !.pc = "terminal",
                    !.verdict = IF Attempts(worker[w].job) >= MaxOf(worker[w].job)
                                THEN "failed" ELSE "dnc"]
<1>1. worker' = [worker EXCEPT ![w] = r] /\ worker[w].pc = "preflight"
  BY DEF PreflightRefuse, At
<1>2. /\ r.pc = "terminal" /\ r.back = worker[w].back /\ r.job = worker[w].job
      /\ r.todo = worker[w].todo /\ r.attempts = worker[w].attempts
      /\ r.verdict \in {"failed", "dnc"}
  BY DEF CampaignInv, Shape, Local, Fields
<1> HIDE DEF r
<1>3. worker'[w] = r /\ Others(w)
  BY <1>1 DEF CampaignInv, Shape, Others
<1>4. Same(w)
  BY <1>2, <1>3 DEF Same
<1>5. WorkerInv(w) /\ worker[w].pc \in Working /\ LocalInv(w)
  BY <1>1 DEF CampaignInv, Working, Claiming, WorkerInv
<1>6. LocalInv(w)'
  BY <1>1, <1>2, <1>3, <1>5 DEF LocalInv, Working, Looping, Claiming
<1>7. ContactInv(Target(w))
  BY <1>5, Owner DEF CampaignInv
<1>8. NoOpen(Target(w))
  BY <1>1, <1>5, <1>7 DEF WorkerInv, ContactInv, NoOpen, Claiming, Waits, Dialing, Done,
     TerminalContact
<1>9. WorkerInv(w)'
  BY <1>1, <1>2, <1>3, <1>5, <1>6, <1>8 DEF WorkerInv, Claiming, Calling, Target,
     PreflightRefuse,
     Parked, NoOpen, Waits, Handed
<1> QED
  BY <1>4, <1>5, <1>9, MoveKeeps DEF PreflightRefuse

\* A job that passes the preflight still has a waiting contact.
LEMMA PassKeeps ==
    ASSUME CampaignInv, Shape', NEW w \in Workers, PreflightPass(w)
    PROVE  CampaignInv'
<1> DEFINE r == [worker[w] EXCEPT !.pc = "slots", !.attempts = Attempts(worker[w].job)]
<1>1. worker' = [worker EXCEPT ![w] = r] /\ worker[w].pc = "preflight"
  BY DEF PreflightPass, At
<1>2. /\ r.pc = "slots" /\ r.back = worker[w].back /\ r.job = worker[w].job
      /\ r.todo = worker[w].todo /\ r.attempts = Attempts(worker[w].job)
      /\ r.verdict = worker[w].verdict
  BY DEF CampaignInv, Shape, Local, Fields
<1> HIDE DEF r
<1>3. worker'[w] = r /\ Others(w)
  BY <1>1 DEF CampaignInv, Shape, Others
<1>4. Same(w)
  BY <1>2, <1>3 DEF Same
<1>5. WorkerInv(w) /\ worker[w].pc \in Working /\ LocalInv(w) /\ worker[w].job \in Job
  BY <1>1 DEF CampaignInv, Working, Claiming, WorkerInv, LocalInv
<1>6. Attempts(worker[w].job) \in Nat
  BY <1>5 DEF CampaignInv, TypeInv, Typed, Attempts, Job, Row
<1>7. LocalInv(w)'
  BY <1>1, <1>2, <1>3, <1>5, <1>6 DEF LocalInv, Working, Looping, Claiming
<1>8. WorkerInv(w)'
  BY <1>1, <1>2, <1>3, <1>5, <1>7 DEF WorkerInv, Claiming, Calling, Target, PreflightPass,
     Parked, Waits, Handed, Silent
<1> QED
  BY <1>4, <1>5, <1>8, MoveKeeps DEF PreflightPass

\* A job that gets its slots keeps its contact, which waits.
LEMMA AdmitKeeps ==
    ASSUME CampaignInv, Shape', NEW w \in Workers, AdmitSlots(w)
    PROVE  CampaignInv'
<1>1. worker[w].pc = "slots" /\ Goto(w, "claim_contact") /\ Shape
  BY DEF AdmitSlots, At, CampaignInv
<1>2. /\ Same(w) /\ worker'[w].pc = "claim_contact" /\ worker'[w].attempts = worker[w].attempts
      /\ worker'[w].verdict = worker[w].verdict
  BY <1>1, GotoDoes
<1>3. WorkerInv(w) /\ worker[w].pc \in Working /\ LocalInv(w)
  BY <1>1 DEF CampaignInv, Working, Claiming, WorkerInv
<1>4. LocalInv(w)'
  BY <1>1, <1>2, <1>3 DEF LocalInv, Working, Looping, Claiming, Same
<1>5. WorkerInv(w)'
  BY <1>1, <1>2, <1>3, <1>4 DEF WorkerInv, Claiming, Calling, Target, AdmitSlots,
     Parked, Waits, Handed, Silent, Same
<1> QED
  BY <1>2, <1>3, <1>5, MoveKeeps DEF AdmitSlots

\* A contact whose own job is in hand has no other, so its dedupe key is free to be set.
LEMMA OwnKeyFree ==
    ASSUME CampaignInv, NEW w \in Workers, worker[w].pc \in Working \ Handed
    PROVE  DedupeKey(worker[w].job) \notin parked
<1>1. /\ worker[w].job \in Job /\ worker[w].job.contact = Target(w)
      /\ (\A v \in Workers : ~Taken(v, Target(w))) /\ ~Parked(Target(w))
  BY Owner DEF Target, CampaignInv, WorkerInv
<1>2. DedupeKey(worker[w].job) \notin Keys(retries)
  BY <1>1 DEF Keys, DedupeKey, Parked
<1>3. \A v \in Workers : DedupeKey(worker[w].job) \notin Held(v)
  BY <1>1 DEF Keys, DedupeKey, Taken, Held
<1> QED BY <1>2, <1>3 DEF CampaignInv, KeyExact

\* Parking the job in hand adds it to the retry set together with its dedupe key.
LEMMA ScheduleOwn ==
    ASSUME CampaignInv, NEW w \in Workers, worker[w].pc \in Working \ Handed,
           Schedule(worker[w].job)
    PROVE  /\ retries' = retries \cup {worker[w].job} /\ retries' \subseteq Job
           /\ parked \subseteq parked' /\ \A k \in parked' \ parked : k \in Keys(retries')
<1>1. /\ retries' = retries \cup {worker[w].job}
      /\ parked' = parked \cup {DedupeKey(worker[w].job)}
  BY OwnKeyFree DEF Schedule
<1>2. worker[w].job \in Job /\ retries \subseteq Job
  BY Owner DEF CampaignInv, TypeInv, Typed
<1> QED BY <1>1, <1>2 DEF Keys

\* Spending one of the environment's faults leaves the others alone.
LEMMA SpendKeepsType ==
    ASSUME TypeInv, NEW f \in {"refusals", "errors", "lost"}, Spend(f)
    PROVE  DOMAIN env' = {"refusals", "errors", "crashes", "lost"} /\ env'.crashes = 0
BY DEF TypeInv, Typed, Spend

\* A job refused its slots is parked first; only then does its contact go back.
LEMMA RefuseSlotsKeeps ==
    ASSUME CampaignInv, Shape', NEW w \in Workers, RefuseSlots(w)
    PROVE  CampaignInv'
<1>1. worker[w].pc = "slots" /\ Goto(w, "defer") /\ Shape /\ Schedule(worker[w].job)
  BY DEF RefuseSlots, At, CampaignInv
<1>2. /\ Same(w) /\ worker'[w].pc = "defer" /\ worker'[w].attempts = worker[w].attempts
      /\ worker'[w].verdict = worker[w].verdict
  BY <1>1, GotoDoes
<1>3. WorkerInv(w) /\ worker[w].pc \in Working \ Handed /\ LocalInv(w)
  BY <1>1 DEF CampaignInv, Working, Claiming, WorkerInv, Handed
<1>4. LocalInv(w)'
  BY <1>1, <1>2, <1>3 DEF LocalInv, Working, Looping, Claiming, Same
<1>5. /\ retries' = retries \cup {worker[w].job} /\ retries' \subseteq Job
      /\ parked \subseteq parked' /\ \A k \in parked' \ parked : k \in Keys(retries')
  BY <1>1, <1>3, ScheduleOwn
<1>6. WorkerInv(w)'
  BY <1>1, <1>2, <1>3, <1>4, <1>5 DEF WorkerInv, Claiming, Calling, Target, RefuseSlots,
     Waits, Handed, Silent, Same
<1>7. TypeInv'
  BY <1>5, SpendKeepsType DEF CampaignInv, TypeInv, Typed, RefuseSlots
<1>8. JobStep(w)
  BY <1>2, <1>3, <1>5 DEF JobStep, Same, RefuseSlots
<1>9. PICK c0 : c0 = Target(w)
  OBVIOUS
<1>10. ContactInv(c0)
  BY <1>3, <1>9, Owner DEF CampaignInv
<1> QED
  BY <1>2, <1>3, <1>6, <1>7, <1>8, <1>9, <1>10, JobKeeps
  DEF Same, RefuseSlots, ContactInv, Done, Dialing

\* A step that writes the contact's row and gives the job up.
LEMMA FinishKeeps ==
    ASSUME CampaignInv, Shape', NEW w \in Workers, worker[w].pc \in Working, Return(w),
           NEW c0, c0 = Target(w), NEW row \in Row, SetContact(c0, row),
           row.status = "queued" => Parked(c0),
           (\E i \in DOMAIN calls[c0] : Open(calls[c0][i])) =>
              row.status \in TerminalContact \cup {"dialing"},
           UNCHANGED <<campaign, calls, queue, retries, parked, web, env>>,
           Parked(c0) => row.status = "queued" \/ (row.status = "pending" /\ row.attempts > 0)
    PROVE  CampaignInv'
<1>1. /\ Others(w) /\ worker'[w].pc = worker[w].back /\ worker'[w].back = "pop"
      /\ worker'[w].job = NoJob /\ worker'[w].todo = worker[w].todo
      /\ worker'[w].attempts = 0 /\ worker'[w].verdict = "failed" /\ worker'[w].rows = {}
  BY ReturnDoes DEF CampaignInv
<1>2. WorkerInv(w) /\ LocalInv(w) /\ c0 \in Contacts /\ ContactInv(c0)
  BY Owner DEF CampaignInv, WorkerInv
<1>3. /\ contact' \in [Contacts -> Row] /\ contact'[c0] = row
      /\ \A d \in Contacts : d # c0 => contact'[d] = contact[d]
      /\ aged' \subseteq aged /\ c0 \notin aged'
  BY <1>2, SetContactDoes DEF CampaignInv, TypeInv
<1>4. worker[w].back \in {"claim", "retries"}
  BY <1>2 DEF LocalInv
<1>5. LocalInv(w)'
  BY <1>1, <1>2, <1>4 DEF LocalInv, Working, Looping, Claiming, Calling
<1>6. ~Parked(Target(w))'
  <2>1. Target(w)' \notin Contacts
    BY <1>1, CampaignAssumption DEF Target, NoJob
  <2> QED BY <2>1 DEF Parked, CampaignInv, TypeInv, Typed, Job
<1>7. WorkerInv(w)'
  BY <1>1, <1>4, <1>5, <1>6 DEF WorkerInv, Claiming, Calling, Silent
<1>8. TypeInv'
  BY <1>3 DEF CampaignInv, TypeInv, Typed
<1>9. JobStep(w)
  BY <1>1, <1>2, <1>3, <1>4 DEF JobStep
<1>10. Parked(c0)' => Waits(c0)'
  BY <1>3 DEF Parked, Waits
<1>11. contact'[c0].status = "queued" => Parked(c0)'
  BY <1>3 DEF Parked, TerminalContact
<1>12. \A i \in DOMAIN calls'[c0] :
          Open(calls'[c0][i]) => i = Len(calls'[c0]) /\ (Done(c0)' \/ Dialing(c0)')
  BY <1>2, <1>3 DEF ContactInv, Done, Dialing
<1> QED BY <1>7, <1>8, <1>9, <1>10, <1>11, <1>12, JobKeeps

\* The row a status write leaves.
LEMMA StatusRow ==
    ASSUME TypeInv, NEW c \in Contacts, NEW st \in NONTERMINAL_CONTACT \cup TerminalContact,
           SetStatus(c, st)
    PROVE  \E row \in Row : row.status = st /\ row.attempts = contact[c].attempts
                            /\ SetContact(c, row)
<1> DEFINE row == [contact[c] EXCEPT !.status = st]
<1>1. contact[c] \in Row
  BY DEF TypeInv, Typed
<1>2. row \in Row /\ row.status = st /\ row.attempts = contact[c].attempts
  BY <1>1 DEF Row
<1>3. SetContact(c, row)
  BY DEF SetStatus
<1> HIDE DEF row
<1> QED BY <1>2, <1>3

\* The terminal write of a job whose contact is done for: failed or dnc.
LEMMA TerminalKeeps ==
    ASSUME CampaignInv, Shape', NEW w \in Workers, Terminal(w)
    PROVE  CampaignInv'
<1>0. PICK c0 : c0 = Target(w)
  OBVIOUS
<1>1. worker[w].pc = "terminal" /\ worker[w].pc \in Working /\ Return(w)
  BY DEF Terminal, At, Working
<1>2. WorkerInv(w) /\ LocalInv(w) /\ c0 \in Contacts
  BY <1>0, <1>1, Owner DEF CampaignInv, WorkerInv
<1>3. worker[w].verdict \in NONTERMINAL_CONTACT \cup TerminalContact
      /\ worker[w].verdict \in TerminalContact
  BY <1>2 DEF LocalInv, TerminalContact
<1>4. SetStatus(c0, worker[w].verdict)
  BY <1>0 DEF Terminal
<1>5. PICK row \in Row : row.status = worker[w].verdict /\ SetContact(c0, row)
  BY <1>2, <1>3, <1>4, StatusRow DEF CampaignInv
<1>6. ~Parked(c0)
  BY <1>0, <1>1, <1>2 DEF WorkerInv, Handed
<1>7. UNCHANGED <<campaign, calls, queue, retries, parked, web, env>>
  BY DEF Terminal
<1>8. /\ row.status = "queued" => Parked(c0)
      /\ (\E i \in DOMAIN calls[c0] : Open(calls[c0][i])) =>
            row.status \in TerminalContact \cup {"dialing"}
      /\ Parked(c0) => row.status = "queued" \/ (row.status = "pending" /\ row.attempts > 0)
  BY <1>3, <1>5, <1>6 DEF TerminalContact
<1> QED BY <1>0, <1>1, <1>5, <1>6, <1>7, <1>8, FinishKeeps

\* The deferral's second write: the contact of the job just parked is queued again.
LEMMA DeferKeeps ==
    ASSUME CampaignInv, Shape', NEW w \in Workers, Defer(w)
    PROVE  CampaignInv'
<1>0. PICK c0 : c0 = Target(w)
  OBVIOUS
<1>1. worker[w].pc = "defer" /\ worker[w].pc \in Working /\ Return(w)
  BY DEF Defer, At, Working, Claiming
<1>2. WorkerInv(w) /\ c0 \in Contacts /\ ContactInv(c0)
  BY <1>0, <1>1, Owner DEF CampaignInv
<1>3. PICK row \in Row : row.status = "queued" /\ SetContact(c0, row)
  <2>1. SetStatus(c0, "queued")
    BY <1>0 DEF Defer
  <2> QED BY <1>2, <2>1, StatusRow DEF CampaignInv, NONTERMINAL_CONTACT
<1>4. Parked(c0)
  BY <1>0, <1>1, <1>2 DEF WorkerInv, Parked, Target
<1>5. ~\E i \in DOMAIN calls[c0] : Open(calls[c0][i])
  BY <1>0, <1>1, <1>2 DEF WorkerInv, ContactInv, Waits, Dialing, Done, TerminalContact, Claiming
<1>6. UNCHANGED <<campaign, calls, queue, retries, parked, web, env>>
  BY DEF Defer
<1>7. /\ row.status = "queued" => Parked(c0)
      /\ (\E i \in DOMAIN calls[c0] : Open(calls[c0][i])) =>
            row.status \in TerminalContact \cup {"dialing"}
      /\ Parked(c0) => row.status = "queued" \/ (row.status = "pending" /\ row.attempts > 0)
  BY <1>3, <1>4, <1>5
<1> QED BY <1>0, <1>1, <1>3, <1>6, <1>7, FinishKeeps

\* A failed dial is counted in the row after its retry was parked.
LEMMA CountFailureKeeps ==
    ASSUME CampaignInv, Shape', NEW w \in Workers, CountFailure(w)
    PROVE  CampaignInv'
<1>0. PICK c0 : c0 = Target(w)
  OBVIOUS
<1>1. worker[w].pc = "count_failure" /\ worker[w].pc \in Working /\ Return(w)
  BY DEF CountFailure, At, Working, Calling
<1>2. WorkerInv(w) /\ LocalInv(w)
  BY <1>1 DEF CampaignInv, WorkerInv
<1> DEFINE row == [status |-> "pending", attempts |-> Failures(w)]
<1>3. row \in Row /\ row.status = "pending" /\ row.attempts > 0
  BY <1>2 DEF LocalInv, Failures, Row, NONTERMINAL_CONTACT
<1>4. SetContact(c0, row)
  BY <1>0 DEF CountFailure
<1> HIDE DEF row
<1>5. \A i \in DOMAIN calls[c0] : ~Open(calls[c0][i])
  BY <1>0, <1>1, <1>2 DEF WorkerInv, Silent, NoOpen
<1>6. UNCHANGED <<campaign, calls, queue, retries, parked, web, env>>
  BY DEF CountFailure
<1> QED BY <1>0, <1>1, <1>3, <1>4, <1>5, <1>6, FinishKeeps

\* The accepted dial is counted in the row, and the job is finished.
LEMMA MarkContactKeeps ==
    ASSUME CampaignInv, Shape', NEW w \in Workers, MarkContactDialing(w)
    PROVE  CampaignInv'
<1>0. PICK c0 : c0 = Target(w)
  OBVIOUS
<1>1. worker[w].pc = "mark_contact" /\ worker[w].pc \in Working /\ Return(w)
  BY DEF MarkContactDialing, At, Working, Calling
<1>2. WorkerInv(w) /\ LocalInv(w)
  BY <1>1 DEF CampaignInv, WorkerInv
<1> DEFINE row == [status |-> "dialing", attempts |-> worker[w].attempts + 1]
<1>3. row \in Row /\ row.status = "dialing"
  BY <1>2 DEF LocalInv, Row, NONTERMINAL_CONTACT
<1>4. SetContact(c0, row)
  BY <1>0 DEF MarkContactDialing
<1> HIDE DEF row
<1>5. ~Parked(c0)
  BY <1>0, <1>1, <1>2 DEF WorkerInv, Handed
<1>6. UNCHANGED <<campaign, calls, queue, retries, parked, web, env>>
  BY DEF MarkContactDialing
<1> QED BY <1>0, <1>1, <1>3, <1>4, <1>5, <1>6, FinishKeeps

\* The conditional update takes a contact that waits, or gives the job up.
LEMMA ClaimContactKeeps ==
    ASSUME CampaignInv, Shape', NEW w \in Workers, ClaimContact(w)
    PROVE  CampaignInv'
<1>0. PICK c0 : c0 = Target(w)
  OBVIOUS
<1>1. worker[w].pc = "claim_contact" /\ worker[w].pc \in Working
  BY DEF ClaimContact, At, Working, Claiming
<1>2. WorkerInv(w) /\ LocalInv(w) /\ c0 \in Contacts /\ ContactInv(c0) /\ worker[w].job \in Job
  BY <1>0, <1>1, Owner DEF CampaignInv, WorkerInv
<1>3. contact[c0].status \in Claimable
  BY <1>0, <1>1, <1>2 DEF WorkerInv, Claiming, Waits, Claimable
<1>4. SetStatus(c0, "dialing") /\ Goto(w, "mint")
  BY <1>0, <1>3 DEF ClaimContact
<1>5. /\ contact' \in [Contacts -> Row] /\ contact'[c0].status = "dialing"
      /\ \A d \in Contacts : d # c0 => contact'[d] = contact[d]
      /\ aged' \subseteq aged /\ c0 \notin aged'
  BY <1>2, <1>4, SetStatusDoes DEF CampaignInv, TypeInv, NONTERMINAL_CONTACT
<1>6. /\ Same(w) /\ worker'[w].pc = "mint" /\ worker'[w].attempts = worker[w].attempts
      /\ worker'[w].verdict = worker[w].verdict
  BY <1>4, GotoDoes DEF CampaignInv
<1>7. LocalInv(w)'
  BY <1>1, <1>2, <1>6 DEF LocalInv, Working, Looping, Calling, Claiming, Same
<1>8. ~Parked(c0) /\ NoOpen(c0)
  BY <1>0, <1>1, <1>2 DEF WorkerInv, ContactInv, Waits, Dialing, Done, TerminalContact,
     Claiming,
     Handed, NoOpen
<1>9. Target(w)' = c0
  BY <1>0, <1>6 DEF Same, Target
<1>10. WorkerInv(w)'
  BY <1>5, <1>6, <1>7, <1>8, <1>9 DEF WorkerInv, Claiming, Parked, NoOpen, Dialing, ClaimContact
<1>11. TypeInv'
  BY <1>5 DEF CampaignInv, TypeInv, Typed, ClaimContact
<1>12. JobStep(w)
  BY <1>0, <1>5, <1>6 DEF JobStep, Same, ClaimContact
<1> QED
  BY <1>0, <1>1, <1>5, <1>6, <1>8, <1>10, <1>11, <1>12, JobKeeps
  DEF Same, ClaimContact, NoOpen

\* The minted call is the contact's last, and no earlier one has an open room.
LEMMA MintKeeps ==
    ASSUME CampaignInv, Shape', NEW w \in Workers, Mint(w)
    PROVE  CampaignInv'
<1>0. PICK c0 : c0 = Target(w)
  OBVIOUS
<1>1. worker[w].pc = "mint" /\ worker[w].pc \in Working
  BY DEF Mint, At, Working, Calling
<1>2. WorkerInv(w) /\ LocalInv(w) /\ c0 \in Contacts /\ ContactInv(c0) /\ worker[w].job \in Job
  BY <1>0, <1>1, Owner DEF CampaignInv, WorkerInv
<1>3. calls[c0] \in Seq(Call) /\ NewCall \in Call /\ ~Open(NewCall)
  BY <1>2, NewCallType DEF CampaignInv, TypeInv, Typed
<1>4. calls' = [calls EXCEPT ![c0] = Append(calls[c0], NewCall)]
  BY <1>0 DEF Mint
<1>5. /\ calls' \in [Contacts -> Seq(Call)]
      /\ Len(calls'[c0]) = Len(calls[c0]) + 1
      /\ \A i \in 1..Len(calls[c0]) : calls'[c0][i] = calls[c0][i]
      /\ calls'[c0][Len(calls[c0]) + 1] = NewCall
      /\ \A d \in Contacts : d # c0 => calls'[d] = calls[d]
  BY <1>2, <1>3, <1>4, AppendProperties DEF CampaignInv, TypeInv, Typed
<1>6. /\ worker'[w].pc = "dial" /\ worker'[w].call = Len(calls[c0]) + 1 /\ Same(w)
      /\ worker'[w].attempts = worker[w].attempts /\ worker'[w].verdict = worker[w].verdict
  <2> DEFINE r == [worker[w] EXCEPT !.pc = "dial", !.call = Len(calls[Target(w)]) + 1]
  <2>1. worker' = [worker EXCEPT ![w] = r]
    BY DEF Mint
  <2>2. /\ r.pc = "dial" /\ r.call = Len(calls[c0]) + 1 /\ r.back = worker[w].back
        /\ r.job = worker[w].job /\ r.todo = worker[w].todo
        /\ r.attempts = worker[w].attempts /\ r.verdict = worker[w].verdict
    BY <1>0 DEF CampaignInv, Shape, Local, Fields
  <2> HIDE DEF r
  <2> QED BY <2>1, <2>2 DEF CampaignInv, Shape, Same, Others
<1>7. LocalInv(w)'
  BY <1>1, <1>2, <1>6 DEF LocalInv, Working, Looping, Calling, Same
<1>8. Target(w)' = c0
  BY <1>0, <1>6 DEF Same, Target
<1>9. ~Parked(c0) /\ NoOpen(c0) /\ Dialing(c0)
  BY <1>0, <1>1, <1>2 DEF WorkerInv, Handed, Silent, Calling
<1>10. \A i \in DOMAIN calls'[c0] : ~Open(calls'[c0][i])
  <2>1. DOMAIN calls[c0] = 1..Len(calls[c0]) /\ DOMAIN calls'[c0] = 1..Len(calls'[c0])
    BY <1>2, <1>3, <1>5
  <2> QED BY <1>3, <1>5, <1>9, <2>1 DEF NoOpen
<1>11. WorkerInv(w)'
  <2>1. Len(calls[c0]) \in Nat
    BY <1>3
  <2> QED
    BY <1>5, <1>6, <1>7, <1>8, <1>9, <1>10, <2>1
    DEF WorkerInv, Claiming, Parked, NoOpen, Dialing, Mint
<1>12. TypeInv'
  BY <1>5 DEF CampaignInv, TypeInv, Typed, Mint
<1>13. JobStep(w)
  BY <1>0, <1>5, <1>6 DEF JobStep, Same, Mint
<1> QED
  BY <1>0, <1>1, <1>6, <1>10, <1>11, <1>12, <1>13, JobKeeps DEF Same

\* A step that writes the call in hand.
LEMMA CallStepKeeps ==
    ASSUME CampaignInv, Shape', NEW w \in Workers,
           worker[w].pc \in {"dial", "accepted", "failed"},
           NEW row \in Call, SetCall(w, row), NEW pc, Goto(w, pc),
           \/ pc = "accepted" /\ worker[w].pc = "dial"
           \/ pc = "mark_contact" /\ worker[w].pc = "accepted"
           \/ /\ pc \in {"failed", "terminal", "backoff"}
              /\ worker[w].pc # "accepted" /\ ~Open(row),
           UNCHANGED <<campaign, contact, aged, queue, retries, parked, web, env>>
    PROVE  CampaignInv'
<1>0. PICK c0 : c0 = Target(w)
  OBVIOUS
<1>1. worker[w].pc \in Working /\ worker[w].pc \in Calling /\ worker[w].pc \notin Handed
  BY DEF Working, Calling, Handed
<1>2. WorkerInv(w) /\ LocalInv(w) /\ c0 \in Contacts /\ ContactInv(c0) /\ worker[w].job \in Job
  BY <1>0, <1>1, Owner DEF CampaignInv, WorkerInv
<1>3. /\ calls[c0] \in Seq(Call) /\ worker[w].call = Len(calls[c0])
      /\ worker[w].call \in 1..Len(calls[c0])
  BY <1>0, <1>2 DEF CampaignInv, TypeInv, Typed, WorkerInv
<1>4. /\ calls' \in [Contacts -> Seq(Call)]
      /\ Len(calls'[c0]) = Len(calls[c0])
      /\ calls'[c0][Len(calls[c0])] = row
      /\ \A i \in 1..Len(calls[c0]) : i # Len(calls[c0]) => calls'[c0][i] = calls[c0][i]
      /\ \A d \in Contacts : d # c0 => calls'[d] = calls[d]
  BY <1>0, <1>2, <1>3, SetCallDoes DEF CampaignInv, TypeInv
<1>5. /\ Same(w) /\ worker'[w].pc = pc /\ worker'[w].attempts = worker[w].attempts
      /\ worker'[w].verdict = worker[w].verdict /\ worker'[w].call = worker[w].call
  BY GotoDoes DEF CampaignInv
<1>6. LocalInv(w)'
  BY <1>1, <1>2, <1>5 DEF LocalInv, Working, Looping, Calling, Claiming, Same
<1>7. Target(w)' = c0
  BY <1>0, <1>5 DEF Same, Target
<1>8. ~Parked(c0) /\ Dialing(c0)
  BY <1>0, <1>1, <1>2 DEF WorkerInv
<1>9. DOMAIN calls[c0] = 1..Len(calls[c0]) /\ DOMAIN calls'[c0] = 1..Len(calls[c0])
  BY <1>2, <1>3, <1>4
<1>10. ~Open(row) /\ worker[w].pc # "accepted" => NoOpen(c0)'
  BY <1>0, <1>2, <1>4, <1>9 DEF WorkerInv, NoOpen, Silent
<1>11. \A i \in DOMAIN calls'[c0] : Open(calls'[c0][i]) => i = Len(calls'[c0])
  BY <1>2, <1>4, <1>9 DEF ContactInv
<1>12. WorkerInv(w)'
  BY <1>2, <1>3, <1>4, <1>5, <1>6, <1>7, <1>8, <1>10
  DEF WorkerInv, Claiming, Parked, Dialing, Handed, Silent
<1>13. TypeInv'
  BY <1>4 DEF CampaignInv, TypeInv, Typed
<1>14. JobStep(w)
  BY <1>0, <1>4, <1>5 DEF JobStep, Same
<1>15. Dialing(c0)'
  BY <1>8 DEF Dialing
<1> QED
  BY <1>0, <1>1, <1>5, <1>11, <1>12, <1>13, <1>14, <1>15, JobKeeps DEF Same

\* A failed dial parks its retry while the contact is still marked as being dialled.
LEMMA BackoffKeeps ==
    ASSUME CampaignInv, Shape', NEW w \in Workers, Backoff(w)
    PROVE  CampaignInv'
<1>0. PICK c0 : c0 = Target(w)
  OBVIOUS
<1>1. worker[w].pc = "backoff" /\ Goto(w, "count_failure") /\ Schedule(worker[w].job)
  BY DEF Backoff, At
<1>2. worker[w].pc \in Working \ Handed
  BY <1>1 DEF Working, Calling, Handed
<1>3. WorkerInv(w) /\ LocalInv(w) /\ c0 \in Contacts /\ ContactInv(c0)
  BY <1>0, <1>2, Owner DEF CampaignInv, WorkerInv
<1>4. /\ Same(w) /\ worker'[w].pc = "count_failure" /\ worker'[w].attempts = worker[w].attempts
      /\ worker'[w].verdict = worker[w].verdict
  BY <1>1, GotoDoes DEF CampaignInv
<1>5. LocalInv(w)'
  BY <1>1, <1>2, <1>3, <1>4 DEF LocalInv, Working, Looping, Calling, Claiming, Same
<1>6. /\ retries' = retries \cup {worker[w].job} /\ retries' \subseteq Job
      /\ parked \subseteq parked' /\ \A k \in parked' \ parked : k \in Keys(retries')
  BY <1>1, <1>2, ScheduleOwn
<1>7. WorkerInv(w)'
  BY <1>1, <1>3, <1>4, <1>5 DEF WorkerInv, Claiming, Calling, Target, Backoff,
     Dialing, Handed, Silent, Same, NoOpen
<1>8. TypeInv'
  BY <1>6 DEF CampaignInv, TypeInv, Typed, Backoff
<1>9. JobStep(w)
  BY <1>2, <1>4, <1>6 DEF JobStep, Same, Backoff
<1> QED
  BY <1>0, <1>2, <1>3, <1>4, <1>7, <1>8, <1>9, JobKeeps
  DEF Same, Backoff, ContactInv, Done, Dialing

\* Processing a job keeps the invariant, in an orderly run.
LEMMA ProcessKeeps ==
    ASSUME Regime, CampaignInv, Shape', NEW w \in Workers, ProcessJob(w)
    PROVE  CampaignInv'
<1>1. CASE PreflightNotRunning(w)
  BY <1>1, Owner DEF PreflightNotRunning, At, Working, Claiming
<1>2. CASE Park(w) \/ ParkJob(w) \/ Throw(w) \/ ClaimRaises(w)
  BY <1>2 DEF Park, ParkJob, Throw, ClaimRaises, At, Regime, CampaignInv, WorkerInv, LocalInv,
     Working, Looping, Claiming, Calling
<1>3. ASSUME worker[w].pc \in {"dial", "accepted", "failed"} PROVE CallOf(w) \in Call
  <2>1. worker[w].pc \in Working /\ WorkerInv(w)
    BY <1>3 DEF Working, Calling, CampaignInv
  <2>2. Target(w) \in Contacts /\ worker[w].call = Len(calls[Target(w)]) /\ worker[w].call > 0
    BY <1>3, <2>1, Owner DEF WorkerInv
  <2>3. calls[Target(w)] \in Seq(Call)
    BY <2>2 DEF CampaignInv, TypeInv, Typed
  <2> QED BY <2>2, <2>3 DEF CallOf
<1>4. CASE DialAccepted(w)
  <2> DEFINE row == [CallOf(w) EXCEPT !.room = "live", !.connected = TRUE]
  <2>1. worker[w].pc = "dial" /\ SetCall(w, row) /\ Goto(w, "accepted")
    BY <1>4 DEF DialAccepted, At
  <2>2. row \in Call
    BY <1>3, <2>1, CallSet, Words, Truth, Zenon
  <2> HIDE DEF row
  <2> QED BY <1>4, <2>1, <2>2, CallStepKeeps DEF DialAccepted
<1>5. CASE DialFailed(w)
  <2> DEFINE row == [CallOf(w) EXCEPT !.room = "none"]
  <2>1. worker[w].pc = "dial" /\ SetCall(w, row) /\ Goto(w, "failed")
    BY <1>5 DEF DialFailed, At, Regime
  <2>2. row \in Call /\ row.room = "none"
    BY <1>3, <2>1, CallSet, Words, Truth, Zenon
  <2> HIDE DEF row
  <2> QED BY <1>5, <2>1, <2>2, CallStepKeeps DEF DialFailed, Open
<1>6. CASE FailCall(w)
  <2> DEFINE row == [CallOf(w) EXCEPT !.status = "failed"]
  <2>1. worker[w].pc = "failed" /\ SetCall(w, row)
        /\ (Goto(w, "terminal") \/ Goto(w, "backoff"))
    BY <1>6 DEF FailCall, At
  <2>2. row \in Call /\ row.room = CallOf(w).room
    BY <1>3, <2>1, CallSet, Words, Truth, Zenon
  <2>3. ~Open(CallOf(w))
    <3>1. worker[w].pc \in Working /\ WorkerInv(w)
      BY <2>1 DEF Working, Calling, CampaignInv
    <3>2. calls[Target(w)] \in Seq(Call) /\ worker[w].call \in DOMAIN calls[Target(w)]
      BY <2>1, <3>1, Owner DEF CampaignInv, TypeInv, Typed, WorkerInv
    <3> QED BY <2>1, <3>1, <3>2 DEF WorkerInv, Silent, NoOpen, CallOf
  <2> HIDE DEF row
  <2> QED BY <1>6, <2>1, <2>2, <2>3, CallStepKeeps DEF FailCall, Open
<1>7. CASE MarkCallDialing(w)
  <2> DEFINE row == [CallOf(w) EXCEPT !.status = "dialing", !.swept = FALSE]
  <2>1. worker[w].pc = "accepted" /\ SetCall(w, row) /\ Goto(w, "mark_contact")
    BY <1>7 DEF MarkCallDialing, At
  <2>2. row \in Call
    BY <1>3, <2>1, CallSet, Words, Truth, Zenon
  <2> HIDE DEF row
  <2> QED BY <1>7, <2>1, <2>2, CallStepKeeps DEF MarkCallDialing
<1> QED
  BY <1>1, <1>2, <1>4, <1>5, <1>6, <1>7, RefuseKeeps, PassKeeps, TerminalKeeps, AdmitKeeps,
     RefuseSlotsKeeps, DeferKeeps, ClaimContactKeeps, MintKeeps, BackoffKeeps,
     CountFailureKeeps,
     MarkContactKeeps DEF ProcessJob

-----------------------------------------------------------------------------
\* What stays when a replica with no job in hand moves on.
LEMMA LoopKeeps ==
    ASSUME CampaignInv, Shape', NEW w \in Workers,
           worker[w].pc \in Looping \ {"refill"}, worker'[w].pc \in Looping \ {"refill"},
           Others(w), worker'[w].job = worker[w].job, worker'[w].todo = worker[w].todo,
           UNCHANGED <<campaign, contact, aged, calls, queue, retries, web, env>>,
           WorkerInv(w)', KeyExact'
    PROVE  CampaignInv'
<1>1. /\ \A v \in Workers : v # w => worker'[v] = worker[v]
      /\ \A v \in Workers : Target(v)' = Target(v) /\ worker'[v].todo = worker[v].todo
  BY DEF Others, Target
<1>2. \A c : /\ Queued(c)' <=> Queued(c)
             /\ Parked(c)' <=> Parked(c)
             /\ Busy(c)' <=> Busy(c)
             /\ \A v \in Workers : Taken(v, c)' <=> Taken(v, c)
  BY <1>1 DEF Queued, Parked, Busy, Taken
<1>3. (\A c : HasJob(c)' <=> HasJob(c))
  BY <1>2 DEF HasJob
<1>4. \A v \in Workers : At(v, "refill")' <=> At(v, "refill")
  BY <1>1 DEF At
<1>5. (\A c : Locked(c)' <=> Locked(c)) /\ (LockFree' <=> LockFree)
  BY <1>1, <1>4 DEF Locked, LockFree, At
<1>6. ASSUME NEW c \in Contacts PROVE ContactInv(c)'
  BY <1>2, <1>3, <1>5 DEF CampaignInv, ContactInv, Waits, Dialing, Done, Untouched
<1>7. ASSUME NEW v \in Workers, v # w PROVE WorkerInv(v)'
  <2>1. WorkerInv(v) /\ worker'[v] = worker[v]
    BY <1>1, <1>7 DEF CampaignInv
  <2> QED
    BY <1>1, <1>2, <2>1 DEF WorkerInv, LocalInv, Waits, Dialing, Done, NoOpen
<1>8. \A v \in Workers : WorkerInv(v)'
  BY <1>7
<1>9. OwnInv'
  BY <1>1 DEF CampaignInv, OwnInv
<1>10. LockInv'
  BY <1>4 DEF CampaignInv, LockInv
<1>11. TypeInv'
  BY DEF CampaignInv, TypeInv, Typed
<1> QED BY <1>6, <1>8, <1>9, <1>10, <1>11 DEF CampaignInv

\* Where no replica starts or stops holding keys, exactness stays.
LEMMA ExactKeeps ==
    ASSUME CampaignInv, NEW w \in Workers, Others(w), worker[w].pc # "free",
           UNCHANGED <<parked, retries>>
    PROVE  KeyExact'
<1>1. \A v \in Workers : \A k \in Held(v) : k \in Held(v)'
  BY DEF Held, At, Others, Keys, DedupeKey
<1>2. Keys(retries)' = Keys(retries)
  BY DEF Keys, DedupeKey
<1> QED BY <1>1, <1>2 DEF CampaignInv, KeyExact

\* What is true of a replica between jobs.
LEMMA LoopGoto ==
    ASSUME CampaignInv, Shape', NEW w \in Workers,
           NEW pc \in Looping \ {"refill", "heal", "requeue"},
           worker[w].pc \in Looping \ {"refill", "free"}, Goto(w, pc),
           worker[w].todo # {} => pc = "retries",
           pc = "complete" => \A c \in Contacts : Done(c),
           UNCHANGED <<campaign, contact, aged, calls, queue, retries, parked, web, env>>
    PROVE  CampaignInv'
<1>1. /\ Same(w) /\ worker'[w].pc = pc /\ worker'[w].attempts = worker[w].attempts
      /\ worker'[w].verdict = worker[w].verdict /\ worker'[w].rows = worker[w].rows
  BY GotoDoes DEF CampaignInv
<1>2. WorkerInv(w) /\ LocalInv(w)
  BY DEF CampaignInv, WorkerInv
<1>3. worker'[w].job = NoJob /\ ~Parked(Target(w))'
  <2>1. worker'[w].job = NoJob
    BY <1>1, <1>2 DEF Same, LocalInv
  <2>2. Target(w)' \notin Contacts
    BY <2>1, CampaignAssumption DEF Target, NoJob
  <2> QED BY <2>1, <2>2 DEF Parked, CampaignInv, TypeInv, Typed, Job
<1>4. LocalInv(w)'
  BY <1>1, <1>2, <1>3 DEF LocalInv, Working, Looping, Calling, Claiming, Same
<1>5. WorkerInv(w)'
  BY <1>1, <1>3, <1>4 DEF WorkerInv, Looping, Claiming, Calling, Silent, Done
<1>6. KeyExact'
  BY <1>1, ExactKeeps DEF Same
<1> QED BY <1>1, <1>5, <1>6, LoopKeeps DEF Same

\* Deleting the keys of a claimed batch of retries frees exactly those of the batch.
LEMMA FreeKeysKeeps ==
    ASSUME CampaignInv, Shape', NEW w \in Workers, FreeKeys(w)
    PROVE  CampaignInv'
<1>0. worker[w].pc = "free" /\ Goto(w, "retries")
  BY DEF FreeKeys, At
<1>1. /\ Same(w) /\ worker'[w].pc = "retries" /\ worker'[w].attempts = worker[w].attempts
      /\ worker'[w].verdict = worker[w].verdict
  BY <1>0, GotoDoes DEF CampaignInv
<1>2. WorkerInv(w) /\ LocalInv(w)
  BY DEF CampaignInv, WorkerInv
<1>3. worker'[w].job = NoJob /\ ~Parked(Target(w))'
  <2>1. worker'[w].job = NoJob
    BY <1>0, <1>1, <1>2 DEF Same, LocalInv, Looping
  <2>2. Target(w)' \notin Contacts
    BY <2>1, CampaignAssumption DEF Target, NoJob
  <2> QED BY <2>1, <2>2 DEF Parked, CampaignInv, TypeInv, Typed, Job, FreeKeys
<1>4. LocalInv(w)'
  BY <1>0, <1>1, <1>2, <1>3 DEF LocalInv, Working, Looping, Calling, Claiming, Same
<1>5. WorkerInv(w)'
  BY <1>1, <1>3, <1>4 DEF WorkerInv, Looping, Claiming, Calling, Silent
<1>6. KeyExact'
  <2>1. parked' = parked \ Held(w) /\ retries' = retries
    BY <1>0 DEF FreeKeys, Held
  <2>2. \A v \in Workers : v # w => Held(v)' = Held(v)
    BY <1>1 DEF Held, At, Same, Others, Keys, DedupeKey
  <2>3. Keys(retries)' = Keys(retries)
    BY <2>1 DEF Keys, DedupeKey
  <2> QED BY <2>1, <2>2, <2>3 DEF CampaignInv, KeyExact
<1> QED BY <1>0, <1>1, <1>5, <1>6, LoopKeeps DEF Same, FreeKeys, Looping

\* Taking a job up moves it from where it was into the replica's hands.
LEMMA BeginKeeps ==
    ASSUME CampaignInv, Shape', NEW w \in Workers, worker[w].pc \in {"pop", "retries"},
           NEW job \in Job, NEW c0, c0 = job.contact, NEW back \in {"claim", "retries"},
           NEW todo \in SUBSET worker[w].todo, Begin(w, job, back, todo),
           todo # {} => back = "retries",
           UNCHANGED <<campaign, contact, aged, calls, retries, parked, web, env>>,
           queue' \in Seq(Job), HasJob(c0),
           Waits(c0), ~Parked(c0), ~Busy(c0), ~Queued(c0)',
           \A v \in Workers : ~Taken(v, c0)',
           \A c \in Contacts : c # c0 => (Queued(c)' <=> Queued(c)),
           \A c \in Contacts : c # c0 => (Taken(w, c)' <=> Taken(w, c)),
           \A i, k \in DOMAIN queue' : queue'[i].contact = queue'[k].contact => i = k
    PROVE  CampaignInv'
<1>1. /\ worker'[w].pc = "preflight" /\ worker'[w].back = back /\ worker'[w].job = job
      /\ worker'[w].todo = todo /\ worker'[w].attempts = 0 /\ worker'[w].verdict = "failed"
      /\ \A v \in Workers : v # w => worker'[v] = worker[v]
  <2> DEFINE r == [Idle EXCEPT !.pc = "preflight", !.back = back, !.job = job, !.todo = todo]
  <2>1. /\ r.pc = "preflight" /\ r.back = back /\ r.job = job /\ r.todo = todo
        /\ r.attempts = 0 /\ r.verdict = "failed"
    BY DEF Idle
  <2>2. worker' = [worker EXCEPT ![w] = r]
    BY DEF Begin
  <2> HIDE DEF r
  <2> QED BY <2>1, <2>2 DEF CampaignInv, Shape
<1>2. WorkerInv(w) /\ LocalInv(w) /\ c0 \in Contacts /\ Target(w) = "none"
  BY DEF CampaignInv, WorkerInv, LocalInv, Looping, Target, NoJob, Job
<1>3. Target(w)' = c0 /\ \A v \in Workers : v # w => Target(v)' = Target(v)
  BY <1>1 DEF Target
<1>4. \A c : Parked(c)' <=> Parked(c)
  BY DEF Parked
<1>5. \A c \in Contacts : c # c0 => (Busy(c)' <=> Busy(c))
  BY <1>2, <1>3, CampaignAssumption DEF Busy
<1>6. \A c \in Contacts : c # c0 => \A v \in Workers : Taken(v, c)' <=> Taken(v, c)
  BY <1>1 DEF Taken
<1>7. \A v \in Workers : At(v, "refill")' <=> At(v, "refill")
  BY <1>1 DEF At
<1>8. (\A c : Locked(c)' <=> Locked(c)) /\ (LockFree' <=> LockFree)
  BY <1>1, <1>7 DEF Locked, LockFree, At
<1>9. ASSUME NEW c \in Contacts, c # c0 PROVE ContactInv(c)'
  <2>1. HasJob(c)' <=> HasJob(c)
    BY <1>4, <1>5, <1>6, <1>9 DEF HasJob
  <2> QED
    BY <1>4, <1>5, <1>6, <1>8, <1>9, <2>1
    DEF CampaignInv, ContactInv, Waits, Dialing, Done, Untouched
<1>10. ContactInv(c0)'
  <2>1. ContactInv(c0) /\ Busy(c0)'
    BY <1>2, <1>3 DEF CampaignInv, Busy
  <2>2. HasJob(c0)' /\ ~Parked(c0)'
    BY <2>1, <1>4 DEF HasJob
  <2>3. c0 \notin aged' /\ ~Locked(c0)'
    BY <2>1, <1>8 DEF ContactInv, Waits, Dialing
  <2> QED
    BY <1>8, <2>1, <2>2, <2>3 DEF ContactInv, Waits, Dialing, Done, Untouched
<1>11. WorkerInv(w)'
  <2>1. LocalInv(w)'
    BY <1>1, <1>2 DEF LocalInv, Working, Looping, Calling, Claiming
  <2> QED
    BY <1>1, <1>3, <1>4, <2>1 DEF WorkerInv, Claiming, Calling, Silent, Waits
<1>12. ASSUME NEW v \in Workers, v # w PROVE WorkerInv(v)'
  <2>1. WorkerInv(v) /\ worker'[v] = worker[v] /\ Target(v)' = Target(v)
    BY <1>1, <1>3, <1>12 DEF CampaignInv
  <2>2. LocalInv(v)'
    BY <2>1 DEF WorkerInv, LocalInv
  <2>3. worker[v].pc = "heal" =>
           \A c \in worker[v].rows : Done(c)' \/ (Dialing(c)' /\ ~Busy(c)')
    <3> SUFFICES ASSUME worker[v].pc = "heal", NEW c \in worker[v].rows
                 PROVE  Done(c)' \/ (Dialing(c)' /\ ~Busy(c)')
      OBVIOUS
    <3>1. c \in Contacts /\ (Done(c) \/ (Dialing(c) /\ ~Busy(c)))
      BY <2>1 DEF WorkerInv, LocalInv
    <3>2. c # c0
      BY <3>1 DEF Waits, Done, Dialing, TerminalContact
    <3> QED BY <1>5, <3>1, <3>2 DEF Done, Dialing
  <2> QED
    BY <1>4, <2>1, <2>2, <2>3 DEF WorkerInv, Waits, Dialing, Done, NoOpen
<1>13. \A v \in Workers : WorkerInv(v)'
  BY <1>11, <1>12
<1>14. OwnInv'
  <2>1. \A v \in Workers : v # w => Target(v) # c0
    BY DEF Busy
  <2>2. \A u, v \in Workers : Target(u)' = Target(v)' /\ Target(u)' \in Contacts => u = v
    BY <1>3, <2>1 DEF CampaignInv, OwnInv
  <2>3. \A u, v \in Workers : \A i \in worker'[u].todo, j \in worker'[v].todo :
           i.contact = j.contact => u = v /\ i = j
    <3>1. \A v \in Workers : worker'[v].todo \subseteq worker[v].todo
      BY <1>1
    <3> QED BY <3>1 DEF CampaignInv, OwnInv
  <2> QED BY <2>2, <2>3 DEF CampaignInv, OwnInv
<1>15. LockInv'
  BY <1>7 DEF CampaignInv, LockInv
<1>16. TypeInv'
  BY DEF CampaignInv, TypeInv, Typed
<1>17. KeyExact'
  <2>1. Others(w)
    BY <1>1 DEF Others
  <2> QED BY <2>1, ExactKeeps
<1> QED BY <1>9, <1>10, <1>13, <1>14, <1>15, <1>16, <1>17 DEF CampaignInv

\* The head of the queue moves into the replica's hands; its contact has no other job.
LEMMA PopKeeps ==
    ASSUME CampaignInv, Shape', NEW w \in Workers, Pop(w)
    PROVE  CampaignInv'
<1>0. worker[w].pc = "pop" /\ WorkerInv(w) /\ LocalInv(w)
  BY DEF Pop, At, CampaignInv, WorkerInv
<1>1. worker[w].todo = {}
  BY <1>0 DEF LocalInv, Working, Claiming, Calling
<1>2. CASE queue = <<>>
  BY <1>0, <1>1, <1>2, LoopGoto DEF Pop, Looping
<1>3. CASE queue # <<>>
  <2>1. queue \in Seq(Job) /\ Len(queue) \in Nat /\ Len(queue) > 0
    BY <1>3, EmptySeq, LenProperties DEF CampaignInv, TypeInv, Typed
  <2> DEFINE n == Len(queue)
  <2>2. PICK job, c0 : job = queue[n] /\ c0 = job.contact
    OBVIOUS
  <2>3. job \in Job /\ c0 \in Contacts /\ n \in DOMAIN queue
    <3>1. n \in DOMAIN queue /\ queue[n] \in Job
      BY <2>1
    <3> QED BY <2>2, <3>1 DEF Job
  <2>4. /\ queue' \in Seq(Job) /\ Len(queue') = n - 1
        /\ \A i \in 1..(n - 1) : queue'[i] = queue[i]
    <3>1. queue' = SubSeq(queue, 1, n - 1)
      BY <1>3 DEF Pop, Front
    <3>2. \A i \in 1..(n - 1) : queue[i] \in Job
      BY <2>1
    <3>3. 1 \in Int /\ n - 1 \in Int
      BY <2>1
    <3> HIDE DEF n
    <3>4. /\ SubSeq(queue, 1, n - 1) \in Seq(Job)
          /\ Len(SubSeq(queue, 1, n - 1)) = IF 1 <= n - 1 THEN (n - 1) - 1 + 1 ELSE 0
          /\ \A i \in 1..((n - 1) - 1 + 1) : SubSeq(queue, 1, n - 1)[i] = queue[1 + i - 1]
      BY <3>2, <3>3, SubSeqProperties
    <3>5. n \in Nat /\ n > 0
      BY <2>1 DEF n
    <3> QED BY <3>1, <3>4, <3>5
  <2>5. Begin(w, job, "claim", {})
    BY <1>3, <2>2 DEF Pop, Last
  <2>6. DOMAIN queue = 1..n /\ DOMAIN queue' = 1..(n - 1)
    BY <2>1, <2>4
  <2>7. \A c : Queued(c)' <=> \E i \in 1..(n - 1) : queue[i].contact = c
    BY <2>4, <2>6 DEF Queued
  <2>8. \A c : Queued(c) <=> \E i \in 1..n : queue[i].contact = c
    BY <2>6 DEF Queued
  <2>9. ~Queued(c0)'
    BY <2>1, <2>2, <2>6, <2>7 DEF CampaignInv, OwnInv
  <2>10. \A c \in Contacts : c # c0 => (Queued(c)' <=> Queued(c))
    BY <2>1, <2>2, <2>7, <2>8
  <2>11. Queued(c0) /\ ContactInv(c0)
    BY <2>2, <2>3 DEF Queued, CampaignInv
  <2>12. HasJob(c0) /\ Waits(c0) /\ ~Parked(c0) /\ ~Busy(c0) /\ \A v \in Workers : ~Taken(v, c0)
    BY <2>11 DEF HasJob, ContactInv, Waits
  <2>13. /\ worker'[w].todo = {} /\ \A v \in Workers : v # w => worker'[v] = worker[v]
    BY <2>5 DEF Begin, Idle, CampaignInv, Shape
  <2>14. \A v \in Workers : \A c : Taken(v, c)' <=> Taken(v, c)
    BY <1>1, <2>13 DEF Taken
  <2>15. \A i, k \in DOMAIN queue' : queue'[i].contact = queue'[k].contact => i = k
    BY <2>1, <2>4, <2>6 DEF CampaignInv, OwnInv
  <2>16. UNCHANGED <<campaign, contact, aged, calls, retries, parked, web, env>>
    BY DEF Pop
  <2> HIDE DEF n
  <2> QED
    BY <1>0, <2>2, <2>3, <2>4, <2>5, <2>9, <2>10, <2>12, <2>14, <2>15, <2>16, BeginKeeps
<1> QED BY <1>2, <1>3

\* The next claimed retry moves from the batch in memory to the job in hand.
LEMMA NextRetryKeeps ==
    ASSUME CampaignInv, Shape', NEW w \in Workers, NextRetry(w)
    PROVE  CampaignInv'
<1>0. worker[w].pc = "retries" /\ WorkerInv(w) /\ LocalInv(w)
  BY DEF NextRetry, At, CampaignInv, WorkerInv
<1>1. CASE worker[w].todo = {}
  BY <1>0, <1>1, LoopGoto DEF NextRetry, Looping
<1>2. CASE worker[w].todo # {}
  <2>1. PICK job \in worker[w].todo : Begin(w, job, "retries", worker[w].todo \ {job})
    BY <1>2 DEF NextRetry
  <2>2. PICK c0 : c0 = job.contact
    OBVIOUS
  <2>3. job \in Job /\ c0 \in Contacts
    BY <1>0, <2>2 DEF LocalInv, Job
  <2>4. Taken(w, c0) /\ ContactInv(c0)
    BY <2>2, <2>3 DEF Taken, CampaignInv
  <2>5. HasJob(c0) /\ Waits(c0) /\ ~Parked(c0) /\ ~Busy(c0) /\ ~Queued(c0)
    BY <2>4 DEF HasJob, ContactInv
  <2>6. /\ worker'[w].todo = worker[w].todo \ {job}
        /\ \A v \in Workers : v # w => worker'[v] = worker[v]
    BY <2>1 DEF Begin, Idle, CampaignInv, Shape
  <2>7. \A v \in Workers : ~Taken(v, c0)'
    BY <2>2, <2>6 DEF Taken, CampaignInv, OwnInv
  <2>8. \A c \in Contacts : c # c0 => (Taken(w, c)' <=> Taken(w, c))
    BY <2>2, <2>6 DEF Taken
  <2>9. UNCHANGED <<campaign, contact, aged, calls, queue, retries, parked, web, env>>
    BY DEF NextRetry
  <2>10. \A c : Queued(c)' <=> Queued(c)
    BY <2>9 DEF Queued
  <2>11. queue' \in Seq(Job)
         /\ \A i, k \in DOMAIN queue' : queue'[i].contact = queue'[k].contact => i = k
    BY <2>9 DEF CampaignInv, TypeInv, Typed, OwnInv
  <2>12. worker[w].todo \ {job} \in SUBSET worker[w].todo
    OBVIOUS
  <2> QED
    BY <1>0, <2>1, <2>2, <2>3, <2>5, <2>7, <2>8, <2>9, <2>10, <2>11, <2>12, BeginKeeps
<1> QED BY <1>1, <1>2

\* The due retries move from the set into one replica's memory, all at once.
LEMMA ClaimDueKeeps ==
    ASSUME Regime, CampaignInv, Shape', NEW w \in Workers, ClaimDue(w)
    PROVE  CampaignInv'
<1>1. PICK due : /\ due \subseteq retries /\ \A j \in due : ~Busy(j.contact)
                 /\ retries' = retries \ due
                 /\ worker' = [worker EXCEPT ![w] =
                                 [worker[w] EXCEPT !.pc = "free", !.todo = due]]
  BY DEF ClaimDue, Regime
<1>2. /\ worker[w].pc = "claim"
      /\ UNCHANGED <<campaign, contact, aged, calls, queue, parked, web, env>>
  BY DEF ClaimDue, At
<1>3. WorkerInv(w) /\ LocalInv(w) /\ worker[w].todo = {} /\ worker[w].job = NoJob
  BY <1>2 DEF CampaignInv, WorkerInv, LocalInv, Looping, Working, Claiming, Calling
<1>4. /\ worker'[w].pc = "free" /\ worker'[w].back = worker[w].back /\ worker'[w].job = NoJob
      /\ worker'[w].todo = due /\ worker'[w].attempts = worker[w].attempts
      /\ worker'[w].verdict = worker[w].verdict
      /\ \A v \in Workers : v # w => worker'[v] = worker[v]
  <2> DEFINE r == [worker[w] EXCEPT !.pc = "free", !.todo = due]
  <2>1. /\ r.pc = "free" /\ r.back = worker[w].back /\ r.job = worker[w].job
        /\ r.todo = due /\ r.attempts = worker[w].attempts /\ r.verdict = worker[w].verdict
    BY DEF CampaignInv, Shape, Local, Fields
  <2>2. worker' = [worker EXCEPT ![w] = r]
    BY <1>1
  <2> HIDE DEF r
  <2> QED BY <1>3, <2>1, <2>2 DEF CampaignInv, Shape
<1>5. \A v \in Workers : Target(v)' = Target(v)
  BY <1>3, <1>4 DEF Target
<1>6. \A c : (Busy(c)' <=> Busy(c)) /\ (Queued(c)' <=> Queued(c))
  BY <1>2, <1>5 DEF Busy, Queued
<1>7. \A c : ~Taken(w, c) /\ \A v \in Workers : v # w => (Taken(v, c)' <=> Taken(v, c))
  BY <1>3, <1>4 DEF Taken
<1>8. \A c : Taken(w, c)' => Parked(c) /\ ~Parked(c)' /\ ~Busy(c)
  BY <1>1, <1>4 DEF Taken, Parked, CampaignInv, OwnInv
<1>9. \A c : /\ Parked(c)' => Parked(c)
             /\ Parked(c) => Parked(c)' \/ Taken(w, c)'
  BY <1>1, <1>4 DEF Parked, Taken
<1>10. \A c : HasJob(c)' <=> HasJob(c)
  <2>1. \A c : HasJob(c) => HasJob(c)'
    BY <1>6, <1>7, <1>9 DEF HasJob
  <2>2. \A c : HasJob(c)' => HasJob(c)
    BY <1>6, <1>7, <1>8, <1>9 DEF HasJob
  <2> QED BY <2>1, <2>2
<1>11. \A v \in Workers : At(v, "refill")' <=> At(v, "refill")
  BY <1>2, <1>4 DEF At
<1>12. (\A c : Locked(c)' <=> Locked(c)) /\ (LockFree' <=> LockFree)
  BY <1>2, <1>4, <1>11 DEF Locked, LockFree, At
<1>13. ASSUME NEW c \in Contacts PROVE ContactInv(c)'
  <2>1. ContactInv(c)
    BY DEF CampaignInv
  <2>2. \A v \in Workers : Taken(v, c)' => Waits(c) /\ ~Queued(c)' /\ ~Parked(c)' /\ ~Busy(c)'
    BY <1>6, <1>7, <1>8, <1>9, <2>1 DEF ContactInv
  <2> QED
    BY <1>2, <1>6, <1>9, <1>10, <1>12, <2>1, <2>2
    DEF ContactInv, Waits, Dialing, Done, Untouched
<1>14. LocalInv(w)'
  <2>1. due \subseteq Job
    BY <1>1 DEF CampaignInv, TypeInv, Typed
  <2> QED
    BY <1>3, <1>4, <2>1 DEF LocalInv, Working, Looping, Calling, Claiming
<1>15. WorkerInv(w)'
  <2>1. Target(w)' \notin Contacts
    BY <1>4, CampaignAssumption DEF Target, NoJob
  <2>2. ~Parked(Target(w))'
    BY <1>1, <2>1 DEF Parked, CampaignInv, TypeInv, Typed, Job
  <2> QED BY <1>4, <1>14, <2>2 DEF WorkerInv, Claiming, Calling, Silent
<1>16. ASSUME NEW v \in Workers, v # w PROVE WorkerInv(v)'
  <2>1. WorkerInv(v) /\ worker'[v] = worker[v] /\ Target(v)' = Target(v)
    BY <1>4, <1>5, <1>16 DEF CampaignInv
  <2>2. LocalInv(v)'
    BY <2>1 DEF WorkerInv, LocalInv
  <2>3. Parked(Target(v))' => Parked(Target(v))
    BY <1>9, <2>1
  <2>4. worker[v].pc = "defer" => worker[v].job \in retries'
    <3>1. worker[v].pc = "defer" => Target(v) \in Contacts /\ worker[v].job \in retries
      BY <2>1 DEF WorkerInv, LocalInv, Working, Claiming, Job, Target
    <3> QED BY <1>1, <3>1 DEF Busy, Target
  <2> QED
    BY <1>2, <1>6, <2>1, <2>2, <2>3, <2>4 DEF WorkerInv, Waits, Dialing, Done, NoOpen
<1>17. \A v \in Workers : WorkerInv(v)'
  BY <1>15, <1>16
<1>18. OwnInv'
  <2>1. \A u, v \in Workers : \A i \in worker'[u].todo, j \in worker'[v].todo :
           i.contact = j.contact => u = v /\ i = j
    <3>1. \A v \in Workers : v # w => \A i \in due, j \in worker[v].todo : i.contact # j.contact
      <4> SUFFICES ASSUME NEW v \in Workers, v # w, NEW i \in due, NEW j \in worker[v].todo,
                          i.contact = j.contact
                   PROVE  FALSE
        OBVIOUS
      <4>1. j \in Job /\ j.contact \in Contacts
        BY DEF CampaignInv, WorkerInv, LocalInv, Job
      <4>2. Parked(j.contact) /\ Taken(v, j.contact)
        BY <1>1 DEF Parked, Taken
      <4> QED BY <4>1, <4>2 DEF CampaignInv, ContactInv
    <3>2. \A i, j \in due : i.contact = j.contact => i = j
      BY <1>1 DEF CampaignInv, OwnInv
    <3> QED BY <1>4, <3>1, <3>2 DEF CampaignInv, OwnInv
  <2> QED BY <1>1, <1>2, <1>5, <2>1 DEF CampaignInv, OwnInv
<1>19. LockInv' /\ TypeInv'
  BY <1>1, <1>2, <1>11 DEF CampaignInv, LockInv, TypeInv, Typed
<1>20. KeyExact'
  <2>1. Held(w)' = Keys(due) /\ \A v \in Workers : v # w => Held(v)' = Held(v)
    BY <1>4 DEF Held, At, Keys, DedupeKey
  <2>2. Held(w) = {} /\ \A k \in Keys(retries) : k \in Keys(retries)' \/ k \in Keys(due)
    BY <1>1, <1>2 DEF Held, At, Keys, DedupeKey
  <2> QED BY <1>2, <2>1, <2>2 DEF CampaignInv, KeyExact
<1> QED BY <1>13, <1>17, <1>18, <1>19, <1>20 DEF CampaignInv

\* Every step of the main loop outside process_job keeps the invariant.
LEMMA LoopStepKeeps ==
    ASSUME Regime, CampaignInv, Shape', NEW w \in Workers, MainLoop(w)
    PROVE  CampaignInv'
<1>1. CASE NoneDue(w)
  <2>1. worker[w].todo = {}
    BY <1>1 DEF NoneDue, At, CampaignInv, WorkerInv, LocalInv, Working, Claiming, Calling
  <2> QED BY <1>1, <2>1, LoopGoto DEF NoneDue, At, Looping
<1>2. CASE SkipSweep(w)
  <2>1. worker[w].todo = {}
    BY <1>2 DEF SkipSweep, At, CampaignInv, WorkerInv, LocalInv, Working, Claiming, Calling
  <2> QED BY <1>2, <2>1, LoopGoto DEF SkipSweep, At, Looping
<1> QED
  BY <1>1, <1>2, PopKeeps, ClaimDueKeeps, FreeKeysKeeps, NextRetryKeeps DEF MainLoop

-----------------------------------------------------------------------------
\* What happens to calls and rows outside a job: rooms end, and a contact that
\* is done with or only waits for its call to end is settled.
LEMMA SettleKeeps ==
    ASSUME CampaignInv, Shape', TypeInv',
           \A v \in Workers :
              /\ worker'[v].pc = worker[v].pc /\ worker'[v].back = worker[v].back
              /\ worker'[v].job = worker[v].job /\ worker'[v].todo = worker[v].todo
              /\ worker'[v].attempts = worker[v].attempts /\ worker'[v].call = worker[v].call
              /\ worker'[v].verdict = worker[v].verdict
              /\ worker'[v].rows \subseteq worker[v].rows
              /\ worker[v].pc = "refill" => worker'[v].rows = worker[v].rows,
           UNCHANGED <<queue, retries, parked, web>>,
           \/ campaign' = campaign
           \/ campaign' = "completed" /\ \A c \in Contacts : Done(c)',
           \A c \in Contacts :
              \/ contact'[c] = contact[c]
              \/ /\ Done(c)' /\ c \notin aged'
                 /\ Done(c) \/ (Dialing(c) /\ ~Busy(c)),
           \A c \in Contacts :
              /\ Len(calls'[c]) = Len(calls[c]) /\ DOMAIN calls'[c] = DOMAIN calls[c]
              /\ \A i \in DOMAIN calls[c] : Open(calls'[c][i]) => Open(calls[c][i]),
           \A c \in aged' \ aged : Dialing(c) /\ ~Busy(c)
    PROVE  CampaignInv'
<1>1. \A v \in Workers : Target(v)' = Target(v) /\ worker'[v].todo = worker[v].todo
  BY DEF Target
<1>2. \A c : /\ Queued(c)' <=> Queued(c)
             /\ Parked(c)' <=> Parked(c)
             /\ Busy(c)' <=> Busy(c)
             /\ \A v \in Workers : Taken(v, c)' <=> Taken(v, c)
  BY <1>1 DEF Queued, Parked, Busy, Taken
<1>3. (\A c : HasJob(c)' <=> HasJob(c))
  BY <1>2 DEF HasJob
<1>4. \A v \in Workers : At(v, "refill")' <=> At(v, "refill")
  BY DEF At
<1>5. (\A c : Locked(c)' <=> Locked(c)) /\ (LockFree' <=> LockFree)
  BY <1>4 DEF Locked, LockFree, At
<1>6. \A c \in Contacts : Done(c) => Done(c)'
  BY DEF Done
<1>7. ASSUME NEW c \in Contacts PROVE ContactInv(c)'
  <2>1. ContactInv(c)
    BY DEF CampaignInv
  <2>2. \A i \in DOMAIN calls'[c] :
           Open(calls'[c][i]) => i = Len(calls'[c]) /\ (Done(c)' \/ Dialing(c)')
    BY <1>6, <2>1 DEF ContactInv, Dialing
  <2>3. campaign' = "completed" => Done(c)'
    BY <1>6, <2>1 DEF ContactInv
  <2>4. campaign' = "draft" => campaign = "draft"
    OBVIOUS
  <2>5. CASE contact'[c] = contact[c]
    <3>1. c \in aged' => Dialing(c) /\ ~Busy(c)
      BY <2>1 DEF ContactInv
    <3> QED
      BY <1>2, <1>3, <1>5, <2>1, <2>2, <2>3, <2>4, <2>5, <3>1
      DEF ContactInv, Waits, Dialing, Done, Untouched
  <2>6. CASE Done(c)' /\ c \notin aged' /\ (Done(c) \/ (Dialing(c) /\ ~Busy(c)))
    <3>1. ~Queued(c) /\ ~Locked(c) /\ ~Waits(c)
      BY <2>1, <2>6 DEF ContactInv, Waits, Dialing, Done, TerminalContact
    <3>2. contact'[c].status # "queued"
      BY <2>6 DEF Done, TerminalContact
    <3>3. \A v \in Workers : ~Taken(v, c)
      BY <2>1, <2>6 DEF ContactInv, Waits, Dialing, Done, TerminalContact
    <3>4. Parked(c) => Busy(c)
      BY <2>1, <3>1 DEF ContactInv
    <3> QED
      BY <1>2, <1>5, <2>2, <2>3, <2>6, <3>1, <3>2, <3>3, <3>4 DEF ContactInv
  <2> QED BY <2>5, <2>6
<1>8. ASSUME NEW v \in Workers PROVE WorkerInv(v)'
  <2>1. WorkerInv(v) /\ LocalInv(v)
    BY DEF CampaignInv, WorkerInv
  <2>2. LocalInv(v)'
    BY <2>1 DEF LocalInv
  <2>3. worker[v].pc \in Working =>
          /\ Target(v) \in Contacts /\ contact'[Target(v)] = contact[Target(v)]
    BY Owner DEF Busy
  <2>4. worker[v].pc \in Silent => NoOpen(Target(v))'
    BY <1>1, <2>1, <2>3 DEF WorkerInv, NoOpen, Silent, Working, Calling
  <2>5. worker[v].pc = "heal" =>
           \A c \in worker'[v].rows : Done(c)' \/ (Dialing(c)' /\ ~Busy(c)')
    <3> SUFFICES ASSUME worker[v].pc = "heal", NEW c \in worker'[v].rows
                 PROVE  Done(c)' \/ (Dialing(c)' /\ ~Busy(c)')
      OBVIOUS
    <3>1. c \in Contacts /\ (Done(c) \/ (Dialing(c) /\ ~Busy(c)))
      BY <2>1 DEF WorkerInv, LocalInv
    <3> QED BY <1>2, <1>6, <3>1 DEF Dialing
  <2>6. worker[v].pc = "refill" => campaign' # "draft"
    BY <2>1 DEF WorkerInv
  <2>7. worker[v].pc = "complete" => \A c \in Contacts : Done(c)'
    BY <1>6, <2>1 DEF WorkerInv
  <2>8. worker[v].pc \in {"dial", "accepted", "failed"} =>
           worker'[v].call = Len(calls'[Target(v)]) /\ worker'[v].call > 0
    BY <2>1, <2>3 DEF WorkerInv, Working, Calling
  <2>9. /\ worker[v].pc \in Claiming => Waits(Target(v))'
        /\ worker[v].pc \in Calling => Dialing(Target(v))'
        /\ worker[v].pc = "terminal" => Waits(Target(v))' \/ Dialing(Target(v))'
    BY <1>1, <2>1, <2>3 DEF WorkerInv, Waits, Dialing, Working
  <2> QED
    BY <1>1, <1>2, <2>1, <2>2, <2>4, <2>5, <2>6, <2>7, <2>8, <2>9 DEF WorkerInv
<1>9. OwnInv'
  BY <1>1 DEF CampaignInv, OwnInv
<1>10. LockInv'
  BY <1>4 DEF CampaignInv, LockInv
<1>11. KeyExact'
  <2>1. Keys(retries)' = Keys(retries) /\ \A v \in Workers : Held(v)' = Held(v)
    BY DEF Keys, DedupeKey, Held, At
  <2> QED BY <2>1 DEF CampaignInv, KeyExact
<1> QED BY <1>7, <1>8, <1>9, <1>10, <1>11 DEF CampaignInv

\* Writing fields other than the room of calls of c, or closing a room.
LEMMA CallWrite ==
    ASSUME Typed, NEW c \in Contacts, NEW i \in DOMAIN calls[c], NEW row \in Call,
           Open(row) => Open(calls[c][i]), calls' = [calls EXCEPT ![c][i] = row]
    PROVE  /\ calls' \in [Contacts -> Seq(Call)]
           /\ \A d \in Contacts :
                 /\ Len(calls'[d]) = Len(calls[d]) /\ DOMAIN calls'[d] = DOMAIN calls[d]
                 /\ \A k \in DOMAIN calls[d] : Open(calls'[d][k]) => Open(calls[d][k])
<1> DEFINE s == calls[c]
<1>1. s \in Seq(Call) /\ i \in 1..Len(s) /\ DOMAIN s = 1..Len(s)
  BY DEF TypeInv, Typed
<1>2. calls' = [calls EXCEPT ![c] = [s EXCEPT ![i] = row]]
  OBVIOUS
<1>3. [s EXCEPT ![i] = row] \in Seq(Call) /\ Len([s EXCEPT ![i] = row]) = Len(s)
      /\ DOMAIN [s EXCEPT ![i] = row] = DOMAIN s
      /\ [s EXCEPT ![i] = row][i] = row
      /\ \A k \in 1..Len(s) : k # i => [s EXCEPT ![i] = row][k] = s[k]
  BY <1>1, ExceptSeq
<1> DEFINE t == [s EXCEPT ![i] = row]
<1>4. calls'[c] = t /\ \A d \in Contacts : d # c => calls'[d] = calls[d]
  BY <1>2 DEF TypeInv, Typed
<1>5. calls' \in [Contacts -> Seq(Call)]
  BY <1>2, <1>3 DEF TypeInv, Typed
<1>6. \A k \in DOMAIN s : Open(t[k]) => Open(s[k])
  BY <1>1, <1>3
<1> HIDE DEF s, t
<1>7. Len(t) = Len(s) /\ DOMAIN t = DOMAIN s
  BY <1>3 DEF t
<1>8. s = calls[c]
  BY DEF s
<1> QED BY <1>4, <1>5, <1>6, <1>7, <1>8

\* Healing one row: the row is left, or its contact ends; the calls keep their number.
LEMMA HealDoes ==
    ASSUME Typed, NEW w \in Workers, worker[w].rows \subseteq Contacts, Heal(w)
    PROVE  \E c \in worker[w].rows :
              /\ worker' = [worker EXCEPT ![w].rows = @ \ {c}]
              /\ contact' \in [Contacts -> Row] /\ aged' \subseteq aged
              /\ \A d \in Contacts :
                    contact'[d] = contact[d] \/ (d = c /\ Done(c)' /\ c \notin aged')
              /\ calls' \in [Contacts -> Seq(Call)]
              /\ \A d \in Contacts :
                    /\ Len(calls'[d]) = Len(calls[d]) /\ DOMAIN calls'[d] = DOMAIN calls[d]
                    /\ \A k \in DOMAIN calls[d] : Open(calls'[d][k]) => Open(calls[d][k])
<1> DEFINE latest(c) == Last(calls[c])
           mirrored(c) == calls[c] # <<>> /\ latest(c).status \in CALL_TERMINAL_MIRROR
           live(c) == /\ calls[c] # <<>>
                      /\ latest(c).status = "answered" /\ latest(c).room = "live"
           fail(c) == Append(Front(calls[c]),
                             [latest(c) EXCEPT !.status = "failed", !.swept = TRUE])
<1>1. PICK c \in worker[w].rows :
         /\ worker' = [worker EXCEPT ![w].rows = @ \ {c}]
         /\ IF live(c) THEN UNCHANGED <<contact, aged>>
            ELSE SetStatus(c, IF mirrored(c) THEN latest(c).status ELSE "failed")
         /\ \/ calls' = calls
            \/ calls[c] # <<>> /\ calls' = [calls EXCEPT ![c] = fail(c)]
  <2>1. PICK c \in worker[w].rows :
          LET none == calls[c] = <<>>
              last == Last(calls[c])
              mirror == ~none /\ last.status \in CALL_TERMINAL_MIRROR
              alive == ~none /\ last.status = "answered" /\ last.room = "live"
          IN /\ worker' = [worker EXCEPT ![w].rows = @ \ {c}]
             /\ IF alive THEN UNCHANGED <<contact, aged>>
                ELSE SetStatus(c, IF mirror THEN last.status ELSE "failed")
             /\ IF alive \/ mirror \/ none THEN UNCHANGED calls
                ELSE calls' = [calls EXCEPT ![c] =
                       Append(Front(@), [last EXCEPT !.status = "failed", !.swept = TRUE])]
    BY DEF Heal
  <2>2. IF live(c) THEN UNCHANGED <<contact, aged>>
        ELSE SetStatus(c, IF mirrored(c) THEN latest(c).status ELSE "failed")
    BY <2>1
  <2>3. \/ calls' = calls
        \/ calls[c] # <<>> /\ calls' = [calls EXCEPT ![c] = fail(c)]
    BY <2>1
  <2> QED BY <2>1, <2>2, <2>3
<1>3. c \in Contacts
  BY <1>1
<1>5. /\ contact' \in [Contacts -> Row] /\ aged' \subseteq aged
      /\ \A d \in Contacts : contact'[d] = contact[d] \/ (d = c /\ Done(c)' /\ c \notin aged')
  <2>1. CASE live(c)
    BY <1>1, <2>1 DEF Typed
  <2>2. CASE ~live(c)
    <3>1. PICK st : st = (IF mirrored(c) THEN latest(c).status ELSE "failed")
      OBVIOUS
    <3>2. SetStatus(c, st) /\ st \in TerminalContact
      BY <1>1, <2>2, <3>1 DEF CALL_TERMINAL_MIRROR, TerminalContact
    <3> HIDE DEF mirrored, latest, live
    <3> QED BY <1>3, <3>2, SetStatusDoes DEF Done
  <2> QED BY <2>1, <2>2
<1>6. /\ calls' \in [Contacts -> Seq(Call)]
      /\ \A d \in Contacts :
            /\ Len(calls'[d]) = Len(calls[d]) /\ DOMAIN calls'[d] = DOMAIN calls[d]
            /\ \A k \in DOMAIN calls[d] : Open(calls'[d][k]) => Open(calls[d][k])
  <2>1. CASE calls' = calls
    BY <2>1 DEF Typed
  <2>2. CASE calls[c] # <<>> /\ calls' = [calls EXCEPT ![c] = fail(c)]
    <3> DEFINE s == calls[c]  n == Len(s)
               row == [latest(c) EXCEPT !.status = "failed", !.swept = TRUE]
    <3>1. s \in Seq(Call) /\ n \in Nat /\ n > 0 /\ DOMAIN s = 1..n
      BY <1>3, <2>2, EmptySeq, LenProperties DEF Typed
    <3>2. latest(c) \in Call /\ latest(c) = s[n] /\ n \in DOMAIN s
      BY <3>1 DEF Last
    <3>3. row \in Call /\ row.room = s[n].room
      <4>1. row \in Call /\ row.room = latest(c).room
        BY <3>2, CallSet, Words, Truth, Zenon
      <4> HIDE DEF row
      <4> QED BY <3>2, <4>1
    <3>4. Open(row) => Open(s[n])
      BY <3>3 DEF Open
    <3>5. fail(c) = [s EXCEPT ![n] = row]
      <4> HIDE DEF row, latest
      <4>1. \A i \in 1..(n - 1) : s[i] \in Call
        BY <3>1
      <4>2. 1 \in Int /\ n - 1 \in Int
        BY <3>1
      <4>3. n \in Nat /\ n > 0
        BY <3>1
      <4> DEFINE f == Front(s)
      <4>4. f = SubSeq(s, 1, n - 1)
        BY DEF Front
      <4> HIDE DEF n
      <4> HIDE DEF f
      <4>0. /\ SubSeq(s, 1, n - 1) \in Seq(Call)
            /\ Len(SubSeq(s, 1, n - 1)) = IF 1 <= n - 1 THEN (n - 1) - 1 + 1 ELSE 0
            /\ \A i \in 1..((n - 1) - 1 + 1) : SubSeq(s, 1, n - 1)[i] = s[1 + i - 1]
        <5> HIDE DEF s
        <5> QED BY <4>1, <4>2, SubSeqProperties
      <4>5. /\ f \in Seq(Call) /\ Len(f) = IF 1 <= n - 1 THEN (n - 1) - 1 + 1 ELSE 0
            /\ \A i \in 1..((n - 1) - 1 + 1) : f[i] = s[1 + i - 1]
        BY <4>0, <4>4
      <4>6. Len(f) = n - 1 /\ \A i \in 1..(n - 1) : f[i] = s[i]
        BY <4>3, <4>5
      <4>7. /\ Append(f, row) \in Seq(Call) /\ Len(Append(f, row)) = n
            /\ \A i \in 1..(n - 1) : Append(f, row)[i] = f[i]
            /\ Append(f, row)[n] = row
        BY <3>3, <4>3, <4>5, <4>6, AppendProperties
      <4>8. /\ [s EXCEPT ![n] = row] \in Seq(Call) /\ Len([s EXCEPT ![n] = row]) = n
            /\ [s EXCEPT ![n] = row][n] = row
            /\ \A k \in 1..n : k # n => [s EXCEPT ![n] = row][k] = s[k]
        BY <3>1, <3>2, <3>3, ExceptSeq
      <4> DEFINE a == Append(f, row)  b == [s EXCEPT ![n] = row]
      <4>9. a \in Seq(Call) /\ b \in Seq(Call) /\ Len(a) = n /\ Len(b) = n
        BY <4>7, <4>8
      <4>10. \A i \in 1..n : a[i] = b[i]
        BY <4>3, <4>6, <4>7, <4>8
      <4> HIDE DEF a, b
      <4>11. a = b
        BY <4>9, <4>10, SeqEqual
      <4> QED BY <4>11 DEF a, b, f, row, latest
    <3>6. calls' = [calls EXCEPT ![c][n] = row]
      BY <2>2, <3>5
    <3> HIDE DEF row, latest, fail
    <3> QED BY <1>3, <3>2, <3>3, <3>4, <3>6, CallWrite
  <2> QED BY <1>1, <2>1, <2>2
<1> HIDE DEF mirrored, latest, live, fail
<1> QED BY <1>1, <1>5, <1>6

\* The sweep ends a contact left dialling only when no replica holds its job.
LEMMA HealKeeps ==
    ASSUME CampaignInv, Shape', NEW w \in Workers, Heal(w)
    PROVE  CampaignInv'
<1>0. worker[w].pc = "heal" /\ WorkerInv(w) /\ LocalInv(w)
  BY DEF Heal, At, CampaignInv, WorkerInv
<1>1. PICK c \in worker[w].rows :
         /\ worker' = [worker EXCEPT ![w].rows = @ \ {c}]
         /\ contact' \in [Contacts -> Row] /\ aged' \subseteq aged
         /\ \A d \in Contacts :
               contact'[d] = contact[d] \/ (d = c /\ Done(c)' /\ c \notin aged')
         /\ calls' \in [Contacts -> Seq(Call)]
         /\ \A d \in Contacts :
               /\ Len(calls'[d]) = Len(calls[d]) /\ DOMAIN calls'[d] = DOMAIN calls[d]
               /\ \A k \in DOMAIN calls[d] : Open(calls'[d][k]) => Open(calls[d][k])
  <2>1. worker[w].rows \subseteq Contacts
    BY <1>0 DEF LocalInv
  <2> QED BY <2>1, HealDoes DEF CampaignInv, TypeInv
<1>2. UNCHANGED <<campaign, queue, retries, parked, web, env>>
  BY DEF Heal
<1>3. c \in Contacts /\ (Done(c) \/ (Dialing(c) /\ ~Busy(c)))
  BY <1>0, <1>1 DEF WorkerInv, LocalInv
<1>4. \A v \in Workers :
         /\ worker'[v].pc = worker[v].pc /\ worker'[v].back = worker[v].back
         /\ worker'[v].job = worker[v].job /\ worker'[v].todo = worker[v].todo
         /\ worker'[v].attempts = worker[v].attempts /\ worker'[v].call = worker[v].call
         /\ worker'[v].verdict = worker[v].verdict
         /\ worker'[v].rows \subseteq worker[v].rows
         /\ worker[v].pc = "refill" => worker'[v].rows = worker[v].rows
  <2> DEFINE r == [worker[w] EXCEPT !.rows = worker[w].rows \ {c}]
  <2>1. /\ r.pc = worker[w].pc /\ r.back = worker[w].back /\ r.job = worker[w].job
        /\ r.todo = worker[w].todo /\ r.attempts = worker[w].attempts
        /\ r.call = worker[w].call /\ r.verdict = worker[w].verdict
        /\ r.rows \subseteq worker[w].rows
    BY DEF CampaignInv, Shape, Local, Fields
  <2>2. worker' = [worker EXCEPT ![w] = r]
    BY <1>1
  <2> HIDE DEF r
  <2>3. worker'[w] = r /\ \A v \in Workers : v # w => worker'[v] = worker[v]
    BY <2>2 DEF CampaignInv, Shape
  <2> QED BY <1>0, <2>1, <2>3
<1>7. TypeInv'
  BY <1>1, <1>2 DEF CampaignInv, TypeInv, Typed
<1> QED
  BY <1>1, <1>2, <1>3, <1>4, <1>7, SettleKeeps

\* The page of a sweep's rows: none of them is queued and waiting for nobody.
LEMMA SweepQueuedKeeps ==
    ASSUME CampaignInv, Shape', NEW w \in Workers, SweepQueued(w)
    PROVE  CampaignInv'
<1>0. worker[w].pc = "sweep" /\ WorkerInv(w) /\ LocalInv(w)
  BY DEF SweepQueued, At, CampaignInv, WorkerInv
<1>1. Stale("queued") = {}
  BY DEF Stale, CampaignInv, ContactInv, Dialing
<1>2. worker' = [worker EXCEPT ![w] = [worker[w] EXCEPT !.pc = "requeue", !.rows = {}]]
  <2>1. {[contact |-> c, attempt |-> contact[c].attempts, max |-> NoMax] :
           c \in Stale("queued")} = {}
    BY <1>1
  <2> QED BY <2>1 DEF SweepQueued
<1>3. UNCHANGED <<campaign, contact, aged, calls, queue, retries, parked, web, env>>
  BY DEF SweepQueued
<1>4. /\ worker'[w].pc = "requeue" /\ worker'[w].rows = {} /\ Same(w)
      /\ worker'[w].attempts = worker[w].attempts /\ worker'[w].verdict = worker[w].verdict
  <2> DEFINE r == [worker[w] EXCEPT !.pc = "requeue", !.rows = {}]
  <2>1. /\ r.pc = "requeue" /\ r.rows = {} /\ r.back = worker[w].back /\ r.job = worker[w].job
        /\ r.todo = worker[w].todo /\ r.attempts = worker[w].attempts
        /\ r.verdict = worker[w].verdict
    BY DEF CampaignInv, Shape, Local, Fields
  <2> HIDE DEF r
  <2>2. worker' = [worker EXCEPT ![w] = r]
    BY <1>2 DEF r
  <2> QED BY <2>1, <2>2 DEF CampaignInv, Shape, Same, Others
<1>5. worker'[w].job = NoJob /\ ~Parked(Target(w))'
  <2>1. worker'[w].job = NoJob
    BY <1>0, <1>4 DEF Same, LocalInv, Looping
  <2>2. Target(w)' \notin Contacts
    BY <2>1, CampaignAssumption DEF Target, NoJob
  <2> QED BY <1>3, <2>1, <2>2 DEF Parked, CampaignInv, TypeInv, Typed, Job
<1>6. LocalInv(w)'
  BY <1>0, <1>4, <1>5 DEF LocalInv, Working, Looping, Calling, Claiming, Same
<1>7. WorkerInv(w)'
  BY <1>4, <1>5, <1>6 DEF WorkerInv, Claiming, Calling, Silent
<1>8. KeyExact'
  BY <1>0, <1>3, <1>4, ExactKeeps DEF Same
<1> QED BY <1>0, <1>3, <1>4, <1>7, <1>8, LoopKeeps DEF Same, Looping

\* The page of contacts left dialling: each was aged, and none is in a replica's hands.
LEMMA SweepActiveKeeps ==
    ASSUME CampaignInv, Shape', NEW w \in Workers, SweepActive(w)
    PROVE  CampaignInv'
<1>0. worker[w].pc = "requeue" /\ WorkerInv(w) /\ LocalInv(w)
  BY DEF SweepActive, At, CampaignInv, WorkerInv
<1>1. PICK rows : rows = Stale("dialing")
  OBVIOUS
<1>2. \A c \in rows : c \in Contacts /\ Dialing(c) /\ ~Busy(c)
  BY <1>1 DEF Stale, CampaignInv, ContactInv, TypeInv, Typed
<1>3. UNCHANGED <<campaign, contact, aged, calls, queue, retries, parked, web, env>>
  BY DEF SweepActive
<1>4. /\ worker'[w].pc = "heal" /\ worker'[w].rows = rows /\ Same(w)
      /\ worker'[w].attempts = worker[w].attempts /\ worker'[w].verdict = worker[w].verdict
  <2> DEFINE r == [worker[w] EXCEPT !.pc = "heal", !.rows = rows]
  <2>1. /\ r.pc = "heal" /\ r.rows = rows /\ r.back = worker[w].back /\ r.job = worker[w].job
        /\ r.todo = worker[w].todo /\ r.attempts = worker[w].attempts
        /\ r.verdict = worker[w].verdict
    BY DEF CampaignInv, Shape, Local, Fields
  <2>2. worker' = [worker EXCEPT ![w] = r]
    BY <1>1 DEF SweepActive
  <2> HIDE DEF r
  <2> QED BY <2>1, <2>2 DEF CampaignInv, Shape, Same, Others
<1>5. worker'[w].job = NoJob /\ ~Parked(Target(w))'
  <2>1. worker'[w].job = NoJob
    BY <1>0, <1>4 DEF Same, LocalInv, Looping
  <2>2. Target(w)' \notin Contacts
    BY <2>1, CampaignAssumption DEF Target, NoJob
  <2> QED BY <1>3, <2>1, <2>2 DEF Parked, CampaignInv, TypeInv, Typed, Job
<1>6. LocalInv(w)'
  BY <1>0, <1>2, <1>4, <1>5 DEF LocalInv, Working, Looping, Calling, Claiming, Same
<1>7. \A c \in rows : Dialing(c)' /\ ~Busy(c)'
  <2>1. \A v \in Workers : Target(v)' = Target(v)
    BY <1>4 DEF Same, Others, Target
  <2> QED BY <1>2, <1>3, <2>1 DEF Dialing, Busy
<1>8. WorkerInv(w)'
  BY <1>4, <1>5, <1>6, <1>7 DEF WorkerInv, Claiming, Calling, Silent
<1>9. KeyExact'
  BY <1>0, <1>3, <1>4, ExactKeeps DEF Same
<1> QED BY <1>0, <1>3, <1>4, <1>8, <1>9, LoopKeeps DEF Same, Looping

\* All contacts are terminal exactly when no status is one that calls go on from.
LEMMA DrainedIsDone ==
    ASSUME NEW rows \in [Contacts -> Row], Drained(rows)
    PROVE  \A c \in Contacts : rows[c].status \in TerminalContact
BY DEF Drained, Row

\* The count of remaining contacts is zero only when every contact is done with.
LEMMA CountKeeps ==
    ASSUME CampaignInv, Shape', NEW w \in Workers, CountRemaining(w)
    PROVE  CampaignInv'
<1>0. worker[w].pc = "count" /\ WorkerInv(w) /\ LocalInv(w) /\ worker[w].todo = {}
  BY DEF CountRemaining, At, CampaignInv, WorkerInv, LocalInv, Working, Claiming, Calling
<1>1. Drained(contact) => \A c \in Contacts : Done(c)
  BY DrainedIsDone DEF CampaignInv, TypeInv, Typed, Done
<1> QED BY <1>0, <1>1, LoopGoto DEF CountRemaining, Looping

\* Where every contact is done with, a replica that starts over, or none, is all that moves.
LEMMA CompleteKeeps ==
    ASSUME CampaignInv, Shape', NEW w \in Workers, CompleteCampaign(w)
    PROVE  CampaignInv'
<1>0. worker[w].pc = "complete" /\ WorkerInv(w) /\ LocalInv(w)
  BY DEF CompleteCampaign, At, CampaignInv, WorkerInv
<1>1. /\ campaign' = "completed" /\ worker' = [worker EXCEPT ![w] = Idle]
      /\ UNCHANGED <<contact, aged, calls, queue, retries, parked, web, env>>
      /\ \A c \in Contacts : Done(c)
  BY <1>0 DEF CompleteCampaign, WorkerInv
<1>2. /\ worker'[w] = Idle /\ \A v \in Workers : v # w => worker'[v] = worker[v]
  BY <1>1 DEF CampaignInv, Shape
<1>3. worker[w].job = NoJob /\ worker[w].todo = {}
  BY <1>0 DEF LocalInv, Looping, Working, Claiming, Calling
<1>4. \A v \in Workers : Target(v)' = Target(v) /\ worker'[v].todo = worker[v].todo
  BY <1>2, <1>3 DEF Target, Idle
<1>5. \A c : /\ Queued(c)' <=> Queued(c)
             /\ Parked(c)' <=> Parked(c)
             /\ Busy(c)' <=> Busy(c)
             /\ \A v \in Workers : Taken(v, c)' <=> Taken(v, c)
  BY <1>1, <1>4 DEF Queued, Parked, Busy, Taken
<1>6. (\A c : HasJob(c)' <=> HasJob(c))
  BY <1>5 DEF HasJob
<1>7. \A v \in Workers : At(v, "refill")' <=> At(v, "refill")
  BY <1>0, <1>2 DEF At, Idle
<1>8. (\A c : Locked(c)' <=> Locked(c))
  BY <1>0, <1>1, <1>2, <1>7 DEF Locked, At
<1>9. ASSUME NEW c \in Contacts PROVE ContactInv(c)'
  BY <1>1, <1>5, <1>6, <1>8
  DEF CampaignInv, ContactInv, Waits, Dialing, Done, Untouched
<1>10. ASSUME NEW v \in Workers, v # w PROVE WorkerInv(v)'
  <2>1. WorkerInv(v) /\ worker'[v] = worker[v] /\ Target(v)' = Target(v)
    BY <1>2, <1>4, <1>10 DEF CampaignInv
  <2> QED
    BY <1>1, <1>5, <2>1 DEF WorkerInv, LocalInv, Waits, Dialing, Done, NoOpen
<1>11. WorkerInv(w)'
  <2>1. LocalInv(w)'
    BY <1>2 DEF LocalInv, Idle, Working, Looping, Claiming, Calling
  <2>2. ~Parked(Target(w))'
    <3>1. Target(w)' \notin Contacts
      BY <1>2, CampaignAssumption DEF Idle, Target, NoJob
    <3> QED BY <1>1, <3>1 DEF Parked, CampaignInv, TypeInv, Typed, Job
  <2> QED BY <1>2, <2>1, <2>2 DEF WorkerInv, Idle, Claiming, Calling, Silent
<1>12. \A v \in Workers : WorkerInv(v)'
  BY <1>10, <1>11
<1>13. OwnInv'
  BY <1>1, <1>4 DEF CampaignInv, OwnInv
<1>14. LockInv' /\ TypeInv'
  BY <1>1, <1>7 DEF CampaignInv, LockInv, TypeInv, Typed
<1>15. KeyExact'
  <2>1. Others(w) /\ worker[w].pc # "free"
    BY <1>0, <1>2 DEF Others
  <2> QED BY <1>1, <2>1, ExactKeeps
<1> QED BY <1>9, <1>12, <1>13, <1>14, <1>15 DEF CampaignInv

-----------------------------------------------------------------------------
\* An expired dedupe key takes no job with it.
LEMMA KeyExpiresKeeps ==
    ASSUME CampaignInv, Shape', KeyExpires
    PROVE  CampaignInv'
<1>1. UNCHANGED <<campaign, contact, aged, calls, queue, retries, web, worker, env>>
  BY DEF KeyExpires
<1>2. \A c : /\ Queued(c)' <=> Queued(c)
             /\ Parked(c)' <=> Parked(c)
             /\ Busy(c)' <=> Busy(c)
             /\ Locked(c)' <=> Locked(c)
             /\ \A v \in Workers : Taken(v, c)' <=> Taken(v, c)
  BY <1>1 DEF Queued, Parked, Busy, Taken, Target, Locked, At
<1>3. (\A c : HasJob(c)' <=> HasJob(c)) /\ (LockFree' <=> LockFree)
  BY <1>1, <1>2 DEF HasJob, LockFree
<1>4. ASSUME NEW c \in Contacts PROVE ContactInv(c)'
  BY <1>1, <1>2, <1>3 DEF CampaignInv, ContactInv, Waits, Dialing, Done, Untouched
<1>5. ASSUME NEW v \in Workers PROVE WorkerInv(v)'
  <2>1. WorkerInv(v) /\ Target(v)' = Target(v)
    BY <1>1 DEF CampaignInv, Target
  <2> QED
    BY <1>1, <1>2, <2>1 DEF WorkerInv, LocalInv, Waits, Dialing, Done, NoOpen
<1>6. OwnInv' /\ LockInv' /\ TypeInv'
  BY <1>1 DEF CampaignInv, OwnInv, LockInv, TypeInv, Typed, Target, At
<1>7. KeyExact'
  <2>1. Keys(retries)' = Keys(retries) /\ \A v \in Workers : Held(v)' = Held(v)
    BY <1>1 DEF Keys, DedupeKey, Held, At
  <2> QED BY <2>1 DEF CampaignInv, KeyExact, KeyExpires
<1> QED BY <1>4, <1>5, <1>6, <1>7 DEF CampaignInv

\* What LiveKit and the webhook do to one contact: a field of one of its calls, whose room may
\* close, and with an open room also the contact, which ends.
LEMMA OutsideDoes ==
    ASSUME Typed, NEW c \in Contacts,
           Answered(c) \/ HangUp(c) \/ RoomFinished(c) \/ WebhookLost(c)
    PROVE  /\ calls' \in [Contacts -> Seq(Call)]
           /\ \A d \in Contacts :
                 /\ Len(calls'[d]) = Len(calls[d]) /\ DOMAIN calls'[d] = DOMAIN calls[d]
                 /\ \A k \in DOMAIN calls[d] : Open(calls'[d][k]) => Open(calls[d][k])
           /\ contact' \in [Contacts -> Row]
           /\ UNCHANGED <<contact, aged, campaign>> \/ (RoomFinished(c) /\ ~NoOpen(c))
           /\ aged' \subseteq aged
           /\ \A d \in Contacts :
                 contact'[d] = contact[d] \/ (d = c /\ Done(c)' /\ c \notin aged')
           /\ campaign' = campaign \/ (campaign' = "completed" /\ \A d \in Contacts : Done(d)')
           /\ UNCHANGED env \/ Spend("lost")
<1> DEFINE kept == /\ calls' \in [Contacts -> Seq(Call)]
                   /\ \A d \in Contacts :
                        /\ Len(calls'[d]) = Len(calls[d]) /\ DOMAIN calls'[d] = DOMAIN calls[d]
                        /\ \A k \in DOMAIN calls[d] : Open(calls'[d][k]) => Open(calls[d][k])
<1>1. ASSUME Answered(c) PROVE kept
  <2>1. PICK i \in DOMAIN calls[c] : calls' = [calls EXCEPT ![c][i].status = "answered"]
    BY <1>1 DEF Answered
  <2> DEFINE row == [calls[c][i] EXCEPT !.status = "answered"]
  <2>2. calls[c][i] \in Call
    BY DEF Typed
  <2>3. row \in Call /\ row.room = calls[c][i].room
    BY <2>2, CallSet, Words, Truth, Zenon
  <2>4. calls' = [calls EXCEPT ![c][i] = row]
    BY <2>1
  <2> HIDE DEF row
  <2>5. Open(row) => Open(calls[c][i])
    BY <2>3 DEF Open
  <2> QED BY <2>3, <2>4, <2>5, CallWrite
<1>2. ASSUME HangUp(c) \/ WebhookLost(c) PROVE kept
  <2>1. PICK i \in DOMAIN calls[c], rm \in {"ended", "reported"} :
           calls' = [calls EXCEPT ![c][i].room = rm] /\ Open(calls[c][i])
    BY <1>2 DEF HangUp, WebhookLost, Open
  <2> DEFINE row == [calls[c][i] EXCEPT !.room = rm]
  <2>2. calls[c][i] \in Call
    BY DEF Typed
  <2>3. row \in Call
    BY <2>1, <2>2, CallSet, Words, Truth, Zenon
  <2>4. calls' = [calls EXCEPT ![c][i] = row]
    BY <2>1
  <2> HIDE DEF row
  <2> QED BY <2>1, <2>3, <2>4, CallWrite
<1>3. ASSUME RoomFinished(c)
      PROVE  /\ kept /\ ~NoOpen(c) /\ contact' \in [Contacts -> Row] /\ aged' \subseteq aged
             /\ \A d \in Contacts :
                   contact'[d] = contact[d] \/ (d = c /\ Done(c)' /\ c \notin aged')
  <2>1. PICK i \in DOMAIN calls[c] :
          LET call == calls[c][i]
              recovery == call.status = "failed" /\ call.swept
              status == IF recovery \/ call.status = "answered" THEN "completed"
                        ELSE call.status
              mirrors == NONTERMINAL_CONTACT \cup (IF recovery THEN {"failed"} ELSE {})
          IN /\ call.room = "ended"
             /\ calls' = [calls EXCEPT ![c][i] =
                            [call EXCEPT !.status = status, !.swept = @ /\ ~recovery,
                                         !.room = "reported"]]
             /\ IF contact[c].status \in mirrors THEN SetStatus(c, "completed")
                ELSE UNCHANGED <<contact, aged>>
    BY <1>3 DEF RoomFinished
  <2> DEFINE call == calls[c][i]
             recovery == call.status = "failed" /\ call.swept
             status == IF recovery \/ call.status = "answered" THEN "completed" ELSE call.status
             row == [call EXCEPT !.status = status, !.swept = @ /\ ~recovery,
                                 !.room = "reported"]
  <2>3. call \in Call
    BY DEF Typed
  <2>4. call.swept \in BOOLEAN /\ call.status \in Status
    BY <2>3 DEF Call
  <2>5. (call.swept /\ ~recovery) \in BOOLEAN
    BY <2>4
  <2>6. status \in Status
    BY <2>4 DEF Status
  <2>7. row \in Call
    <3> HIDE DEF call, recovery, status
    <3> QED BY <2>3, <2>5, <2>6, CallReported, Words, Zenon DEF row
  <2>8. calls' = [calls EXCEPT ![c][i] = row]
    BY <2>1
  <2>9. ~Open(row)
    BY <2>7 DEF Open
  <2>10. Open(calls[c][i])
    BY <2>1 DEF Open
  <2> HIDE DEF row, call, recovery, status
  <2>11. /\ calls' \in [Contacts -> Seq(Call)]
         /\ \A d \in Contacts :
               /\ Len(calls'[d]) = Len(calls[d]) /\ DOMAIN calls'[d] = DOMAIN calls[d]
               /\ \A k \in DOMAIN calls[d] : Open(calls'[d][k]) => Open(calls[d][k])
    BY <2>7, <2>8, <2>9, CallWrite
  <2>12. ~NoOpen(c)
    BY <2>10 DEF NoOpen
  <2>13. SetStatus(c, "completed") \/ UNCHANGED <<contact, aged>>
    BY <2>1
  <2>14. /\ contact' \in [Contacts -> Row] /\ aged' \subseteq aged
         /\ \A d \in Contacts :
               contact'[d] = contact[d] \/ (d = c /\ Done(c)' /\ c \notin aged')
    BY <2>13, SetStatusDoes DEF Typed, Done, TerminalContact
  <2> QED BY <2>11, <2>12, <2>14
<1>4. ASSUME RoomFinished(c)
      PROVE  campaign' = campaign \/ (campaign' = "completed" /\ \A d \in Contacts : Done(d)')
  BY <1>3, <1>4, DrainedIsDone DEF RoomFinished, Done
<1>5. UNCHANGED env \/ Spend("lost")
  BY DEF Answered, HangUp, RoomFinished, WebhookLost
<1>6. RoomFinished(c) \/ UNCHANGED <<contact, aged, campaign>>
  BY DEF Answered, HangUp, WebhookLost
<1>7. kept
  BY <1>1, <1>2, <1>3
<1> QED BY <1>3, <1>4, <1>5, <1>6, <1>7 DEF Typed

\* The steps of time, LiveKit and the webhook leave every job where it is.
LEMMA OutsideKeeps ==
    ASSUME Regime, CampaignInv, Shape', NEW c \in Contacts,
           Age(c) \/ Answered(c) \/ HangUp(c) \/ RoomFinished(c) \/ WebhookLost(c)
    PROVE  CampaignInv'
<1>0. UNCHANGED <<queue, retries, parked, web, worker>>
  BY DEF Age, Answered, HangUp, RoomFinished, WebhookLost
<1>1. CASE Age(c)
  <2>1. /\ UNCHANGED <<campaign, contact, calls, env>> /\ aged' = aged \cup {c}
        /\ ~Busy(c) /\ LockFree /\ ~Waiting(c) /\ contact[c].status \in {"queued", "dialing"}
    BY <1>1 DEF Age, Regime
  <2>2. ~Queued(c)
    <3>1. queue \in Seq(Job)
      BY DEF CampaignInv, TypeInv, Typed
    <3> QED BY <2>1, <3>1 DEF Queued, Waiting, ToSet
  <2>3. ~Parked(c) /\ \A w \in Workers : ~Taken(w, c)
    BY <2>1 DEF Waiting, Parked, Taken, InHand
  <2>4. ~Locked(c)
    BY <2>1 DEF Locked, LockFree, CampaignInv, LockInv, At
  <2>5. Dialing(c)
    BY <2>1, <2>2, <2>3, <2>4 DEF CampaignInv, ContactInv, HasJob, Dialing
  <2>6. TypeInv'
    BY <1>0, <2>1 DEF CampaignInv, TypeInv, Typed
  <2> QED BY <1>0, <2>1, <2>5, <2>6, SettleKeeps
<1>2. CASE Answered(c) \/ HangUp(c) \/ RoomFinished(c) \/ WebhookLost(c)
  <2>1. /\ calls' \in [Contacts -> Seq(Call)]
        /\ \A d \in Contacts :
              /\ Len(calls'[d]) = Len(calls[d]) /\ DOMAIN calls'[d] = DOMAIN calls[d]
              /\ \A k \in DOMAIN calls[d] : Open(calls'[d][k]) => Open(calls[d][k])
        /\ contact' \in [Contacts -> Row]
        /\ UNCHANGED <<contact, aged, campaign>> \/ (RoomFinished(c) /\ ~NoOpen(c))
        /\ aged' \subseteq aged
        /\ \A d \in Contacts :
              contact'[d] = contact[d] \/ (d = c /\ Done(c)' /\ c \notin aged')
        /\ campaign' = campaign \/ (campaign' = "completed" /\ \A d \in Contacts : Done(d)')
        /\ UNCHANGED env \/ Spend("lost")
    BY <1>2, OutsideDoes DEF CampaignInv, TypeInv
  <2>2. RoomFinished(c) => ~Busy(c)
    BY DEF RoomFinished, Regime
  <2>3. ~NoOpen(c) => Done(c) \/ Dialing(c)
    BY DEF NoOpen, CampaignInv, ContactInv
  <2>4. DOMAIN env' = {"refusals", "errors", "crashes", "lost"} /\ env'.crashes = 0
    BY <2>1, SpendKeepsType DEF CampaignInv, TypeInv
  <2>5. TypeInv'
    BY <1>0, <2>1, <2>4 DEF CampaignInv, TypeInv, Typed
  <2>6. \A d \in Contacts : \/ contact'[d] = contact[d]
                            \/ /\ Done(d)' /\ d \notin aged'
                               /\ Done(d) \/ (Dialing(d) /\ ~Busy(d))
    BY <2>1, <2>2, <2>3
  <2> QED BY <1>0, <2>1, <2>5, <2>6, SettleKeeps
<1> QED BY <1>1, <1>2

-----------------------------------------------------------------------------
\* A contact nobody has touched has no job, and no batch has claimed it.
LEMMA UntouchedIsFree ==
    ASSUME CampaignInv, NEW c \in Contacts, Untouched(c)
    PROVE  ~HasJob(c) /\ ~Locked(c) /\ c \notin aged /\ NoOpen(c)
<1>1. ContactInv(c) /\ ~Waits(c) /\ ~Dialing(c) /\ ~Done(c) /\ contact[c].status # "queued"
  BY DEF CampaignInv, Untouched, Waits, Dialing, Done, TerminalContact
<1>2. /\ ~Queued(c) /\ ~Locked(c) /\ c \notin aged
      /\ (\A w \in Workers : ~Taken(w, c)) /\ NoOpen(c)
  BY <1>1 DEF ContactInv, NoOpen, Untouched
<1>3. ~Busy(c)
  <2>1. \A w \in Workers : worker[w].pc \in Looping => Target(w) # c
    BY CampaignAssumption DEF CampaignInv, WorkerInv, LocalInv, Target, NoJob
  <2>2. \A w \in Workers : worker[w].pc \in Working => Target(w) # c
    BY <1>1, Owner
  <2> QED BY <2>1, <2>2 DEF Busy, CampaignInv, WorkerInv, LocalInv
<1> QED BY <1>1, <1>2, <1>3 DEF HasJob, ContactInv

\* What a step of a batch does to one contact: nothing, hand its claim to the queue,
\* take the claim back, claim it, or refuse it.
BatchStep(c) ==
    \/ /\ contact'[c] = contact[c]
       /\ Queued(c)' <=> Queued(c)
       /\ Locked(c)' <=> Locked(c)
    \/ /\ Locked(c) /\ ~Locked(c)' /\ Queued(c)' /\ contact'[c] = contact[c]
       /\ LockFree' /\ campaign' = "running"
    \/ Locked(c) /\ ~Locked(c)' /\ ~Queued(c)' /\ Untouched(c)'
    \/ /\ Untouched(c) /\ ~Queued(c)' /\ Locked(c)'
       /\ contact'[c] = [status |-> "queued", attempts |-> 0]
    \/ Untouched(c) /\ ~Queued(c)' /\ ~Locked(c)' /\ Done(c)'

\* Claims, batches and their restoration: no job in a worker's hands is concerned.
LEMMA BatchKeeps ==
    ASSUME CampaignInv, Shape', TypeInv', LockInv',
           UNCHANGED <<calls, retries, parked>>, aged' \subseteq aged,
           \A v \in Workers :
              \/ worker'[v] = worker[v]
              \/ /\ worker[v].pc \in {"heal", "refill"} /\ WorkerInv(v)'
                 /\ worker'[v].job = NoJob /\ worker'[v].todo = {} /\ worker'[v].pc # "free",
           \A v \in Workers :
              worker[v].pc = "refill" /\ worker'[v] = worker[v] =>
                 web'.pc = "idle" /\ campaign' # "draft",
           \A i, k \in DOMAIN queue' : queue'[i].contact = queue'[k].contact => i = k,
           \A c \in Contacts : BatchStep(c),
           campaign' = "completed" => campaign = "completed" \/ \A c \in Contacts : Done(c),
           ~LockFree' \/ campaign' = "draft" =>
              \A c \in Contacts : Locked(c) \/ Untouched(c) \/ Done(c)
    PROVE  CampaignInv'
<1>1. \A v \in Workers : Target(v)' = Target(v) /\ worker'[v].todo = worker[v].todo
  <2> SUFFICES ASSUME NEW v \in Workers, worker[v].pc \in {"heal", "refill"},
                      worker'[v].job = NoJob, worker'[v].todo = {}
               PROVE  worker[v].job = NoJob /\ worker[v].todo = {}
    BY DEF Target
  <2> QED BY DEF CampaignInv, WorkerInv, LocalInv, Looping, Working, Claiming, Calling
<1>2. \A c : /\ Parked(c)' <=> Parked(c)
             /\ Busy(c)' <=> Busy(c)
             /\ \A v \in Workers : Taken(v, c)' <=> Taken(v, c)
  BY <1>1 DEF Parked, Busy, Taken
<1>3. ASSUME NEW c \in Contacts PROVE ContactInv(c)'
  <2>1. ContactInv(c) /\ calls'[c] = calls[c]
    BY DEF CampaignInv
  <2>2. CASE /\ contact'[c] = contact[c]
             /\ Queued(c)' <=> Queued(c)
             /\ Locked(c)' <=> Locked(c)
    <3>1. HasJob(c)' <=> HasJob(c)
      BY <1>2, <2>2 DEF HasJob
    <3>2. /\ Waits(c)' <=> Waits(c)
          /\ Dialing(c)' <=> Dialing(c)
          /\ Done(c)' <=> Done(c)
          /\ Untouched(c)' <=> Untouched(c)
      BY <2>2 DEF Waits, Dialing, Done, Untouched
    <3>3. ~LockFree' \/ campaign' = "draft" => Locked(c)' \/ Untouched(c)' \/ Done(c)'
      BY <2>2, <3>2
    <3>4. campaign' = "completed" => Done(c)'
      BY <2>1, <3>2 DEF ContactInv
    <3> QED BY <1>2, <2>1, <2>2, <3>1, <3>2, <3>3, <3>4 DEF ContactInv
  <2>3. CASE Locked(c)
    <3>1. /\ contact[c] = [status |-> "queued", attempts |-> 0] /\ ~HasJob(c)
          /\ ~Dialing(c) /\ ~Done(c) /\ c \notin aged
      BY <2>1, <2>3 DEF ContactInv, Dialing, Done, TerminalContact
    <3>2. ~Parked(c)' /\ ~Busy(c)' /\ (\A v \in Workers : ~Taken(v, c)') /\ c \notin aged'
      BY <1>2, <3>1 DEF HasJob
    <3>3. \A i \in DOMAIN calls'[c] : ~Open(calls'[c][i])
      BY <2>1, <3>1 DEF ContactInv
    <3>4. campaign' # "completed"
      BY <2>1, <3>1 DEF ContactInv
    <3>5. CASE /\ Queued(c)' /\ ~Locked(c)' /\ contact'[c] = contact[c]
               /\ LockFree' /\ campaign' = "running"
      <4>1. HasJob(c)' /\ contact'[c].status = "queued"
        BY <3>1, <3>5 DEF HasJob
      <4> QED BY <3>2, <3>3, <3>5, <4>1 DEF ContactInv
    <3>6. CASE ~Locked(c)' /\ ~Queued(c)' /\ Untouched(c)'
      <4>1. contact'[c].status # "queued"
        BY <3>6 DEF Untouched
      <4> QED BY <3>2, <3>3, <3>4, <3>6, <4>1 DEF ContactInv
    <3>7. ~Untouched(c)
      BY <3>1 DEF Untouched
    <3> QED BY <2>2, <3>5, <3>6, <3>7 DEF BatchStep
  <2>4. CASE Untouched(c)
    <3>1. ~HasJob(c) /\ ~Locked(c) /\ c \notin aged /\ NoOpen(c) /\ ~Done(c)
      BY <2>4, UntouchedIsFree DEF Done, Untouched, TerminalContact
    <3>2. ~Parked(c)' /\ ~Busy(c)' /\ (\A v \in Workers : ~Taken(v, c)') /\ c \notin aged'
      BY <1>2, <3>1 DEF HasJob
    <3>3. \A i \in DOMAIN calls'[c] : ~Open(calls'[c][i])
      BY <2>1, <3>1 DEF NoOpen
    <3>4. campaign' # "completed"
      BY <2>1, <3>1 DEF ContactInv
    <3>5. CASE ~Queued(c)' /\ Locked(c)' /\ contact'[c] = [status |-> "queued", attempts |-> 0]
      <4>1. ~HasJob(c)'
        BY <3>2, <3>5 DEF HasJob
      <4> QED BY <3>2, <3>3, <3>4, <3>5, <4>1 DEF ContactInv
    <3>6. CASE ~Queued(c)' /\ ~Locked(c)' /\ Done(c)'
      <4>1. contact'[c].status # "queued"
        BY <3>6 DEF Done, TerminalContact
      <4> QED BY <3>2, <3>3, <3>4, <3>6, <4>1 DEF ContactInv
    <3> QED BY <2>2, <3>1, <3>5, <3>6 DEF BatchStep
  <2> QED BY <2>2, <2>3, <2>4 DEF BatchStep
<1>4. \A c \in Contacts : Done(c) \/ Dialing(c) \/ Busy(c) => contact'[c] = contact[c]
  <2>1. \A c \in Contacts : Locked(c) => ~Done(c) /\ ~Dialing(c) /\ ~Busy(c)
    BY DEF CampaignInv, ContactInv, Done, Dialing, TerminalContact, HasJob
  <2>2. \A c \in Contacts : Untouched(c) => ~Done(c) /\ ~Dialing(c) /\ ~Busy(c)
    BY UntouchedIsFree DEF Untouched, Done, Dialing, TerminalContact, HasJob
  <2> QED BY <2>1, <2>2 DEF BatchStep
<1>5. ASSUME NEW v \in Workers PROVE WorkerInv(v)'
  <2> SUFFICES ASSUME worker'[v] = worker[v] PROVE WorkerInv(v)'
    OBVIOUS
  <2>1. WorkerInv(v) /\ LocalInv(v) /\ Target(v)' = Target(v)
    BY <1>1 DEF CampaignInv, WorkerInv
  <2>2. LocalInv(v)'
    BY <2>1 DEF LocalInv
  <2>3. worker[v].pc \in Working => contact'[Target(v)] = contact[Target(v)]
    BY <1>4, Owner DEF Busy
  <2>4. worker[v].pc = "heal" =>
           \A c \in worker[v].rows : Done(c)' \/ (Dialing(c)' /\ ~Busy(c)')
    <3> SUFFICES ASSUME worker[v].pc = "heal", NEW c \in worker[v].rows
                 PROVE  Done(c)' \/ (Dialing(c)' /\ ~Busy(c)')
      OBVIOUS
    <3>1. c \in Contacts /\ (Done(c) \/ (Dialing(c) /\ ~Busy(c)))
      BY <2>1 DEF WorkerInv, LocalInv
    <3> QED BY <1>2, <1>4, <3>1 DEF Dialing, Done
  <2>5. worker[v].pc = "complete" => \A c \in Contacts : Done(c)'
    BY <1>4, <2>1 DEF WorkerInv, Done
  <2>6. /\ worker[v].pc \in Claiming => Waits(Target(v))'
        /\ worker[v].pc \in Calling => Dialing(Target(v))'
        /\ worker[v].pc = "terminal" => Waits(Target(v))' \/ Dialing(Target(v))'
    BY <1>1, <2>1, <2>3 DEF WorkerInv, Waits, Dialing, Working
  <2>7. worker[v].pc \in Silent => NoOpen(Target(v))'
    BY <2>1 DEF WorkerInv, NoOpen
  <2> QED
    BY <1>2, <2>1, <2>2, <2>4, <2>5, <2>6, <2>7 DEF WorkerInv
<1>6. OwnInv'
  BY <1>1 DEF CampaignInv, OwnInv
<1>7. KeyExact'
  <2>1. \A v \in Workers : Held(v)' = Held(v)
    <3> SUFFICES ASSUME NEW v \in Workers PROVE Held(v)' = Held(v)
      OBVIOUS
    <3>1. At(v, "free")' <=> At(v, "free")
      BY DEF At
    <3> QED BY <1>1, <3>1 DEF Held, Keys, DedupeKey
  <2>2. Keys(retries)' = Keys(retries)
    BY DEF Keys, DedupeKey
  <2> QED BY <2>1, <2>2 DEF CampaignInv, KeyExact
<1> QED BY <1>3, <1>5, <1>6, <1>7 DEF CampaignInv

-----------------------------------------------------------------------------
\* A finite set, listed: every member once, and nothing else.
LEMMA SetListed ==
    ASSUME NEW T, NEW S \in SUBSET T, IsFiniteSet(S), NEW s, s = SetToSeq(S)
    PROVE  /\ s \in Seq(T)
           /\ \A i \in DOMAIN s : s[i] \in S
           /\ \A x \in S : \E i \in DOMAIN s : s[i] = x
           /\ \A i, k \in DOMAIN s : s[i] = s[k] => i = k
<1> DEFINE n == Cardinality(S)
<1>1. n \in Nat /\ ExistsBijection(1..n, S)
  BY FS_CardinalityType
<1>2. PICK b \in Bijection(1..n, S) : TRUE
  BY <1>1, Fun_ExistsBij
<1>3. b \in [1..n -> S] /\ IsInjective(b)
  BY <1>2 DEF Bijection, Injection
<1>4. s \in [1..n -> S] /\ IsInjective(s)
  BY <1>3 DEF SetToSeq
<1>5. s \in Injection(1..n, S)
  BY <1>4 DEF Injection
<1>6. Cardinality(1..n) = n
  BY <1>1, FS_Interval
<1>7. s \in Surjection(1..n, S)
  BY <1>5, <1>6, FS_Injection
<1>8. \A x \in S : \E i \in 1..n : s[i] = x
  BY <1>7 DEF Surjection
<1> HIDE DEF n
<1> QED BY <1>1, <1>4, <1>8 DEF IsInjective

\* The jobs of a batch join the queue behind those that wait there.
LEMMA PushDoes ==
    ASSUME Typed, OwnInv, NEW jobs \in SUBSET Job, IsFiniteSet(jobs), Push(jobs),
           \A i, j \in jobs : i.contact = j.contact => i = j,
           \A j \in jobs : ~Queued(j.contact)
    PROVE  /\ queue' \in Seq(Job)
           /\ \A c : Queued(c)' <=> Queued(c) \/ \E j \in jobs : j.contact = c
           /\ \A i, k \in DOMAIN queue' : queue'[i].contact = queue'[k].contact => i = k
<1>1. PICK s : s = SetToSeq(jobs)
  OBVIOUS
<1>2. /\ s \in Seq(Job)
      /\ \A i \in DOMAIN s : s[i] \in jobs
      /\ \A x \in jobs : \E i \in DOMAIN s : s[i] = x
      /\ \A i, k \in DOMAIN s : s[i] = s[k] => i = k
  BY <1>1, SetListed
<1>3. queue \in Seq(Job) /\ queue' = queue \o s
  BY <1>1 DEF TypeInv, Typed, Push
<1>4. PICK m \in Nat, n \in Nat : m = Len(queue) /\ n = Len(s)
  BY <1>2, <1>3
<1>5. DOMAIN queue = 1..m /\ DOMAIN s = 1..n
  BY <1>2, <1>3, <1>4
<1>6. /\ queue' \in Seq(Job) /\ Len(queue') = m + n
      /\ \A i \in 1..(m + n) : queue'[i] = IF i <= m THEN queue[i] ELSE s[i - m]
  BY <1>2, <1>3, <1>4, ConcatProperties
<1>7. DOMAIN queue' = 1..(m + n)
  BY <1>6
<1>8. \A i \in 1..m : i \in 1..(m + n) /\ queue'[i] = queue[i]
  BY <1>6
<1>9. \A i \in 1..n : i + m \in 1..(m + n) /\ queue'[i + m] = s[i]
  <2> SUFFICES ASSUME NEW i \in 1..n PROVE i + m \in 1..(m + n) /\ queue'[i + m] = s[i]
    OBVIOUS
  <2>1. i + m \in 1..(m + n) /\ ~(i + m <= m) /\ (i + m) - m = i
    OBVIOUS
  <2> QED BY <1>6, <2>1
<1>10. \A i \in 1..(m + n) : i \in 1..m \/ \E k \in 1..n : i = k + m
  <2> SUFFICES ASSUME NEW i \in 1..(m + n), i \notin 1..m PROVE \E k \in 1..n : i = k + m
    OBVIOUS
  <2>1. i - m \in 1..n /\ i = (i - m) + m
    OBVIOUS
  <2> QED BY <2>1
<1>11. ASSUME NEW c PROVE Queued(c)' <=> Queued(c) \/ \E j \in jobs : j.contact = c
  <2>1. Queued(c) => Queued(c)'
    BY <1>5, <1>7, <1>8 DEF Queued
  <2>2. (\E j \in jobs : j.contact = c) => Queued(c)'
    BY <1>2, <1>5, <1>7, <1>9 DEF Queued
  <2>3. Queued(c)' => Queued(c) \/ \E j \in jobs : j.contact = c
    <3> SUFFICES ASSUME NEW i \in 1..(m + n), queue'[i].contact = c
                 PROVE  Queued(c) \/ \E j \in jobs : j.contact = c
      BY <1>7 DEF Queued
    <3>1. CASE i \in 1..m
      BY <1>5, <1>8, <3>1 DEF Queued
    <3>2. CASE \E k \in 1..n : i = k + m
      <4>1. PICK k \in 1..n : i = k + m
        BY <3>2
      <4>2. s[k] \in jobs /\ s[k].contact = c
        BY <1>2, <1>5, <1>9, <4>1
      <4> QED BY <4>2
    <3> QED BY <1>10, <3>1, <3>2
  <2> QED BY <2>1, <2>2, <2>3
<1>12. ASSUME NEW i \in DOMAIN queue', NEW k \in DOMAIN queue',
              queue'[i].contact = queue'[k].contact
       PROVE  i = k
  <2>1. CASE i \in 1..m /\ k \in 1..m
    BY <1>5, <1>8, <1>12, <2>1 DEF OwnInv
  <2>2. ASSUME NEW a \in 1..m, NEW e \in 1..n, queue[a].contact = s[e].contact PROVE FALSE
    BY <1>2, <1>5, <2>2 DEF Queued
  <2>3. CASE \E a, e \in 1..n : i = a + m /\ k = e + m
    <3>1. PICK a \in 1..n, e \in 1..n : i = a + m /\ k = e + m
      BY <2>3
    <3>2. s[a].contact = s[e].contact
      BY <1>9, <1>12, <3>1
    <3>3. a = e
      BY <1>2, <1>5, <3>2
    <3> QED BY <3>1, <3>3
  <2>4. ~(i \in 1..m /\ \E e \in 1..n : k = e + m)
    BY <1>8, <1>9, <1>12, <2>2
  <2>5. ~(k \in 1..m /\ \E e \in 1..n : i = e + m)
    BY <1>8, <1>9, <1>12, <2>2
  <2>6. /\ i \in 1..m \/ \E e \in 1..n : i = e + m
        /\ k \in 1..m \/ \E e \in 1..n : k = e + m
    BY <1>7, <1>10
  <2> QED BY <2>1, <2>3, <2>4, <2>5, <2>6
<1> QED BY <1>6, <1>11, <1>12

-----------------------------------------------------------------------------
\* Whose claims are outstanding: those of the one refill, of the start request, or nobody's.
LEMMA WhoseClaims ==
    ASSUME CampaignInv
    PROVE  /\ \A w \in Workers : At(w, "refill") =>
                 /\ web.pc = "idle" /\ \A v \in Workers : At(v, "refill") => v = w
                 /\ \A c \in Contacts : Locked(c) <=> c \in worker[w].rows
           /\ web.pc # "idle" => /\ \A w \in Workers : ~At(w, "refill")
                                 /\ \A c \in Contacts : Locked(c) <=> c \in web.claimed
           /\ LockFree => web.claimed = {} /\ \A c \in Contacts : ~Locked(c)
<1>1. \A w \in Workers : At(w, "refill") => web.pc = "idle"
  BY DEF CampaignInv, WorkerInv, At
<1>2. web.pc = "idle" => web.claimed = {}
  BY DEF CampaignInv, LockInv
<1>3. \A v, w \in Workers : At(v, "refill") /\ At(w, "refill") => v = w
  BY DEF CampaignInv, LockInv
<1> QED BY <1>1, <1>2, <1>3 DEF Locked, LockFree, At

\* A replica that starts over has nothing to answer for.
LEMMA IdleIsFine ==
    ASSUME TypeInv', NEW w \in Workers, NEW pc \in {"pop", "count"},
           worker'[w] = [Idle EXCEPT !.pc = pc]
    PROVE  /\ WorkerInv(w)' /\ worker'[w].job = NoJob /\ worker'[w].todo = {}
           /\ worker'[w].pc = pc
<1>1. /\ worker'[w].pc = pc /\ worker'[w].back = "pop" /\ worker'[w].job = NoJob
      /\ worker'[w].todo = {} /\ worker'[w].attempts = 0 /\ worker'[w].verdict = "failed"
  BY DEF Idle
<1>2. LocalInv(w)'
  BY <1>1 DEF LocalInv, Working, Looping, Claiming, Calling
<1>3. ~Parked(Target(w))'
  <2>1. Target(w)' \notin Contacts
    BY <1>1, CampaignAssumption DEF Target, NoJob
  <2> QED BY <2>1 DEF Parked, TypeInv, Typed, Job
<1> QED BY <1>1, <1>2, <1>3 DEF WorkerInv, Claiming, Calling, Silent

BatchJobs(page) == {InitialJob(c, 0) : c \in page}

\* The initial jobs of a page: one for each of its contacts.
LEMMA InitialJobs ==
    ASSUME NEW page \in SUBSET Contacts
    PROVE  /\ BatchJobs(page) \subseteq Job /\ IsFiniteSet(BatchJobs(page))
           /\ \A i, j \in BatchJobs(page) : i.contact = j.contact => i = j
           /\ \A c \in Contacts : c \in page <=> \E j \in BatchJobs(page) : j.contact = c
<1> DEFINE f == [c \in page |-> InitialJob(c, 0)]
<1>1. BatchJobs(page) \subseteq Job
  BY CampaignAssumption DEF BatchJobs, InitialJob, Job
<1>2. f \in Surjection(page, BatchJobs(page))
  BY DEF Surjection, BatchJobs
<1>3. IsFiniteSet(page)
  BY CampaignAssumption, FS_Subset
<1>4. IsFiniteSet(BatchJobs(page))
  <2> HIDE DEF f
  <2> QED BY <1>2, <1>3, FS_Surjection
<1>5. \A i, j \in BatchJobs(page) : i.contact = j.contact => i = j
  BY DEF InitialJob, BatchJobs
<1>6. ASSUME NEW c \in page PROVE \E j \in BatchJobs(page) : j.contact = c
  <2>1. InitialJob(c, 0) \in BatchJobs(page) /\ InitialJob(c, 0).contact = c
    BY DEF BatchJobs, InitialJob
  <2> QED BY <2>1
<1>7. \A j \in BatchJobs(page) : j.contact \in page
  BY DEF BatchJobs, InitialJob
<1> QED BY <1>1, <1>4, <1>5, <1>6, <1>7

\* The claims of a page handed to the queue, when no other claims are outstanding.
LEMMA HandOver ==
    ASSUME CampaignInv, TypeInv', NEW page \in SUBSET Contacts,
           \A c \in Contacts : Locked(c) <=> c \in page,
           \A c \in Contacts : ~Locked(c)',
           Push(BatchJobs(page)),
           contact' = contact, LockFree',
           page # {} => campaign' = campaign /\ campaign # "draft"
    PROVE  /\ \A c \in Contacts : BatchStep(c)
           /\ \A i, k \in DOMAIN queue' : queue'[i].contact = queue'[k].contact => i = k
<1>1. PICK jobs : jobs = BatchJobs(page)
  OBVIOUS
<1>2. /\ jobs \subseteq Job /\ IsFiniteSet(jobs)
      /\ \A i, j \in jobs : i.contact = j.contact => i = j
      /\ \A c \in Contacts : c \in page <=> \E j \in jobs : j.contact = c
  BY <1>1, InitialJobs
<1>3. \A c \in page : ~Queued(c) /\ campaign # "completed"
  <2> SUFFICES ASSUME NEW c \in page PROVE ~Queued(c) /\ campaign # "completed"
    OBVIOUS
  <2>1. ContactInv(c) /\ Locked(c)
    BY DEF CampaignInv
  <2> QED BY <2>1 DEF ContactInv, HasJob, Done, TerminalContact
<1>4. \A j \in jobs : ~Queued(j.contact)
  BY <1>2, <1>3 DEF Job
<1>5. Push(jobs)
  BY <1>1
<1>6. /\ \A c : Queued(c)' <=> Queued(c) \/ \E j \in jobs : j.contact = c
      /\ \A i, k \in DOMAIN queue' : queue'[i].contact = queue'[k].contact => i = k
  BY <1>2, <1>4, <1>5, PushDoes DEF CampaignInv, TypeInv
<1>7. ASSUME NEW c \in Contacts PROVE BatchStep(c)
  <2>1. CASE c \in page
    <3>1. campaign' = "running"
      BY <1>3, <2>1 DEF CampaignInv, TypeInv, Typed
    <3> QED BY <1>2, <1>6, <2>1, <3>1 DEF BatchStep
  <2>2. CASE c \notin page
    BY <1>2, <1>6, <2>2 DEF BatchStep
  <2> QED BY <2>1, <2>2
<1> QED BY <1>6, <1>7

\* The refill's claimed page joins the queue, one initial job for each contact.
LEMMA RefillEnqueueKeeps ==
    ASSUME CampaignInv, Shape', NEW w \in Workers, RefillEnqueue(w)
    PROVE  CampaignInv'
<1>0. At(w, "refill") /\ worker[w].pc = "refill" /\ WorkerInv(w) /\ LocalInv(w)
  BY DEF RefillEnqueue, At, CampaignInv, WorkerInv
<1>1. PICK page : page = worker[w].rows
  OBVIOUS
<1>2. /\ page \subseteq Contacts /\ web.pc = "idle" /\ campaign # "draft"
      /\ \A v \in Workers : At(v, "refill") => v = w
      /\ \A c \in Contacts : Locked(c) <=> c \in page
      /\ web.claimed = {}
  BY <1>0, <1>1, WhoseClaims DEF WorkerInv, LocalInv, CampaignInv, LockInv
<1>3. /\ UNCHANGED <<campaign, contact, aged, calls, retries, parked, web, env>>
      /\ Push(BatchJobs(page))
      /\ worker' = [worker EXCEPT ![w] = [Idle EXCEPT !.pc = "count"]]
  BY <1>1 DEF RefillEnqueue, BatchJobs
<1>4. /\ worker'[w] = [Idle EXCEPT !.pc = "count"]
      /\ \A v \in Workers : v # w => worker'[v] = worker[v]
  BY <1>3 DEF CampaignInv, Shape
<1>5. queue' \in Seq(Job)
  <2>1. PICK jobs : jobs = BatchJobs(page)
    OBVIOUS
  <2>2. jobs \in SUBSET Job /\ IsFiniteSet(jobs)
    BY <1>2, <2>1, InitialJobs
  <2>3. PICK s : s = SetToSeq(jobs)
    OBVIOUS
  <2>4. s \in Seq(Job) /\ queue \in Seq(Job) /\ queue' = queue \o s
    BY <1>3, <2>1, <2>2, <2>3, SetListed DEF Push, CampaignInv, TypeInv, Typed
  <2> QED BY <2>4, ConcatProperties
<1>6. TypeInv'
  BY <1>3, <1>5 DEF CampaignInv, TypeInv, Typed
<1>7. WorkerInv(w)' /\ worker'[w].job = NoJob /\ worker'[w].todo = {} /\ worker'[w].pc = "count"
  BY <1>4, <1>6, IdleIsFine
<1>8. \A v \in Workers : ~At(v, "refill")'
  BY <1>2, <1>4, <1>7 DEF At
<1>9. LockFree' /\ (\A c \in Contacts : ~Locked(c)') /\ LockInv'
  BY <1>2, <1>3, <1>8 DEF LockFree, Locked, At, CampaignInv, LockInv
<1>10. /\ \A c \in Contacts : BatchStep(c)
       /\ \A i, k \in DOMAIN queue' : queue'[i].contact = queue'[k].contact => i = k
  BY <1>2, <1>3, <1>6, <1>9, HandOver
<1>11. \A v \in Workers : worker[v].pc = "refill" /\ worker'[v] = worker[v] =>
          web'.pc = "idle" /\ campaign' # "draft"
  BY <1>2, <1>3
<1> QED BY <1>0, <1>2, <1>3, <1>4, <1>6, <1>7, <1>9, <1>10, <1>11, BatchKeeps

\* The start request's claimed page joins the queue, one initial job for each contact.
LEMMA StartEnqueueKeeps ==
    ASSUME CampaignInv, Shape', StartEnqueue
    PROVE  CampaignInv'
<1>1. PICK page : page = web.claimed
  OBVIOUS
<1>2. /\ page \subseteq Contacts /\ web.pc = "enqueue" /\ campaign # "draft"
      /\ \A v \in Workers : ~At(v, "refill")
      /\ \A c \in Contacts : Locked(c) <=> c \in page
  <2>1. web.pc = "enqueue"
    BY DEF StartEnqueue
  <2> QED BY <1>1, <2>1, WhoseClaims DEF CampaignInv, LockInv
<1>3. /\ UNCHANGED <<contact, aged, calls, retries, parked, worker, env>>
      /\ campaign' = IF page = {} /\ Drained(contact) THEN "completed" ELSE campaign
      /\ web' = [pc |-> "idle", claimed |-> {}]
      /\ Push({InitialJob(c, contact[c].attempts) : c \in page})
  BY <1>1 DEF StartEnqueue
<1>4. \A c \in page : contact[c].attempts = 0
  BY <1>2 DEF CampaignInv, ContactInv
<1>5. {InitialJob(c, contact[c].attempts) : c \in page} = BatchJobs(page)
  BY <1>4 DEF BatchJobs
<1>6. Push(BatchJobs(page))
  BY <1>3, <1>5
<1>7. queue' \in Seq(Job)
  <2>1. PICK jobs : jobs = BatchJobs(page)
    OBVIOUS
  <2>2. jobs \in SUBSET Job /\ IsFiniteSet(jobs)
    BY <1>2, <2>1, InitialJobs
  <2>3. PICK s : s = SetToSeq(jobs)
    OBVIOUS
  <2>4. s \in Seq(Job) /\ queue \in Seq(Job) /\ queue' = queue \o s
    BY <1>6, <2>1, <2>2, <2>3, SetListed DEF Push, CampaignInv, TypeInv, Typed
  <2> QED BY <2>4, ConcatProperties
<1>8. TypeInv'
  BY <1>3, <1>7 DEF CampaignInv, TypeInv, Typed
<1>9. LockFree' /\ (\A c \in Contacts : ~Locked(c)') /\ LockInv'
  BY <1>2, <1>3 DEF LockFree, Locked, At, CampaignInv, LockInv
<1>10. /\ \A c \in Contacts : BatchStep(c)
       /\ \A i, k \in DOMAIN queue' : queue'[i].contact = queue'[k].contact => i = k
  BY <1>2, <1>3, <1>6, <1>8, <1>9, HandOver
<1>11. campaign' = "completed" => campaign = "completed" \/ \A c \in Contacts : Done(c)
  BY <1>3, DrainedIsDone DEF CampaignInv, TypeInv, Typed, Done
<1>12. campaign' # "draft"
  BY <1>2, <1>3
<1>13. web'.pc = "idle"
  BY <1>3
<1> QED BY <1>3, <1>8, <1>9, <1>10, <1>11, <1>12, <1>13, BatchKeeps

\* The start request marks the campaign running while it holds its first page.
LEMMA StartRunningKeeps ==
    ASSUME CampaignInv, Shape', StartRunning
    PROVE  CampaignInv'
<1>1. /\ web.pc = "claimed" /\ campaign' = "running"
      /\ UNCHANGED <<contact, aged, calls, queue, retries, parked, worker, env>>
      /\ web' = [web EXCEPT !.pc = "enqueue"]
  BY DEF StartRunning
<1>2. web'.pc = "enqueue" /\ web'.claimed = web.claimed /\ DOMAIN web' = {"pc", "claimed"}
  BY <1>1 DEF CampaignInv, LockInv
<1>3. \A w \in Workers : ~At(w, "refill") /\ ~At(w, "refill")'
  BY <1>1, WhoseClaims DEF At
<1>4. \A c : (Locked(c)' <=> Locked(c)) /\ (Queued(c)' <=> Queued(c))
  BY <1>1, <1>2 DEF Locked, Queued, At
<1>5. LockInv' /\ TypeInv'
  BY <1>1, <1>2, <1>3 DEF CampaignInv, LockInv, TypeInv, Typed
<1>6. \A c \in Contacts : BatchStep(c)
  BY <1>1, <1>4 DEF BatchStep
<1>7. ~LockFree
  BY <1>1 DEF LockFree
<1>8. \A c \in Contacts : Locked(c) \/ Untouched(c) \/ Done(c)
  BY <1>7 DEF CampaignInv, ContactInv
<1>9. \A i, k \in DOMAIN queue' : queue'[i].contact = queue'[k].contact => i = k
  BY <1>1 DEF CampaignInv, OwnInv
<1>10. \A v \in Workers : worker[v].pc # "refill"
  BY <1>3 DEF At
<1> QED BY <1>1, <1>5, <1>6, <1>8, <1>9, <1>10, BatchKeeps

\* The page of a batch, and what is written to its contacts.
LEMMA StartClaimKeeps ==
    ASSUME CampaignInv, Shape', StartClaim
    PROVE  CampaignInv'
<1>1. /\ web.pc = "idle" /\ campaign = "draft"
      /\ UNCHANGED <<campaign, aged, calls, queue, retries, parked, worker, env>>
  BY DEF StartClaim
<1>2. PICK page : /\ page \subseteq {c \in Contacts : contact[c].status = "pending"}
                  /\ contact' = [c \in Contacts |->
                                   IF c \notin page THEN contact[c]
                                   ELSE [contact[c] EXCEPT !.status =
                                           IF c \in Barred THEN "dnc" ELSE "queued"]]
                  /\ web' = [pc |-> "claimed", claimed |-> page \ Barred]
  BY DEF StartClaim, Batches
<1>3. \A w \in Workers : worker[w].pc # "refill"
  BY <1>1 DEF CampaignInv, WorkerInv
<1>4. LockFree /\ \A c \in Contacts : ~Locked(c)
  BY <1>1, <1>3, WhoseClaims DEF LockFree
<1>5. \A c \in Contacts : Untouched(c) \/ Done(c)
  BY <1>1, <1>4 DEF CampaignInv, ContactInv
<1>6. \A c \in page : c \in Contacts /\ Untouched(c)
  BY <1>2, <1>5 DEF Done, TerminalContact
<1>7. \A c \in Contacts : Locked(c)' <=> c \in page \ Barred
  BY <1>1, <1>2, <1>3 DEF Locked, At
<1>8. \A c : Queued(c)' <=> Queued(c)
  BY <1>1 DEF Queued
<1>9. \A c \in page : \E st \in {"dnc", "queued"} :
         /\ contact'[c] = [status |-> st, attempts |-> 0]
         /\ c \in Barred <=> st = "dnc"
  <2> SUFFICES ASSUME NEW c \in page, NEW st \in {"dnc", "queued"}, c \in Barred <=> st = "dnc"
               PROVE  contact'[c] = [status |-> st, attempts |-> 0]
    OBVIOUS
  <2>1. contact[c] = [status |-> "pending", attempts |-> 0] /\ c \in Contacts
    BY <1>6 DEF Untouched
  <2>2. contact'[c] = [contact[c] EXCEPT !.status = st]
    BY <1>2, <2>1
  <2> QED BY <2>1, <2>2
<1>10. ASSUME NEW c \in Contacts PROVE BatchStep(c) /\ contact'[c] \in Row
  <2>1. CASE c \notin page
    <3>1. contact'[c] = contact[c]
      BY <1>2, <2>1
    <3> QED BY <1>4, <1>7, <1>8, <2>1, <3>1 DEF BatchStep, CampaignInv, TypeInv, Typed
  <2>2. CASE c \in page
    <3>1. Untouched(c) /\ ~Queued(c)'
      BY <1>6, <1>8, <2>2, UntouchedIsFree DEF HasJob
    <3>2. PICK st \in {"dnc", "queued"} : /\ contact'[c] = [status |-> st, attempts |-> 0]
                                          /\ c \in Barred <=> st = "dnc"
      BY <1>9, <2>2
    <3>3. contact'[c] \in Row
      BY <3>2 DEF Row, NONTERMINAL_CONTACT, TerminalContact
    <3>4. CASE st = "dnc"
      <4>1. Done(c)' /\ ~Locked(c)'
        BY <1>7, <3>2, <3>4 DEF Done, TerminalContact
      <4> QED BY <3>1, <3>3, <4>1 DEF BatchStep
    <3>5. CASE st = "queued"
      BY <1>7, <2>2, <3>1, <3>2, <3>3, <3>5 DEF BatchStep
    <3> QED BY <3>4, <3>5
  <2> QED BY <2>1, <2>2
<1>11. contact' \in [Contacts -> Row]
  BY <1>2, <1>10
<1>12. TypeInv'
  BY <1>1, <1>11 DEF CampaignInv, TypeInv, Typed
<1>13. LockInv'
  <2>1. page \ Barred \subseteq Contacts
    BY <1>6
  <2> QED BY <1>1, <1>2, <1>3, <2>1 DEF LockInv, At
<1>14. \A i, k \in DOMAIN queue' : queue'[i].contact = queue'[k].contact => i = k
  BY <1>1 DEF CampaignInv, OwnInv
<1>15. \A c \in Contacts : BatchStep(c)
  BY <1>10
<1> QED BY <1>1, <1>3, <1>5, <1>12, <1>13, <1>14, <1>15, BatchKeeps

\* Claims taken back: a contact that was claimed and not yet queued is untouched again.
LEMMA TakeBack ==
    ASSUME CampaignInv, NEW page \in SUBSET Contacts,
           \A c \in Contacts : Locked(c) <=> c \in page,
           \A c \in Contacts : ~Locked(c)',
           contact' = [c \in Contacts |-> IF c \in page
                                          THEN [contact[c] EXCEPT !.status = "pending"]
                                          ELSE contact[c]],
           queue' = queue
    PROVE  contact' \in [Contacts -> Row] /\ \A c \in Contacts : BatchStep(c)
<1>1. \A c : Queued(c)' <=> Queued(c)
  BY DEF Queued
<1>2. ASSUME NEW c \in page
      PROVE  /\ Untouched(c)' /\ contact'[c] \in Row
             /\ Locked(c) /\ ~Queued(c)'
  <2>1. Locked(c) /\ ContactInv(c)
    BY DEF CampaignInv
  <2>2. contact[c] = [status |-> "queued", attempts |-> 0] /\ ~Queued(c)
    BY <2>1 DEF ContactInv, HasJob
  <2>3. contact'[c] = [status |-> "pending", attempts |-> 0]
    BY <2>2
  <2> QED BY <1>1, <2>1, <2>2, <2>3 DEF Untouched, Row, NONTERMINAL_CONTACT
<1>3. ASSUME NEW c \in Contacts PROVE BatchStep(c) /\ contact'[c] \in Row
  <2>1. CASE c \in page
    BY <1>2, <2>1 DEF BatchStep
  <2>2. CASE c \notin page
    BY <1>1, <2>2 DEF BatchStep, CampaignInv, TypeInv, Typed
  <2> QED BY <2>1, <2>2
<1> QED BY <1>3

\* A start request that fails gives its claimed contacts back untouched.
LEMMA StartRollbackKeeps ==
    ASSUME CampaignInv, Shape', StartRollback
    PROVE  CampaignInv'
<1>1. PICK page : page = web.claimed
  OBVIOUS
<1>2. /\ page \subseteq Contacts /\ web.pc = "enqueue"
      /\ \A v \in Workers : ~At(v, "refill")
      /\ \A c \in Contacts : Locked(c) <=> c \in page
  <2>1. web.pc = "enqueue"
    BY DEF StartRollback
  <2> QED BY <1>1, <2>1, WhoseClaims DEF CampaignInv, LockInv
<1>3. /\ UNCHANGED <<aged, calls, queue, retries, parked, worker>>
      /\ campaign' = "draft" /\ web' = [pc |-> "idle", claimed |-> {}] /\ Spend("errors")
      /\ contact' = [c \in Contacts |-> IF c \in page /\ contact[c].status = "queued"
                                        THEN [contact[c] EXCEPT !.status = "pending"]
                                        ELSE contact[c]]
  BY <1>1 DEF StartRollback
<1>4. \A c \in page : contact[c].status = "queued"
  BY <1>2 DEF CampaignInv, ContactInv
<1>5. contact' = [c \in Contacts |-> IF c \in page
                                     THEN [contact[c] EXCEPT !.status = "pending"]
                                     ELSE contact[c]]
  BY <1>3, <1>4
<1>6. LockFree' /\ (\A c \in Contacts : ~Locked(c)') /\ LockInv'
  BY <1>2, <1>3 DEF LockFree, Locked, At, CampaignInv, LockInv
<1>7. contact' \in [Contacts -> Row] /\ \A c \in Contacts : BatchStep(c)
  BY <1>2, <1>3, <1>5, <1>6, TakeBack
<1>8. DOMAIN env' = {"refusals", "errors", "crashes", "lost"} /\ env'.crashes = 0
  BY <1>3, SpendKeepsType DEF CampaignInv, TypeInv, Typed
<1>9. TypeInv'
  BY <1>3, <1>7, <1>8 DEF CampaignInv, TypeInv, Typed
<1>10. ~LockFree
  BY <1>2 DEF LockFree
<1>11. \A c \in Contacts : Locked(c) \/ Untouched(c) \/ Done(c)
  BY <1>10 DEF CampaignInv, ContactInv
<1>12. \A i, k \in DOMAIN queue' : queue'[i].contact = queue'[k].contact => i = k
  BY <1>3 DEF CampaignInv, OwnInv
<1>13. \A v \in Workers : worker[v].pc # "refill"
  BY <1>2 DEF At
<1> QED BY <1>3, <1>6, <1>7, <1>9, <1>11, <1>12, <1>13, BatchKeeps

\* A refill that cannot enqueue gives its claimed contacts back untouched.
LEMMA RefillRestoreKeeps ==
    ASSUME CampaignInv, Shape', NEW w \in Workers, RefillRestore(w)
    PROVE  CampaignInv'
<1>0. At(w, "refill") /\ worker[w].pc = "refill" /\ WorkerInv(w) /\ LocalInv(w)
  BY DEF RefillRestore, At, CampaignInv, WorkerInv
<1>1. PICK page : page = worker[w].rows
  OBVIOUS
<1>2. /\ page \subseteq Contacts /\ web.pc = "idle" /\ campaign # "draft"
      /\ \A v \in Workers : At(v, "refill") => v = w
      /\ \A c \in Contacts : Locked(c) <=> c \in page
      /\ web.claimed = {}
  BY <1>0, <1>1, WhoseClaims DEF WorkerInv, LocalInv, CampaignInv, LockInv
<1>3. /\ UNCHANGED <<campaign, aged, calls, queue, retries, parked, web>> /\ Spend("errors")
      /\ contact' = [c \in Contacts |->
                       IF c \in page /\ contact[c] = [status |-> "queued", attempts |-> 0]
                       THEN [contact[c] EXCEPT !.status = "pending"]
                       ELSE contact[c]]
      /\ worker' = [worker EXCEPT ![w] = Idle]
  BY <1>1 DEF RefillRestore
<1>4. \A c \in page : contact[c] = [status |-> "queued", attempts |-> 0]
  BY <1>2 DEF CampaignInv, ContactInv
<1>5. contact' = [c \in Contacts |-> IF c \in page
                                     THEN [contact[c] EXCEPT !.status = "pending"]
                                     ELSE contact[c]]
  BY <1>3, <1>4
<1>6. /\ worker'[w] = Idle /\ Idle = [Idle EXCEPT !.pc = "pop"]
      /\ \A v \in Workers : v # w => worker'[v] = worker[v]
  <2>1. worker'[w] = Idle /\ \A v \in Workers : v # w => worker'[v] = worker[v]
    BY <1>3 DEF CampaignInv, Shape
  <2>2. Idle = [Idle EXCEPT !.pc = "pop"]
    BY DEF Idle
  <2> QED
    BY <2>1, <2>2
<1>7. \A v \in Workers : ~At(v, "refill")'
  BY <1>2, <1>6 DEF At, Idle
<1>8. LockFree' /\ (\A c \in Contacts : ~Locked(c)') /\ LockInv'
  BY <1>2, <1>3, <1>7 DEF LockFree, Locked, At, CampaignInv, LockInv
<1>9. contact' \in [Contacts -> Row] /\ \A c \in Contacts : BatchStep(c)
  BY <1>2, <1>3, <1>5, <1>8, TakeBack
<1>10. DOMAIN env' = {"refusals", "errors", "crashes", "lost"} /\ env'.crashes = 0
  BY <1>3, SpendKeepsType DEF CampaignInv, TypeInv, Typed
<1>11. TypeInv'
  BY <1>3, <1>9, <1>10 DEF CampaignInv, TypeInv, Typed
<1>12. WorkerInv(w)' /\ worker'[w].job = NoJob /\ worker'[w].todo = {} /\ worker'[w].pc = "pop"
  <2>1. worker'[w] = [Idle EXCEPT !.pc = "pop"]
    BY <1>6
  <2> QED BY <1>11, <2>1, IdleIsFine
<1>13. \A i, k \in DOMAIN queue' : queue'[i].contact = queue'[k].contact => i = k
  BY <1>3 DEF CampaignInv, OwnInv
<1>14. \A v \in Workers : worker[v].pc = "refill" /\ worker'[v] = worker[v] =>
          web'.pc = "idle" /\ campaign' # "draft"
  BY <1>2, <1>3
<1> QED BY <1>0, <1>2, <1>3, <1>6, <1>8, <1>9, <1>11, <1>12, <1>13, <1>14, BatchKeeps

\* The refill claims a page of untouched contacts, or finds none and goes on to count.
LEMMA RefillKeeps ==
    ASSUME CampaignInv, Shape', NEW w \in Workers, Refill(w)
    PROVE  CampaignInv'
<1>0. worker[w].pc = "heal" /\ WorkerInv(w) /\ LocalInv(w) /\ worker[w].todo = {}
      /\ worker[w].job = NoJob
  BY DEF Refill, At, CampaignInv, WorkerInv, LocalInv, Working, Looping, Claiming, Calling
<1>1. UNCHANGED <<campaign, calls, queue, retries, parked, web, env>>
  BY DEF Refill
<1> DEFINE refills == LockFree /\ campaign = "running" /\ ~ActiveBatchWork /\ Fresh # {}
<1>2. CASE ~refills
  <2>1. Goto(w, "count") /\ UNCHANGED <<contact, aged>>
    BY <1>2 DEF Refill
  <2> QED BY <1>0, <1>1, <2>1, LoopGoto DEF Looping
<1>3. CASE refills
  <2>1. PICK page : /\ page \subseteq Fresh
                    /\ contact' = [c \in Contacts |->
                                     IF c \in page THEN [contact[c] EXCEPT !.status = "queued"]
                                     ELSE contact[c]]
                    /\ aged' = aged \ page
                    /\ worker' = [worker EXCEPT ![w] =
                                    [worker[w] EXCEPT !.pc = "refill", !.rows = page]]
    BY <1>3 DEF Refill, Batches
  <2>2. \A c \in Contacts : Untouched(c) \/ Done(c)
    <3> SUFFICES ASSUME NEW c \in Contacts PROVE Untouched(c) \/ Done(c)
      OBVIOUS
    <3>1. contact[c] \in Row
      BY DEF CampaignInv, TypeInv, Typed
    <3>2. /\ contact[c].status \notin {"queued", "dialing"}
          /\ ~(contact[c].status = "pending" /\ contact[c].attempts > 0)
      BY <1>3 DEF ActiveBatchWork
    <3> QED BY <3>1, <3>2 DEF Row, Untouched, Done, NONTERMINAL_CONTACT
  <2>3. \A c \in page : c \in Contacts /\ Untouched(c)
    BY <2>1 DEF Fresh, Untouched
  <2>4. /\ worker'[w].pc = "refill" /\ worker'[w].rows = page /\ worker'[w].job = NoJob
        /\ worker'[w].todo = {} /\ worker'[w].back = worker[w].back
        /\ worker'[w].attempts = worker[w].attempts /\ worker'[w].verdict = worker[w].verdict
        /\ \A v \in Workers : v # w => worker'[v] = worker[v]
    <3> DEFINE r == [worker[w] EXCEPT !.pc = "refill", !.rows = page]
    <3>1. /\ r.pc = "refill" /\ r.rows = page
          /\ r.back = worker[w].back /\ r.job = worker[w].job
          /\ r.todo = worker[w].todo /\ r.attempts = worker[w].attempts
          /\ r.verdict = worker[w].verdict
      BY DEF CampaignInv, Shape, Local, Fields
    <3>2. worker' = [worker EXCEPT ![w] = r]
      BY <2>1
    <3> HIDE DEF r
    <3> QED BY <1>0, <3>1, <3>2 DEF CampaignInv, Shape
  <2>5. web.pc = "idle" /\ web.claimed = {} /\ campaign = "running"
        /\ (\A v \in Workers : worker[v].pc # "refill") /\ \A c \in Contacts : ~Locked(c)
    BY <1>3, WhoseClaims DEF LockFree
  <2>6. \A c \in Contacts : Locked(c)' <=> c \in page
    BY <1>1, <2>4, <2>5 DEF Locked, At
  <2>7. \A c : Queued(c)' <=> Queued(c)
    BY <1>1 DEF Queued
  <2>8. ASSUME NEW c \in Contacts PROVE BatchStep(c) /\ contact'[c] \in Row
    <3>1. CASE c \notin page
      <4>1. contact'[c] = contact[c]
        BY <2>1, <3>1
      <4> QED BY <2>5, <2>6, <2>7, <3>1, <4>1 DEF BatchStep, CampaignInv, TypeInv, Typed
    <3>2. CASE c \in page
      <4>1. Untouched(c) /\ ~Queued(c)'
        BY <2>3, <2>7, <3>2, UntouchedIsFree DEF HasJob
      <4>2. contact'[c] = [status |-> "queued", attempts |-> 0]
        BY <2>1, <3>2, <4>1 DEF Untouched
      <4> QED BY <2>6, <3>2, <4>1, <4>2 DEF BatchStep, Row, NONTERMINAL_CONTACT
    <3> QED BY <3>1, <3>2
  <2>9. contact' \in [Contacts -> Row] /\ aged' \subseteq aged
    BY <2>1, <2>8
  <2>10. TypeInv' /\ LockInv'
    <3>1. \A u, v \in Workers : At(u, "refill")' /\ At(v, "refill")' => u = v
      BY <2>4, <2>5 DEF At
    <3> QED BY <1>1, <2>9, <3>1 DEF CampaignInv, LockInv, TypeInv, Typed
  <2>11. WorkerInv(w)'
    <3>1. LocalInv(w)'
      BY <1>0, <2>3, <2>4 DEF LocalInv, Working, Looping, Claiming, Calling
    <3>2. ~Parked(Target(w))'
      <4>1. Target(w)' \notin Contacts
        BY <2>4, CampaignAssumption DEF Target, NoJob
      <4> QED BY <1>1, <4>1 DEF Parked, CampaignInv, TypeInv, Typed, Job
    <3> QED BY <1>1, <2>4, <2>5, <3>1, <3>2 DEF WorkerInv, Claiming, Calling, Silent
  <2>12. \A i, k \in DOMAIN queue' : queue'[i].contact = queue'[k].contact => i = k
    BY <1>1 DEF CampaignInv, OwnInv
  <2>13. \A c \in Contacts : BatchStep(c)
    BY <2>8
  <2> QED BY <1>0, <1>1, <2>2, <2>4, <2>5, <2>9, <2>10, <2>11, <2>12, <2>13, BatchKeeps
<1> QED BY <1>2, <1>3

\* A sweep, step by step.
LEMMA SweepStepKeeps ==
    ASSUME CampaignInv, Shape', NEW w \in Workers, Sweep(w)
    PROVE  CampaignInv'
<1>1. ~Requeue(w)
  BY DEF Requeue, At, CampaignInv, WorkerInv, LocalInv
<1> QED
  BY <1>1, SweepQueuedKeeps, SweepActiveKeeps, HealKeeps, RefillKeeps, RefillEnqueueKeeps,
     RefillRestoreKeeps, CountKeeps, CompleteKeeps
  DEF Sweep

\* Where nothing moves, nothing is lost.
LEMMA StutterKeeps ==
    ASSUME CampaignInv, Shape', UNCHANGED vars
    PROVE  CampaignInv'
<1>1. UNCHANGED <<campaign, contact, aged, calls, queue, retries, parked, web, worker, env>>
  BY DEF vars
<1>2. \A c : /\ Queued(c)' <=> Queued(c)
             /\ Parked(c)' <=> Parked(c)
             /\ Busy(c)' <=> Busy(c)
             /\ Locked(c)' <=> Locked(c)
             /\ \A v \in Workers : Taken(v, c)' <=> Taken(v, c)
  BY <1>1 DEF Queued, Parked, Busy, Taken, Target, Locked, At
<1>3. (\A c : HasJob(c)' <=> HasJob(c)) /\ (LockFree' <=> LockFree)
  BY <1>1, <1>2 DEF HasJob, LockFree
<1>4. ASSUME NEW c \in Contacts PROVE ContactInv(c)'
  BY <1>1, <1>2, <1>3 DEF CampaignInv, ContactInv, Waits, Dialing, Done, Untouched
<1>5. ASSUME NEW v \in Workers PROVE WorkerInv(v)'
  <2>1. WorkerInv(v) /\ Target(v)' = Target(v)
    BY <1>1 DEF CampaignInv, Target
  <2> QED
    BY <1>1, <1>2, <2>1 DEF WorkerInv, LocalInv, Waits, Dialing, Done, NoOpen
<1>6. OwnInv' /\ LockInv' /\ TypeInv'
  BY <1>1 DEF CampaignInv, OwnInv, LockInv, TypeInv, Typed, Target, At
<1>7. KeyExact'
  <2>1. Keys(retries)' = Keys(retries) /\ \A v \in Workers : Held(v)' = Held(v)
    BY <1>1 DEF Keys, DedupeKey, Held, At
  <2> QED BY <1>1, <2>1 DEF CampaignInv, KeyExact
<1> QED BY <1>4, <1>5, <1>6, <1>7 DEF CampaignInv

\* Every step of an orderly campaign keeps its invariant.
LEMMA CampaignStepKeeps ==
    ASSUME Regime, CampaignInv, Shape', [Next]_vars
    PROVE  CampaignInv'
<1>1. CASE Start
  BY <1>1, StartClaimKeeps, StartRunningKeeps, StartEnqueueKeeps, StartRollbackKeeps DEF Start
<1>2. CASE \E w \in Workers : MainLoop(w) \/ ProcessJob(w) \/ Sweep(w)
  BY <1>2, LoopStepKeeps, ProcessKeeps, SweepStepKeeps
<1>3. ~\E w \in Workers : Crash(w) \/ CrashScheduling(w)
  BY DEF Crash, CrashScheduling, Spend, CampaignInv, TypeInv, Typed
<1>4. CASE \E c \in Contacts :
              Age(c) \/ Answered(c) \/ HangUp(c) \/ RoomFinished(c) \/ WebhookLost(c)
  BY <1>4, OutsideKeeps
<1>5. CASE UNCHANGED vars
  BY <1>5, StutterKeeps
<1> QED BY <1>1, <1>2, <1>3, <1>4, <1>5, KeyExpiresKeeps DEF Next

\* In an orderly campaign every job has one owner: a contact's job is in the list, parked, or in
\* the hands of one worker; no row goes stale while its job is about; and a batch claims only
\* contacts nobody has touched.
THEOREM CampaignInvariant == Regime => (Spec => []CampaignInv)
<1> SUFFICES ASSUME Regime PROVE Spec => []CampaignInv
  OBVIOUS
<1>1. Init => CampaignInv
  BY CampaignStarts
<1>2. CampaignInv /\ Shape' /\ [Next]_vars => CampaignInv'
  BY CampaignStepKeeps
<1>3. Spec => []Shape
  BY KeysFollowJobs, PTL
<1> QED BY <1>1, <1>2, <1>3, PTL DEF Spec

-----------------------------------------------------------------------------
\* A set whose members are all the same has at most one.
LEMMA AtMostOne ==
    ASSUME NEW S, \A x, y \in S : x = y
    PROVE  Cardinality(S) <= 1
<1>1. CASE S = {}
  BY <1>1, FS_EmptySet
<1>2. CASE S # {}
  <2>1. PICK x : S = {x}
    BY <1>2
  <2> QED BY <2>1, FS_Singleton
<1> QED BY <1>1, <1>2

\* In an orderly campaign a contact has one job and one live room at a time, on any number of
\* workers: the batches, the retries, the sweep and the webhook never make a second.
THEOREM CampaignOneAtATime == Regime => (Spec => []OneAtATime)
<1>1. CampaignInv => OneAtATime
  <2> SUFFICES ASSUME CampaignInv, NEW c \in Contacts
               PROVE  Cardinality(Jobs(c)) <= 1 /\ Cardinality(LiveRooms(c)) <= 1
    BY DEF OneAtATime, OneJobPerContact, NoDoubleDial
  <2>1. ContactInv(c)
    BY DEF CampaignInv
  <2>2. \A i, k \in LiveRooms(c) : i = k
    BY <2>1 DEF LiveRooms, ContactInv, Open
  <2> DEFINE inQueue(x) == \E i \in DOMAIN queue : queue[i].contact = c /\ x = <<"queue", i>>
             inRetries(x) == \E j \in retries : j.contact = c /\ x = <<"retries", j>>
             isTaken(x) == \E w \in Workers : \E j \in worker[w].todo :
                              j.contact = c /\ x = <<w, j>>
             isWorked(x) == \E w \in Workers :
                              /\ Target(w) = c /\ worker[w].pc \notin Handed
                              /\ x = <<w, worker[w].job>>
  <2>3. \A x \in Jobs(c) : inQueue(x) \/ inRetries(x) \/ isTaken(x) \/ isWorked(x)
    BY DEF Jobs, InHand, Handed, Target
  <2>4. \A x : /\ inQueue(x) => Queued(c)
               /\ inRetries(x) => Parked(c)
               /\ isTaken(x) => \E w \in Workers : Taken(w, c)
               /\ isWorked(x) => Busy(c)
    BY DEF Queued, Parked, Taken, Busy
  <2>5. \A x : isWorked(x) => ~Parked(c)
    BY DEF CampaignInv, WorkerInv
  <2>6. \A x, y : inQueue(x) /\ inQueue(y) => x = y
    BY DEF CampaignInv, OwnInv
  <2>7. \A x, y : inRetries(x) /\ inRetries(y) => x = y
    BY DEF CampaignInv, OwnInv
  <2>8. \A x, y : isTaken(x) /\ isTaken(y) => x = y
    BY DEF CampaignInv, OwnInv
  <2>9. \A x, y : isWorked(x) /\ isWorked(y) => x = y
    BY DEF CampaignInv, OwnInv
  <2>10. /\ Queued(c) => ~Parked(c) /\ ~Busy(c)
         /\ (\E w \in Workers : Taken(w, c)) => ~Queued(c) /\ ~Parked(c) /\ ~Busy(c)
    BY <2>1 DEF ContactInv
  <2> HIDE DEF inQueue, inRetries, isTaken, isWorked
  <2>11. \A x, y \in Jobs(c) : x = y
    BY <2>3, <2>4, <2>5, <2>6, <2>7, <2>8, <2>9, <2>10
  <2> QED BY <2>2, <2>11, AtMostOne
<1> QED BY <1>1, CampaignInvariant, PTL

\* A campaign is marked completed only when no contact is left to call, whichever of the sweep,
\* the webhook or the start request marks it.
THEOREM CampaignDrained == Regime => (Spec => []CompletedIsDrained)
<1>1. CampaignInv => CompletedIsDrained
  BY DEF CampaignInv, ContactInv, CompletedIsDrained, Done
<1> QED BY <1>1, CampaignInvariant, PTL

\* Who writes to a contact's row: the owner of its job, a batch that finds it fresh or claimed,
\* and the sweep or the webhook, which end it.
LEMMA DoneStaysDone ==
    ASSUME Regime, CampaignInv, Next, NEW c \in Contacts, Done(c)
    PROVE  Done(c)'
<1>1. contact[c].status \notin NONTERMINAL_CONTACT /\ ~Untouched(c)
  BY DEF Done, Untouched, NONTERMINAL_CONTACT, TerminalContact
<1>2. CASE UNCHANGED contact
  BY <1>2 DEF Done
<1>3. CASE Start
  <2>1. CASE StartClaim
    <3>1. contact'[c] = contact[c]
      BY <1>1, <2>1 DEF StartClaim, Batches, NONTERMINAL_CONTACT
    <3> QED BY <3>1 DEF Done
  <2>2. CASE StartRollback
    <3>1. contact'[c] = contact[c]
      BY <1>1, <2>2 DEF StartRollback, NONTERMINAL_CONTACT
    <3> QED BY <3>1 DEF Done
  <2> QED BY <1>2, <1>3, <2>1, <2>2 DEF Start, StartRunning, StartEnqueue
<1>4. ASSUME NEW w \in Workers, ProcessJob(w) PROVE Done(c)'
  <2>1. worker[w].pc \in Working => c # Target(w)
    BY Owner
  <2>2. \A row : SetContact(Target(w), row) /\ c # Target(w) => contact'[c] = contact[c]
    BY DEF SetContact, CampaignInv, TypeInv, Typed
  <2>3. \/ UNCHANGED contact
        \/ worker[w].pc \in Working /\ \E row : SetContact(Target(w), row)
    <3>1. CASE Park(w) \/ Throw(w) \/ ClaimRaises(w) \/ ParkJob(w)
      <4>1. ~Throw(w) /\ ~ClaimRaises(w)
        BY DEF Throw, ClaimRaises, Regime
      <4>2. ~Park(w)
        BY DEF Park, At, CampaignInv, WorkerInv, LocalInv, Working, Looping, Claiming, Calling
      <4> QED BY <3>1, <4>1, <4>2 DEF ParkJob
    <3>2. CASE Terminal(w) \/ Defer(w) \/ CountFailure(w) \/ MarkContactDialing(w)
      BY <3>2 DEF Terminal, Defer, CountFailure, MarkContactDialing, SetStatus, At,
                  Working, Claiming, Calling
    <3>3. CASE ClaimContact(w)
      BY <3>3 DEF ClaimContact, SetStatus, At, Working, Claiming
    <3>4. CASE PreflightNotRunning(w) \/ PreflightRefuse(w) \/ PreflightPass(w)
      BY <3>4 DEF PreflightNotRunning, PreflightRefuse, PreflightPass
    <3>5. CASE AdmitSlots(w) \/ RefuseSlots(w) \/ Mint(w) \/ DialAccepted(w) \/ DialFailed(w)
      BY <3>5 DEF AdmitSlots, RefuseSlots, Mint, DialAccepted, DialFailed
    <3>6. CASE FailCall(w) \/ Backoff(w) \/ MarkCallDialing(w)
      BY <3>6 DEF FailCall, Backoff, MarkCallDialing
    <3> QED BY <1>4, <3>1, <3>2, <3>3, <3>4, <3>5, <3>6 DEF ProcessJob
  <2> QED BY <2>1, <2>2, <2>3 DEF Done
<1>5. ASSUME NEW w \in Workers, Sweep(w) PROVE Done(c)'
  <2>1. CASE Refill(w)
    <3>1. c \notin Fresh
      BY <1>1 DEF Fresh, Untouched
    <3>2. contact'[c] = contact[c]
      BY <2>1, <3>1 DEF Refill, Batches
    <3> QED BY <3>2 DEF Done
  <2>2. CASE RefillRestore(w)
    <3>1. contact[c] # [status |-> "queued", attempts |-> 0]
      BY <1>1 DEF NONTERMINAL_CONTACT
    <3>2. contact'[c] = contact[c]
      BY <2>2, <3>1 DEF RefillRestore
    <3> QED BY <3>2 DEF Done
  <2>3. CASE Heal(w)
    <3>1. PICK d \in worker[w].rows, st \in TerminalContact :
             UNCHANGED contact \/ SetStatus(d, st)
      BY <2>3 DEF Heal, TerminalContact, CALL_TERMINAL_MIRROR
    <3>2. d \in Contacts
      BY <2>3 DEF Heal, At, CampaignInv, WorkerInv, LocalInv
    <3> QED BY <3>1, <3>2, SetStatusDoes DEF CampaignInv, TypeInv, Done
  <2>4. ~Requeue(w)
    BY DEF Requeue, At, CampaignInv, WorkerInv, LocalInv
  <2> QED
    BY <1>2, <1>5, <2>1, <2>2, <2>3, <2>4
    DEF Sweep, SweepQueued, SweepActive, RefillEnqueue, CountRemaining, CompleteCampaign
<1>6. ASSUME NEW d \in Contacts, RoomFinished(d) PROVE Done(c)'
  <2>1. UNCHANGED contact \/ SetStatus(d, "completed")
    BY <1>6 DEF RoomFinished
  <2> QED BY <2>1, SetStatusDoes DEF CampaignInv, TypeInv, Done, TerminalContact
<1>7. \/ UNCHANGED contact \/ Start
      \/ \E w \in Workers : ProcessJob(w) \/ Sweep(w)
      \/ \E d \in Contacts : RoomFinished(d)
  BY DEF Next, MainLoop, Pop, ClaimDue, FreeKeys, NoneDue, NextRetry, SkipSweep, Crash,
         CrashScheduling, KeyExpires, Age, Answered, HangUp, WebhookLost
<1> QED BY <1>2, <1>3, <1>4, <1>5, <1>6, <1>7

\* In an orderly campaign no step makes a terminal contact one that may be dialled again.
THEOREM CampaignNeverReopens == Regime => (Spec => NeverReopened)
<1> SUFFICES ASSUME Regime PROVE Spec => NeverReopened
  OBVIOUS
<1>1. CampaignInv /\ [Next]_vars =>
        [\A c \in Contacts : contact[c].status \in TerminalContact =>
            contact'[c].status \in TerminalContact]_vars
  BY DoneStaysDone DEF Done
<1>2. Spec => []CampaignInv
  BY CampaignInvariant
<1> QED BY <1>1, <1>2, PTL DEF Spec, NeverReopened

-----------------------------------------------------------------------------
(* 3. How often a contact is dialled.                                      *)

\* The places where a worker holds a job, and those where it has counted the attempts so far.
Counting == {"slots", "defer"} \cup (Calling \cup {"claim_contact"})
Carrying == Counting \cup {"preflight", "terminal", "park", "park_job"}
Ahead == {"dial", "accepted", "mark_contact", "failed", "backoff", "count_failure"}

\* Each call is counted in the contact's row.
Even(c) == Len(calls[c]) <= contact[c].attempts

\* A job allows no more than the campaign does, and claims no attempt the row does not count.
Sound(j) ==
    /\ j \in Job /\ MaxOf(j) <= MaxAttempts
    /\ j.attempt <= contact[j.contact].attempts

CountsInv(w) ==
    /\ worker[w].pc \in Carrying \cup Looping /\ worker[w].back \in {"pop", "claim", "retries"}
    /\ worker[w].attempts \in Nat /\ worker[w].verdict \in {"failed", "dnc"}
    /\ worker[w].pc \in Carrying => Sound(worker[w].job)
    /\ worker[w].pc \notin Carrying => worker[w].job = NoJob
    /\ \A j \in worker[w].todo : Sound(j)
    /\ worker[w].pc = "requeue" => \A j \in worker[w].rows : Sound(j) /\ Even(j.contact)
    /\ worker[w].pc = "heal" => worker[w].rows \subseteq Contacts
    /\ worker[w].pc = "refill" => worker[w].rows \subseteq Contacts
    /\ worker[w].pc \in Counting =>
          /\ worker[w].attempts = contact[Target(w)].attempts
          /\ worker[w].attempts < MaxOf(worker[w].job)
    /\ worker[w].pc \in {"park", "park_job", "mint", "defer"} => Even(Target(w))
    /\ worker[w].pc \in Calling => contact[Target(w)].status \notin Claimable
    /\ worker[w].pc \in Ahead => Len(calls[Target(w)]) <= worker[w].attempts + 1
    /\ worker[w].pc \in {"dial", "accepted", "failed"} =>
          worker[w].call \in DOMAIN calls[Target(w)]

\* The start request's claims are contacts.
Claims == DOMAIN web = {"pc", "claimed"} /\ web.claimed \subseteq Contacts

DialInv ==
    /\ Shape /\ Typed /\ Claims
    /\ \A i \in DOMAIN queue : Sound(queue[i])
    /\ \A j \in retries : Sound(j)
    /\ \A w \in Workers : CountsInv(w)
    /\ \A c \in Contacts : /\ Len(calls[c]) <= MaxAttempts
                           /\ contact[c].status \in Claimable => Even(c)

\* What it takes: no two workers hold a job of the same contact, no contact a worker is about to
\* queue again has gone on meanwhile, and a requeued job's default maximum is not larger.
Exclusive ==
    /\ \A v, w \in Workers : Target(v) = Target(w) /\ Target(v) \in Contacts => v = w
    /\ \A w \in Workers : worker[w].pc = "requeue" =>
          \A j \in worker[w].rows : ~Busy(j.contact)
    /\ Stale("queued") # {} => DefaultMax <= MaxAttempts

\* A step that leaves all counts alone.
CountsKept ==
    \A c \in Contacts : /\ contact'[c].attempts = contact[c].attempts
                        /\ Len(calls'[c]) = Len(calls[c])
                        /\ DOMAIN calls'[c] = DOMAIN calls[c]

\* A job is sound, and a contact even, as long as the row and the calls keep their counts.
LEMMA SoundStays ==
    ASSUME CountsKept
    PROVE  /\ \A j : Sound(j) => Sound(j)'
           /\ \A c \in Contacts : Even(c)' <=> Even(c)
BY DEF CountsKept, Sound, MaxOf, Even, Job

\* Where the counts stay, who writes the row or the calls does not matter.
LEMMA QuietDials ==
    ASSUME DialInv, Shape', Typed', Claims', CountsKept,
           \A c \in Contacts : contact'[c].status \in Claimable =>
              \/ contact[c].status \in Claimable
              \/ Even(c) /\ \A v \in Workers : CountsInv(v)' \/ Target(v) # c,
           \A i \in DOMAIN queue' : Sound(queue'[i]),
           \A j \in retries' : Sound(j),
           \A v \in Workers : worker'[v] = worker[v] \/ CountsInv(v)'
    PROVE  DialInv'
<1>1. \A c \in Contacts : Even(c)' <=> Even(c)
  BY SoundStays
<1>2. \A j \in Job : Sound(j) => Sound(j)'
  BY SoundStays
<1>3. (\A i \in DOMAIN queue' : Sound(queue[i])') /\ \A j \in retries' : Sound(j)'
  <2>1. ASSUME NEW i \in DOMAIN queue' PROVE Sound(queue[i])'
    <3>1. PICK j : j = queue'[i]
      OBVIOUS
    <3>2. Sound(j) /\ j \in Job
      BY <3>1 DEF Sound
    <3>3. Sound(j)'
      BY <1>2, <3>2
    <3> QED BY <3>1, <3>3 DEF Sound, MaxOf
  <2>2. \A j \in retries' : Sound(j)'
    BY <1>2 DEF Sound
  <2> QED BY <2>1, <2>2
<1>4. ASSUME NEW v \in Workers, worker'[v] = worker[v], ~CountsInv(v)' PROVE CountsInv(v)'
  <2>1. CountsInv(v) /\ Target(v)' = Target(v)
    BY <1>4 DEF DialInv, Target
  <2>2. worker[v].pc \in Carrying =>
           Sound(worker[v].job) /\ worker[v].job \in Job /\ Target(v) \in Contacts
    BY <2>1 DEF CountsInv, Sound, Job, Target
  <2>3. worker[v].pc \in Carrying => Sound(worker[v].job)'
    <3> SUFFICES ASSUME worker[v].pc \in Carrying PROVE Sound(worker[v].job)'
      OBVIOUS
    <3>1. PICK j : j = worker[v].job
      OBVIOUS
    <3>2. Sound(j)'
      BY <1>2, <2>2, <3>1
    <3> QED BY <1>4, <3>1, <3>2 DEF Sound, MaxOf
  <2>4. \A j \in worker'[v].todo : Sound(j)'
    BY <1>2, <1>4, <2>1 DEF CountsInv, Sound
  <2>5. worker[v].pc = "requeue" => \A j \in worker'[v].rows : Sound(j)' /\ Even(j.contact)'
    <3> SUFFICES ASSUME worker[v].pc = "requeue", NEW j \in worker[v].rows
                 PROVE  Sound(j)' /\ Even(j.contact)'
      BY <1>4
    <3>1. Sound(j) /\ Even(j.contact) /\ j \in Job /\ j.contact \in Contacts
      BY <2>1 DEF CountsInv, Sound, Job
    <3> QED BY <1>1, <1>2, <3>1
  <2>6. worker[v].pc \in {"park", "park_job", "mint", "defer"} => Even(Target(v))'
    BY <1>1, <2>1, <2>2 DEF CountsInv, Even, Carrying, Counting, Calling
  <2>7. worker[v].pc \in Carrying => contact'[Target(v)].attempts = contact[Target(v)].attempts
                                     /\ Len(calls'[Target(v)]) = Len(calls[Target(v)])
                                     /\ DOMAIN calls'[Target(v)] = DOMAIN calls[Target(v)]
    BY <2>2 DEF CountsKept
  <2>8. Counting \cup Ahead \subseteq Carrying
    BY DEF Carrying, Counting, Calling, Ahead
  <2>9. /\ worker[v].pc \in Counting =>
              /\ worker[v].attempts = contact'[Target(v)].attempts
              /\ worker[v].attempts < MaxOf(worker[v].job)
        /\ worker[v].pc \in Ahead => Len(calls'[Target(v)]) <= worker[v].attempts + 1
        /\ worker[v].pc \in Calling => contact'[Target(v)].status \notin Claimable
    BY <1>4, <2>1, <2>2, <2>7, <2>8 DEF CountsInv, Counting
  <2>10. worker[v].pc \in {"dial", "accepted", "failed"} =>
            worker[v].call \in DOMAIN calls'[Target(v)]
    BY <2>1, <2>7, <2>8 DEF CountsInv, Ahead
  <2> QED
    BY <1>4, <2>1, <2>3, <2>4, <2>5, <2>6, <2>9, <2>10 DEF CountsInv, MaxOf
<1>5. \A c \in Contacts : Len(calls'[c]) <= MaxAttempts
                          /\ (contact'[c].status \in Claimable => Even(c)')
  BY <1>1 DEF DialInv, CountsKept
<1>6. \A v \in Workers : CountsInv(v)'
  BY <1>4
<1> QED BY <1>3, <1>5, <1>6 DEF DialInv

\* A worker that goes on with its job.
LEMMA GoesOn ==
    ASSUME DialInv, CountsKept, NEW w \in Workers, NEW pc, Goto(w, pc),
           worker[w].pc \in Carrying, pc \in Carrying,
           pc \in Counting => worker[w].pc \in Counting,
           pc \in {"park", "park_job", "mint", "defer"} => Even(Target(w)),
           pc \in Ahead => worker[w].pc \in Ahead,
           pc \in Calling => contact'[Target(w)].status \notin Claimable,
           pc \in {"dial", "accepted", "failed"} =>
              worker[w].pc \in {"dial", "accepted", "failed"}
    PROVE  CountsInv(w)' /\ \A v \in Workers : v # w => worker'[v] = worker[v]
<1>1. /\ worker'[w].pc = pc /\ worker'[w].attempts = worker[w].attempts
      /\ worker'[w].verdict = worker[w].verdict /\ worker'[w].call = worker[w].call
      /\ worker'[w].back = worker[w].back /\ worker'[w].job = worker[w].job
      /\ worker'[w].todo = worker[w].todo /\ Target(w)' = Target(w)
      /\ \A v \in Workers : v # w => worker'[v] = worker[v]
  BY GotoDoes DEF DialInv, Same, Others, Target
<1>2. CountsInv(w)
  BY DEF DialInv
<1>3. Sound(worker[w].job) /\ Target(w) \in Contacts
  BY <1>2 DEF CountsInv, Sound, Job, Target
<1>4. Sound(worker[w].job)'
  <2>1. PICK j : j = worker[w].job
    OBVIOUS
  <2>2. Sound(j)'
    BY <1>3, <2>1, SoundStays
  <2> QED BY <1>1, <2>1, <2>2 DEF Sound, MaxOf
<1>5. \A j \in worker'[w].todo : Sound(j)'
  BY <1>1, <1>2, SoundStays DEF CountsInv
<1>6. /\ contact'[Target(w)].attempts = contact[Target(w)].attempts
      /\ Len(calls'[Target(w)]) = Len(calls[Target(w)])
      /\ DOMAIN calls'[Target(w)] = DOMAIN calls[Target(w)]
  BY <1>3 DEF CountsKept
<1>7. pc \notin Looping
  BY DEF Carrying, Counting, Calling, Looping
<1>8. pc # "requeue" /\ pc # "heal" /\ pc # "refill"
  BY <1>7 DEF Looping
<1>9. pc \in {"park", "park_job", "mint", "defer"} => Even(Target(w))'
  BY <1>1, <1>6 DEF Even
<1> QED BY <1>1, <1>2, <1>4, <1>5, <1>6, <1>8, <1>9 DEF CountsInv, MaxOf

\* A worker that is done with its job.
LEMMA GivesUp ==
    ASSUME DialInv, CountsKept, NEW w \in Workers, Return(w)
    PROVE  CountsInv(w)' /\ \A v \in Workers : v # w => worker'[v] = worker[v]
<1>1. /\ worker'[w].pc = worker[w].back /\ worker'[w].attempts = 0
      /\ worker'[w].verdict = "failed" /\ worker'[w].back = "pop"
      /\ worker'[w].job = NoJob /\ worker'[w].todo = worker[w].todo
      /\ \A v \in Workers : v # w => worker'[v] = worker[v]
  BY ReturnDoes DEF DialInv, Others
<1>2. CountsInv(w) /\ worker[w].back \in {"pop", "claim", "retries"}
  BY DEF DialInv, CountsInv
<1>3. \A j \in worker'[w].todo : Sound(j)'
  BY <1>1, <1>2, SoundStays DEF CountsInv
<1>4. \A pc \in {"pop", "claim", "retries"} : /\ pc \notin Carrying /\ pc \in Looping
                                              /\ pc \notin {"requeue", "heal", "refill"}
  BY DEF Carrying, Counting, Calling, Looping
<1>5. \A pc \in Counting \cup Ahead \cup Calling \cup {"park", "park_job"} : pc \in Carrying
  BY DEF Carrying, Counting, Calling, Ahead
<1>6. {"mint", "defer", "dial", "accepted", "failed"} \subseteq Counting
  BY DEF Counting, Calling
<1> QED BY <1>1, <1>2, <1>3, <1>4, <1>5, <1>6 DEF CountsInv

\* A worker that moves on in its loop, without a job.
LEMMA LoopsOn ==
    ASSUME DialInv, CountsKept, NEW w \in Workers, NEW pc, Goto(w, pc),
           worker[w].pc \in Looping, pc \in Looping \ {"requeue", "heal", "refill"}
    PROVE  CountsInv(w)' /\ \A v \in Workers : v # w => worker'[v] = worker[v]
<1>1. /\ worker'[w].pc = pc /\ worker'[w].attempts = worker[w].attempts
      /\ worker'[w].verdict = worker[w].verdict
      /\ worker'[w].back = worker[w].back /\ worker'[w].job = worker[w].job
      /\ worker'[w].todo = worker[w].todo
      /\ \A v \in Workers : v # w => worker'[v] = worker[v]
  BY GotoDoes DEF DialInv, Same, Others
<1>2. CountsInv(w)
  BY DEF DialInv
<1>3. \A j \in worker'[w].todo : Sound(j)'
  BY <1>1, <1>2, SoundStays DEF CountsInv
<1>4. \A p \in Looping : p \notin Carrying /\ p \notin Counting /\ p \notin Ahead
                         /\ p \notin {"park", "park_job", "mint", "defer"}
                         /\ p \notin {"dial", "accepted", "failed"}
                         /\ p \notin Calling
  BY DEF Carrying, Counting, Calling, Looping, Ahead
<1> QED BY <1>1, <1>2, <1>3, <1>4 DEF CountsInv

\* A worker that starts over.
LEMMA StartsOver ==
    ASSUME NEW w \in Workers, NEW pc \in {"pop", "count"}, worker'[w] = [Idle EXCEPT !.pc = pc]
    PROVE  CountsInv(w)'
<1>1. /\ worker'[w].pc = pc /\ worker'[w].attempts = 0
      /\ worker'[w].verdict = "failed" /\ worker'[w].back = "pop"
      /\ worker'[w].job = NoJob /\ worker'[w].todo = {}
  BY DEF Idle
<1>2. pc \notin Carrying /\ pc \in Looping /\ pc \notin Counting /\ pc \notin Ahead
      /\ pc \notin Calling
  BY DEF Carrying, Counting, Calling, Looping, Ahead
<1> QED BY <1>1, <1>2 DEF CountsInv

\* Parking a sound job leaves the retry set sound.
LEMMA ScheduleSound ==
    ASSUME DialInv, NEW job, Sound(job), Schedule(job)
    PROVE  retries' \subseteq Job /\ \A j \in retries' : Sound(j)
BY DEF Schedule, DialInv, Typed, Sound

\* What a worker at a place where it has a job may rely on.
LEMMA Carries ==
    ASSUME DialInv, NEW w \in Workers, worker[w].pc \in Carrying
    PROVE  /\ CountsInv(w) /\ Target(w) \in Contacts /\ Sound(worker[w].job)
           /\ contact[Target(w)] \in Row
BY DEF DialInv, CountsInv, Sound, Job, Target, Typed

\* A step of w that writes neither rows nor calls.
LEMMA MovesDial ==
    ASSUME DialInv, Shape', NEW w \in Workers, UNCHANGED <<contact, calls, queue, web>>,
           \/ UNCHANGED retries
           \/ retries' \subseteq Job /\ \A j \in retries' : Sound(j),
           CountsInv(w)' /\ \A v \in Workers : v # w => worker'[v] = worker[v]
    PROVE  DialInv'
<1>1. Typed' /\ CountsKept /\ Claims'
  BY DEF DialInv, Typed, CountsKept, Claims
<1>2. (\A i \in DOMAIN queue' : Sound(queue'[i])) /\ \A j \in retries' : Sound(j)
  BY DEF DialInv
<1> QED BY <1>1, <1>2, QuietDials

\* Writing a status keeps the counts.
LEMMA StatusCounts ==
    ASSUME Typed, NEW c \in Contacts, NEW st \in NONTERMINAL_CONTACT \cup TerminalContact,
           SetStatus(c, st), UNCHANGED calls
    PROVE  /\ CountsKept /\ contact' \in [Contacts -> Row]
           /\ \A d \in Contacts : contact'[d].status \in Claimable =>
                 contact[d].status \in Claimable \/ (d = c /\ st \in Claimable)
<1>1. /\ contact' \in [Contacts -> Row]
      /\ contact'[c].status = st /\ contact'[c].attempts = contact[c].attempts
      /\ \A d \in Contacts : d # c => contact'[d] = contact[d]
  BY SetStatusDoes
<1> QED BY <1>1 DEF CountsKept

\* Writing a call keeps the counts.
LEMMA CallCounts ==
    ASSUME Typed, NEW w \in Workers, Target(w) \in Contacts, NEW row \in Call,
           worker[w].call \in DOMAIN calls[Target(w)], SetCall(w, row), UNCHANGED contact
    PROVE  CountsKept /\ calls' \in [Contacts -> Seq(Call)]
<1>1. /\ calls' \in [Contacts -> Seq(Call)]
      /\ Len(calls'[Target(w)]) = Len(calls[Target(w)])
      /\ \A d \in Contacts : d # Target(w) => calls'[d] = calls[d]
  BY SetCallDoes
<1>2. \A s \in Seq(Call) : DOMAIN s = 1..Len(s)
  OBVIOUS
<1>3. \A d \in Contacts : /\ calls'[d] \in Seq(Call) /\ calls[d] \in Seq(Call)
                          /\ Len(calls'[d]) = Len(calls[d])
  BY <1>1 DEF Typed
<1> QED BY <1>1, <1>2, <1>3 DEF CountsKept

\* A step of w that writes a status, to its own contact or one it queues again.
LEMMA WritesStatus ==
    ASSUME DialInv, Shape', NEW w \in Workers, NEW c \in Contacts,
           NEW st \in NONTERMINAL_CONTACT \cup TerminalContact,
           SetStatus(c, st), UNCHANGED <<calls, queue, web>>,
           st \in Claimable => Even(c) /\ \A v \in Workers : v # w => Target(v) # c,
           \/ UNCHANGED retries
           \/ retries' \subseteq Job /\ \A j \in retries' : Sound(j),
           CountsInv(w)' /\ \A v \in Workers : v # w => worker'[v] = worker[v]
    PROVE  DialInv'
<1>1. /\ CountsKept /\ contact' \in [Contacts -> Row]
      /\ \A d \in Contacts : contact'[d].status \in Claimable =>
            contact[d].status \in Claimable \/ (d = c /\ st \in Claimable)
  BY StatusCounts DEF DialInv
<1>4. \A d \in Contacts : contact'[d].status \in Claimable =>
         \/ contact[d].status \in Claimable
         \/ Even(d) /\ \A v \in Workers : v # w => Target(v) # d
  BY <1>1
<1>5. \A v \in Workers : worker'[v] = worker[v] \/ CountsInv(v)'
  OBVIOUS
<1>2. Typed' /\ Claims'
  BY <1>1 DEF DialInv, Typed, Claims
<1>3. (\A i \in DOMAIN queue' : Sound(queue'[i])) /\ \A j \in retries' : Sound(j)
  BY DEF DialInv
<1> QED BY <1>1, <1>2, <1>3, <1>4, <1>5, QuietDials

\* Preflight, from the reads to the first write.
LEMMA PreflightDials ==
    ASSUME DialInv, Shape', NEW w \in Workers,
           PreflightNotRunning(w) \/ PreflightRefuse(w) \/ PreflightPass(w)
    PROVE  DialInv'
<1>0. /\ UNCHANGED <<campaign, contact, aged, calls, queue, retries, parked, web, env>>
      /\ worker[w].pc = "preflight" /\ worker[w].pc \in Carrying
  BY DEF PreflightNotRunning, PreflightRefuse, PreflightPass, At, Carrying
<1>1. /\ CountsInv(w) /\ Target(w) \in Contacts /\ Sound(worker[w].job)
      /\ contact[Target(w)] \in Row /\ CountsKept
  BY <1>0, Carries DEF CountsKept
<1>2. CASE PreflightNotRunning(w)
  <2>1. CASE contact[Target(w)].status = "queued"
    <3>1. Even(Target(w))
      BY <1>1, <2>1 DEF DialInv, Claimable
    <3>2. Goto(w, "park")
      BY <1>2, <2>1 DEF PreflightNotRunning
    <3>3. CountsInv(w)' /\ \A v \in Workers : v # w => worker'[v] = worker[v]
      BY <1>0, <1>1, <3>1, <3>2, GoesOn DEF Carrying, Counting, Calling, Ahead
    <3> QED BY <1>0, <3>3, MovesDial
  <2>2. CASE contact[Target(w)].status # "queued"
    <3>1. Return(w)
      BY <1>2, <2>2 DEF PreflightNotRunning
    <3>2. CountsInv(w)' /\ \A v \in Workers : v # w => worker'[v] = worker[v]
      BY <1>1, <3>1, GivesUp
    <3> QED BY <1>0, <3>2, MovesDial
  <2> QED BY <2>1, <2>2
<1>3. ASSUME NEW r, worker' = [worker EXCEPT ![w] = r],
             r.job = worker[w].job, r.todo = worker[w].todo, r.back = worker[w].back,
             r.verdict \in {"failed", "dnc"}, r.attempts \in Nat,
             \/ r.pc = "terminal"
             \/ /\ r.pc = "slots" /\ r.attempts = contact[Target(w)].attempts
                /\ r.attempts < MaxOf(worker[w].job)
      PROVE  DialInv'
  <2>1. worker'[w] = r /\ \A v \in Workers : v # w => worker'[v] = worker[v]
    BY <1>3 DEF DialInv, Shape
  <2>2. Sound(worker[w].job)' /\ Target(w)' = Target(w)
    BY <1>0, <1>1, <1>3, <2>1 DEF Sound, MaxOf, Target
  <2>3. \A j \in worker'[w].todo : Sound(j)'
    BY <1>0, <1>1, <1>3, <2>1 DEF CountsInv, Sound, MaxOf
  <2>4. CountsInv(w)'
    BY <1>0, <1>1, <1>3, <2>1, <2>2, <2>3
    DEF CountsInv, Carrying, Counting, Calling, Ahead, MaxOf
  <2> QED BY <1>0, <2>1, <2>4, MovesDial
<1>4. CASE PreflightRefuse(w)
  <2>1. PICK verdict \in {"failed", "dnc"} :
           worker' = [worker EXCEPT ![w] =
                        [worker[w] EXCEPT !.pc = "terminal", !.verdict = verdict]]
    BY <1>4 DEF PreflightRefuse
  <2> DEFINE r == [worker[w] EXCEPT !.pc = "terminal", !.verdict = verdict]
  <2>2. /\ r.pc = "terminal" /\ r.verdict = verdict /\ r.job = worker[w].job
        /\ r.todo = worker[w].todo /\ r.back = worker[w].back
        /\ r.attempts = worker[w].attempts
    BY DEF DialInv, Shape, Local, Fields
  <2>3. r.attempts \in Nat
    BY <1>1, <2>2 DEF CountsInv
  <2>4. worker' = [worker EXCEPT ![w] = r]
    BY <2>1
  <2> HIDE DEF r
  <2> QED BY <1>3, <2>1, <2>2, <2>3, <2>4
<1>5. CASE PreflightPass(w)
  <2>1. PICK attempts : attempts = Attempts(worker[w].job)
    OBVIOUS
  <2>2. /\ worker' = [worker EXCEPT ![w] =
                        [worker[w] EXCEPT !.pc = "slots", !.attempts = attempts]]
        /\ attempts < MaxOf(worker[w].job)
    BY <1>5, <2>1 DEF PreflightPass
  <2>3. attempts = contact[Target(w)].attempts /\ attempts \in Nat
    <3>1. contact[Target(w)].attempts \in Nat /\ worker[w].job.attempt \in Nat
      BY <1>1 DEF Row, Sound, Job
    <3>2. worker[w].job.attempt <= contact[Target(w)].attempts
      BY <1>1 DEF Sound, Target
    <3> QED BY <2>1, <3>1, <3>2 DEF Attempts, Target
  <2> DEFINE r == [worker[w] EXCEPT !.pc = "slots", !.attempts = attempts]
  <2>4. /\ r.pc = "slots" /\ r.verdict = worker[w].verdict /\ r.job = worker[w].job
        /\ r.todo = worker[w].todo /\ r.back = worker[w].back
        /\ r.attempts = attempts
    BY DEF DialInv, Shape, Local, Fields
  <2>5. r.verdict \in {"failed", "dnc"}
    BY <1>1, <2>4 DEF CountsInv
  <2>6. worker' = [worker EXCEPT ![w] = r]
    BY <2>2
  <2> HIDE DEF r
  <2> QED BY <1>3, <2>2, <2>3, <2>4, <2>5, <2>6
<1> QED BY <1>2, <1>4, <1>5

\* What it takes of the schedule: as Exclusive says, and a job that is deferred, or whose step
\* raises, has not dialled since its contact was last counted.
Fair(w) ==
    /\ worker[w].pc = "slots" /\ env.refusals > 0 => contact[Target(w)].status \in Claimable
    /\ worker[w].pc \in Faulty => worker[w].pc \in {"claim_contact", "mint"}

\* A slot refused, and the deferral that follows.
LEMMA SlotsDial ==
    ASSUME DialInv, Exclusive, Shape', NEW w \in Workers, Fair(w),
           AdmitSlots(w) \/ RefuseSlots(w) \/ Defer(w)
    PROVE  DialInv'
<1>1. CASE AdmitSlots(w)
  <2>1. /\ worker[w].pc = "slots" /\ worker[w].pc \in Carrying
        /\ UNCHANGED <<campaign, contact, aged, calls, queue, retries, parked, web, env>>
        /\ Goto(w, "claim_contact")
    BY <1>1 DEF AdmitSlots, At, Carrying, Counting
  <2>2. CountsKept
    BY <2>1 DEF CountsKept
  <2>3. CountsInv(w)' /\ \A v \in Workers : v # w => worker'[v] = worker[v]
    BY <2>1, <2>2, GoesOn DEF Carrying, Counting, Calling, Ahead
  <2> QED BY <2>1, <2>3, MovesDial
<1>2. CASE RefuseSlots(w)
  <2>1. /\ worker[w].pc = "slots" /\ worker[w].pc \in Carrying
        /\ UNCHANGED <<campaign, contact, aged, calls, queue, web>>
        /\ Goto(w, "defer") /\ Schedule(worker[w].job) /\ env.refusals > 0
    BY <1>2 DEF RefuseSlots, At, Carrying, Counting, Spend
  <2>2. CountsKept /\ Sound(worker[w].job) /\ Target(w) \in Contacts
    BY <2>1, Carries DEF CountsKept
  <2>3. Even(Target(w))
    BY <2>1, <2>2 DEF Fair, DialInv
  <2>4. CountsInv(w)' /\ \A v \in Workers : v # w => worker'[v] = worker[v]
    BY <2>1, <2>2, <2>3, GoesOn DEF Carrying, Counting, Calling, Ahead
  <2>5. retries' \subseteq Job /\ \A j \in retries' : Sound(j)
    BY <2>1, <2>2, ScheduleSound
  <2> QED BY <2>1, <2>4, <2>5, MovesDial
<1>3. CASE Defer(w)
  <2>1. /\ worker[w].pc = "defer" /\ worker[w].pc \in Carrying
        /\ UNCHANGED <<campaign, calls, queue, retries, parked, web, env>>
        /\ Return(w) /\ SetStatus(Target(w), "queued")
    BY <1>3 DEF Defer, At, Carrying, Counting
  <2>2. CountsInv(w) /\ Target(w) \in Contacts /\ Even(Target(w))
    BY <2>1, Carries DEF CountsInv
  <2>3. PICK st : st = "queued"
    OBVIOUS
  <2>4. st \in NONTERMINAL_CONTACT \cup TerminalContact
    BY <2>3 DEF NONTERMINAL_CONTACT
  <2>5. CountsKept
    BY <2>1, <2>2, <2>3, <2>4, StatusCounts DEF DialInv
  <2>6. CountsInv(w)' /\ \A v \in Workers : v # w => worker'[v] = worker[v]
    BY <2>1, <2>5, GivesUp
  <2>7. \A v \in Workers : v # w => Target(v) # Target(w)
    BY <2>2 DEF Exclusive
  <2> QED BY <2>1, <2>2, <2>3, <2>4, <2>6, <2>7, WritesStatus
<1> QED BY <1>1, <1>2, <1>3

\* A worker that parks its contact, or ends it, and gives the job up.
LEMMA EndsDial ==
    ASSUME DialInv, Exclusive, Shape', NEW w \in Workers, Park(w) \/ Terminal(w)
    PROVE  DialInv'
<1>1. PICK st \in {"pending", "failed", "dnc"} :
         /\ SetStatus(Target(w), st) /\ (st \in Claimable => worker[w].pc = "park")
  BY DEF Park, Terminal, At, DialInv, CountsInv, Claimable
<1>2. /\ worker[w].pc \in {"park", "terminal"} /\ worker[w].pc \in Carrying
      /\ UNCHANGED <<campaign, calls, queue, retries, parked, web, env>> /\ Return(w)
  BY DEF Park, Terminal, At, Carrying
<1>3. CountsInv(w) /\ Target(w) \in Contacts /\ (worker[w].pc = "park" => Even(Target(w)))
  BY <1>2, Carries DEF CountsInv
<1>4. st \in NONTERMINAL_CONTACT \cup TerminalContact
  BY DEF NONTERMINAL_CONTACT, TerminalContact
<1>5. CountsKept
  BY <1>1, <1>2, <1>3, <1>4, StatusCounts DEF DialInv
<1>6. CountsInv(w)' /\ \A v \in Workers : v # w => worker'[v] = worker[v]
  BY <1>2, <1>5, GivesUp
<1>7. \A v \in Workers : v # w => Target(v) # Target(w)
  BY <1>3 DEF Exclusive
<1>8. st \in Claimable => Even(Target(w))
  BY <1>1, <1>3
<1> QED BY <1>1, <1>2, <1>3, <1>4, <1>6, <1>7, <1>8, WritesStatus

\* The claim takes a contact whose calls are all counted.
LEMMA ClaimDials ==
    ASSUME DialInv, Shape', NEW w \in Workers, ClaimContact(w)
    PROVE  DialInv'
<1>1. /\ worker[w].pc = "claim_contact" /\ worker[w].pc \in Carrying
      /\ UNCHANGED <<campaign, calls, queue, retries, parked, web, env>>
  BY DEF ClaimContact, At, Carrying, Counting
<1>2. CountsInv(w) /\ Target(w) \in Contacts
  BY <1>1, Carries
<1>3. CASE contact[Target(w)].status \in Claimable
  <2>1. SetStatus(Target(w), "dialing") /\ Goto(w, "mint") /\ Even(Target(w))
    BY <1>2, <1>3 DEF ClaimContact, DialInv
  <2>2. PICK st : st = "dialing"
    OBVIOUS
  <2>3. st \in NONTERMINAL_CONTACT \cup TerminalContact /\ st \notin Claimable
    BY <2>2 DEF NONTERMINAL_CONTACT, Claimable
  <2>4. CountsKept
    BY <1>1, <1>2, <2>1, <2>2, <2>3, StatusCounts DEF DialInv
  <2>6. contact'[Target(w)].status \notin Claimable
    BY <1>2, <2>1, <2>2, <2>3, SetStatusDoes DEF DialInv
  <2>5. CountsInv(w)' /\ \A v \in Workers : v # w => worker'[v] = worker[v]
    BY <1>1, <2>1, <2>4, <2>6, GoesOn DEF Carrying, Counting, Calling, Ahead
  <2> QED BY <1>1, <1>2, <2>1, <2>2, <2>3, <2>5, WritesStatus
<1>4. CASE contact[Target(w)].status \notin Claimable
  <2>1. Return(w) /\ UNCHANGED <<contact, aged>>
    BY <1>4 DEF ClaimContact
  <2>2. CountsKept
    BY <1>1, <2>1 DEF CountsKept
  <2>3. CountsInv(w)' /\ \A v \in Workers : v # w => worker'[v] = worker[v]
    BY <2>1, <2>2, GivesUp
  <2> QED BY <1>1, <2>1, <2>3, MovesDial
<1> QED BY <1>3, <1>4

\* A claim that raised gives the job up: the row is as it was, or claimed.
LEMMA ClaimRaisesDials ==
    ASSUME DialInv, Exclusive, Shape', NEW w \in Workers, ClaimRaises(w)
    PROVE  DialInv'
<1>1. /\ worker[w].pc = "claim_contact" /\ worker[w].pc \in Carrying /\ Return(w)
      /\ UNCHANGED <<campaign, calls, queue, retries, parked, web>>
  BY DEF ClaimRaises, At, Carrying, Counting
<1>2. CountsInv(w) /\ Target(w) \in Contacts
  BY <1>1, Carries
<1>3. CASE UNCHANGED <<contact, aged>>
  <2>1. CountsKept
    BY <1>1, <1>3 DEF CountsKept
  <2>2. CountsInv(w)' /\ \A v \in Workers : v # w => worker'[v] = worker[v]
    BY <1>1, <2>1, GivesUp
  <2> QED BY <1>1, <1>3, <2>2, MovesDial
<1>4. CASE contact[Target(w)].status \in Claimable /\ SetStatus(Target(w), "dialing")
  <2>1. Even(Target(w))
    BY <1>2, <1>4 DEF DialInv
  <2>2. PICK st : st = "dialing"
    OBVIOUS
  <2>3. st \in NONTERMINAL_CONTACT \cup TerminalContact /\ st \notin Claimable
    BY <2>2 DEF NONTERMINAL_CONTACT, Claimable
  <2>4. CountsKept
    BY <1>1, <1>2, <1>4, <2>1, <2>2, <2>3, StatusCounts DEF DialInv
  <2>5. CountsInv(w)' /\ \A v \in Workers : v # w => worker'[v] = worker[v]
    BY <1>1, <2>4, GivesUp
  <2> QED BY <1>1, <1>2, <1>4, <2>1, <2>2, <2>3, <2>5, WritesStatus
<1> QED BY <1>3, <1>4 DEF ClaimRaises

\* The steps of a call after it was minted, up to the row that counts it.
LEMMA CallDials ==
    ASSUME DialInv, Shape', NEW w \in Workers,
           DialAccepted(w) \/ DialFailed(w) \/ FailCall(w) \/ MarkCallDialing(w)
    PROVE  DialInv'
<1>1. /\ UNCHANGED <<campaign, contact, aged, queue, retries, parked, web, env>>
      /\ worker[w].pc \in {"dial", "failed", "accepted"} /\ worker[w].pc \in Carrying
  BY DEF DialAccepted, DialFailed, FailCall, MarkCallDialing, At, Carrying, Counting, Calling
<1>2. /\ CountsInv(w) /\ Target(w) \in Contacts
      /\ worker[w].call \in DOMAIN calls[Target(w)]
  BY <1>1, Carries DEF CountsInv
<1>3. CallOf(w) \in Call
  BY <1>2 DEF CallOf, DialInv, Typed
<1>4. PICK row \in Call : SetCall(w, row)
  <2>1. CASE DialAccepted(w)
    BY <1>3, <2>1, CallSet, Words, Truth, Zenon DEF DialAccepted
  <2>2. CASE DialFailed(w)
    <3>1. PICK room \in FailedRoom : SetCall(w, [CallOf(w) EXCEPT !.room = room])
      BY <2>2 DEF DialFailed
    <3>2. room \in Room
      BY CampaignAssumption DEF Room
    <3>3. [CallOf(w) EXCEPT !.room = room] \in Call
      BY <1>3, <3>2, CallSet, Words, Truth, Zenon
    <3> QED BY <3>1, <3>3
  <2>3. CASE FailCall(w)
    <3>1. [CallOf(w) EXCEPT !.status = "failed"] \in Call
      BY <1>3, CallSet, Words, Truth, Zenon
    <3> QED BY <2>3, <3>1 DEF FailCall
  <2>4. CASE MarkCallDialing(w)
    <3>1. [CallOf(w) EXCEPT !.status = "dialing", !.swept = FALSE] \in Call
      BY <1>3, CallSet, Words, Truth, Zenon
    <3> QED BY <2>4, <3>1 DEF MarkCallDialing
  <2> QED BY <2>1, <2>2, <2>3, <2>4
<1>5. CountsKept /\ calls' \in [Contacts -> Seq(Call)]
  BY <1>1, <1>2, <1>4, CallCounts DEF DialInv
<1>6. PICK pc \in {"accepted", "failed", "terminal", "backoff", "mark_contact"} : Goto(w, pc)
  BY DEF DialAccepted, DialFailed, FailCall, MarkCallDialing
<1>7. CountsInv(w)' /\ \A v \in Workers : v # w => worker'[v] = worker[v]
  <2>1. worker[w].pc \in Counting /\ worker[w].pc \in Ahead /\ pc \in Carrying
    BY <1>1 DEF Carrying, Counting, Calling, Ahead
  <2>2. contact'[Target(w)].status \notin Claimable
    BY <1>1, <1>2 DEF CountsInv, Calling
  <2>3. pc \in {"accepted", "failed"} => worker[w].pc \in {"dial", "accepted", "failed"}
    BY <1>1
  <2> QED BY <1>1, <1>5, <1>6, <2>1, <2>2, <2>3, GoesOn
<1>8. Typed' /\ Claims'
  BY <1>1, <1>5 DEF DialInv, Typed, Claims
<1>9. (\A i \in DOMAIN queue' : Sound(queue'[i])) /\ \A j \in retries' : Sound(j)
  BY <1>1 DEF DialInv
<1> QED BY <1>1, <1>5, <1>7, <1>8, <1>9, QuietDials

\* A failed dial parks its job; a step that raises puts the contact back first.
LEMMA ParksDial ==
    ASSUME DialInv, Exclusive, Shape', NEW w \in Workers, Fair(w),
           Backoff(w) \/ Throw(w) \/ ParkJob(w)
    PROVE  DialInv'
<1>1. CASE Backoff(w)
  <2>1. /\ worker[w].pc = "backoff" /\ worker[w].pc \in Carrying
        /\ UNCHANGED <<campaign, contact, aged, calls, queue, web, env>>
        /\ Goto(w, "count_failure") /\ Schedule(worker[w].job)
    BY <1>1 DEF Backoff, At, Carrying, Counting, Calling
  <2>2. CountsKept /\ Sound(worker[w].job)
    BY <2>1, Carries DEF CountsKept
  <2>5. contact'[Target(w)].status \notin Claimable
    BY <2>1, Carries DEF CountsInv, Calling
  <2>3. CountsInv(w)' /\ \A v \in Workers : v # w => worker'[v] = worker[v]
    BY <2>1, <2>2, <2>5, GoesOn DEF Carrying, Counting, Calling, Ahead
  <2>4. retries' \subseteq Job /\ \A j \in retries' : Sound(j)
    BY <2>1, <2>2, ScheduleSound
  <2> QED BY <2>1, <2>3, <2>4, MovesDial
<1>2. CASE Throw(w)
  <2>1. /\ worker[w].pc = "mint" /\ worker[w].pc \in Carrying
        /\ UNCHANGED <<campaign, calls, queue, retries, parked, web>>
        /\ SetStatus(Target(w), "pending") /\ Goto(w, "park_job")
    BY <1>2 DEF Throw, Fair, Carrying, Counting, Calling
  <2>2. CountsInv(w) /\ Target(w) \in Contacts /\ Even(Target(w))
    BY <2>1, Carries DEF CountsInv
  <2>3. PICK st : st = "pending"
    OBVIOUS
  <2>4. st \in NONTERMINAL_CONTACT \cup TerminalContact
    BY <2>3 DEF NONTERMINAL_CONTACT
  <2>5. CountsKept
    BY <2>1, <2>2, <2>3, <2>4, StatusCounts DEF DialInv
  <2>6. CountsInv(w)' /\ \A v \in Workers : v # w => worker'[v] = worker[v]
    BY <2>1, <2>2, <2>5, GoesOn DEF Carrying, Counting, Calling, Ahead
  <2>7. \A v \in Workers : v # w => Target(v) # Target(w)
    BY <2>2 DEF Exclusive
  <2> QED BY <2>1, <2>2, <2>3, <2>4, <2>6, <2>7, WritesStatus
<1>3. CASE ParkJob(w)
  <2>1. /\ worker[w].pc = "park_job" /\ worker[w].pc \in Carrying
        /\ UNCHANGED <<campaign, contact, aged, calls, queue, web, env>>
        /\ Return(w) /\ Schedule(worker[w].job)
    BY <1>3 DEF ParkJob, At, Carrying
  <2>2. CountsKept /\ Sound(worker[w].job)
    BY <2>1, Carries DEF CountsKept
  <2>3. CountsInv(w)' /\ \A v \in Workers : v # w => worker'[v] = worker[v]
    BY <2>1, <2>2, GivesUp
  <2>4. retries' \subseteq Job /\ \A j \in retries' : Sound(j)
    BY <2>1, <2>2, ScheduleSound
  <2> QED BY <2>1, <2>3, <2>4, MovesDial
<1> QED BY <1>1, <1>2, <1>3

\* The steps that count: they concern the contact of one worker and no one else's.
LEMMA OwnerDials ==
    ASSUME DialInv, Exclusive, Shape', Typed', NEW w \in Workers, worker[w].pc \in Carrying,
           NEW c0, c0 = Target(w),
           UNCHANGED <<queue, retries, web>>,
           \A v \in Workers : v # w => worker'[v] = worker[v],
           \A c \in Contacts : c # c0 => contact'[c] = contact[c] /\ calls'[c] = calls[c],
           contact'[c0].attempts >= contact[c0].attempts,
           CountsInv(w)',
           Len(calls'[c0]) <= MaxAttempts, contact'[c0].status \in Claimable => Even(c0)'
    PROVE  DialInv'
<1>1. c0 \in Contacts /\ \A v \in Workers : v # w => Target(v) # c0
  BY Carries DEF Exclusive
<1>2. \A j : Sound(j) => Sound(j)'
  <2> SUFFICES ASSUME NEW j, Sound(j) PROVE Sound(j)'
    OBVIOUS
  <2>1. j \in Job /\ j.contact \in Contacts /\ j.attempt \in Nat
    BY DEF Sound, Job
  <2>2. contact[j.contact].attempts \in Nat /\ contact'[j.contact].attempts \in Nat
    BY <2>1 DEF DialInv, Typed, Row
  <2>3. contact'[j.contact].attempts >= contact[j.contact].attempts
    BY <2>1, <2>2
  <2> QED BY <2>1, <2>2, <2>3 DEF Sound, MaxOf
<1>3. (\A i \in DOMAIN queue' : Sound(queue[i])') /\ \A j \in retries' : Sound(j)'
  <2>1. ASSUME NEW i \in DOMAIN queue' PROVE Sound(queue[i])'
    <3>1. PICK j : j = queue[i]
      OBVIOUS
    <3>2. Sound(j)'
      BY <1>2, <3>1 DEF DialInv
    <3> QED BY <3>1, <3>2 DEF Sound, MaxOf
  <2> QED BY <1>2, <2>1 DEF DialInv
<1>4. ASSUME NEW v \in Workers, v # w PROVE CountsInv(v)'
  <2>1. CountsInv(v) /\ worker'[v] = worker[v] /\ Target(v)' = Target(v) /\ Target(v) # c0
    BY <1>1, <1>4 DEF DialInv, Target
  <2>2. worker[v].pc \in Carrying => Sound(worker[v].job) /\ Target(v) \in Contacts
    BY <2>1 DEF CountsInv, Sound, Job, Target
  <2>3. worker[v].pc \in Carrying => Sound(worker[v].job)'
    <3> SUFFICES ASSUME worker[v].pc \in Carrying PROVE Sound(worker[v].job)'
      OBVIOUS
    <3>1. PICK j : j = worker[v].job
      OBVIOUS
    <3>2. Sound(j)'
      BY <1>2, <2>2, <3>1
    <3> QED BY <2>1, <3>1, <3>2 DEF Sound, MaxOf
  <2>4. \A j \in worker'[v].todo : Sound(j)'
    BY <1>2, <2>1 DEF CountsInv
  <2>5. worker[v].pc = "requeue" => \A j \in worker'[v].rows : Sound(j)' /\ Even(j.contact)'
    <3> SUFFICES ASSUME worker[v].pc = "requeue", NEW j \in worker[v].rows
                 PROVE  Sound(j)' /\ Even(j.contact)'
      BY <2>1
    <3>1. Sound(j) /\ Even(j.contact) /\ j.contact \in Contacts
      BY <2>1 DEF CountsInv, Sound, Job
    <3>2. ~Busy(j.contact)
      BY DEF Exclusive
    <3>3. j.contact # c0
      BY <3>2 DEF Busy
    <3>4. Even(j.contact)'
      BY <3>1, <3>3 DEF Even
    <3> QED BY <1>2, <3>1, <3>4
  <2>6. worker[v].pc \in Carrying => contact'[Target(v)] = contact[Target(v)]
                                     /\ calls'[Target(v)] = calls[Target(v)]
    BY <2>1, <2>2
  <2>7. Counting \cup Ahead \cup {"park", "park_job"} \subseteq Carrying
    BY DEF Carrying, Counting, Calling, Ahead
  <2>8. {"mint", "defer", "dial", "accepted", "failed"} \subseteq Counting
    BY DEF Counting, Calling
  <2>9. worker[v].pc \in {"park", "park_job", "mint", "defer"} => Even(Target(v))'
    BY <2>1, <2>6, <2>7, <2>8 DEF CountsInv, Even
  <2>10. /\ worker[v].pc \in Counting =>
              /\ worker[v].attempts = contact'[Target(v)].attempts
              /\ worker[v].attempts < MaxOf(worker[v].job)
         /\ worker[v].pc \in Ahead => Len(calls'[Target(v)]) <= worker[v].attempts + 1
         /\ worker[v].pc \in {"dial", "accepted", "failed"} =>
              worker[v].call \in DOMAIN calls'[Target(v)]
         /\ worker[v].pc \in Calling => contact'[Target(v)].status \notin Claimable
    BY <2>1, <2>6, <2>7, <2>8 DEF CountsInv, Counting
  <2> QED
    BY <2>1, <2>3, <2>4, <2>5, <2>9, <2>10 DEF CountsInv, MaxOf
<1>5. ASSUME NEW c \in Contacts
      PROVE  Len(calls'[c]) <= MaxAttempts /\ (contact'[c].status \in Claimable => Even(c)')
  <2>1. CASE c = c0
    BY <2>1
  <2>2. CASE c # c0
    BY <2>2 DEF DialInv, Even
  <2> QED BY <2>1, <2>2
<1>6. Claims'
  BY DEF DialInv, Claims
<1>7. \A v \in Workers : CountsInv(v)'
  BY <1>4
<1> QED BY <1>3, <1>5, <1>6, <1>7 DEF DialInv

\* A call is minted where the row counts all earlier ones, and fewer than the maximum.
LEMMA MintDials ==
    ASSUME DialInv, Exclusive, Shape', NEW w \in Workers, Mint(w)
    PROVE  DialInv'
<1>1. /\ worker[w].pc = "mint" /\ worker[w].pc \in Carrying
      /\ UNCHANGED <<campaign, contact, aged, queue, retries, parked, web, env>>
      /\ calls' = [calls EXCEPT ![Target(w)] = Append(calls[Target(w)], NewCall)]
      /\ worker' = [worker EXCEPT ![w] =
                      [worker[w] EXCEPT !.pc = "dial", !.call = Len(calls[Target(w)]) + 1]]
  BY DEF Mint, At, Carrying, Counting, Calling
<1>2. PICK c0 : c0 = Target(w)
  OBVIOUS
<1>3. /\ CountsInv(w) /\ c0 \in Contacts /\ Sound(worker[w].job) /\ Even(c0)
      /\ worker[w].attempts = contact[c0].attempts /\ worker[w].attempts < MaxOf(worker[w].job)
      /\ worker[w].attempts \in Nat
  BY <1>1, <1>2, Carries DEF CountsInv, Counting, Calling
<1>4. PICK n : n = Len(calls[c0])
  OBVIOUS
<1>5. n \in Nat /\ n <= worker[w].attempts
  BY <1>3, <1>4 DEF DialInv, Typed, Even
<1>6. /\ Append(calls[c0], NewCall) \in Seq(Call) /\ Len(Append(calls[c0], NewCall)) = n + 1
  BY <1>3, <1>4, NewCallType, AppendProperties DEF DialInv, Typed
<1>7. /\ calls' \in [Contacts -> Seq(Call)] /\ Len(calls'[c0]) = n + 1
      /\ \A c \in Contacts : c # c0 => calls'[c] = calls[c]
  BY <1>1, <1>2, <1>3, <1>6 DEF DialInv, Typed
<1>8. DOMAIN calls'[c0] = 1..(n + 1)
  BY <1>3, <1>7
<1> DEFINE r == [worker[w] EXCEPT !.pc = "dial", !.call = n + 1]
<1>9. /\ r.pc = "dial" /\ r.verdict = worker[w].verdict /\ r.job = worker[w].job
      /\ r.todo = worker[w].todo /\ r.back = worker[w].back
      /\ r.attempts = worker[w].attempts /\ r.call = n + 1
  BY DEF DialInv, Shape, Local, Fields
<1>10. worker' = [worker EXCEPT ![w] = r]
  BY <1>1, <1>2, <1>4
<1> HIDE DEF r
<1>11. worker'[w] = r /\ \A v \in Workers : v # w => worker'[v] = worker[v]
  BY <1>10 DEF DialInv, Shape
<1>12. Sound(worker[w].job)' /\ Target(w)' = c0
  BY <1>1, <1>2, <1>3, <1>9, <1>11 DEF Sound, MaxOf, Target
<1>13. \A j \in worker'[w].todo : Sound(j)'
  BY <1>1, <1>3, <1>9, <1>11 DEF CountsInv, Sound, MaxOf
<1>14. n + 1 \in 1..(n + 1) /\ n + 1 <= worker[w].attempts + 1
  BY <1>3, <1>5
<1>15. CountsInv(w)'
  BY <1>1, <1>3, <1>7, <1>8, <1>9, <1>11, <1>12, <1>13, <1>14
  DEF CountsInv, Carrying, Counting, Calling, Ahead, MaxOf
<1>16. n + 1 <= MaxAttempts
  <2>1. MaxOf(worker[w].job) <= MaxAttempts /\ MaxOf(worker[w].job) \in Nat
    BY <1>3, CampaignAssumption DEF Sound, MaxOf, Job
  <2> QED BY <1>3, <1>5, <2>1, CampaignAssumption
<1>17. contact'[c0].status \in Claimable => Even(c0)'
  BY <1>1, <1>2, <1>3 DEF CountsInv, Calling
<1>18. Typed' /\ contact'[c0].attempts >= contact[c0].attempts
  BY <1>1, <1>3, <1>7 DEF DialInv, Typed, Row
<1> QED
  BY <1>1, <1>2, <1>7, <1>11, <1>15, <1>16, <1>17, <1>18, OwnerDials

\* A failed dial is counted in the row; an accepted one is, once it rings.
LEMMA CountsDial ==
    ASSUME DialInv, Exclusive, Shape', NEW w \in Workers,
           CountFailure(w) \/ MarkContactDialing(w)
    PROVE  DialInv'
<1>1. /\ worker[w].pc \in {"count_failure", "mark_contact"} /\ worker[w].pc \in Carrying
      /\ UNCHANGED <<campaign, calls, queue, retries, parked, web, env>> /\ Return(w)
  BY DEF CountFailure, MarkContactDialing, At, Carrying, Counting, Calling
<1>2. PICK c0 : c0 = Target(w)
  OBVIOUS
<1>3. /\ CountsInv(w) /\ c0 \in Contacts
      /\ worker[w].attempts = contact[c0].attempts /\ worker[w].attempts \in Nat
      /\ Len(calls[c0]) <= worker[w].attempts + 1
  BY <1>1, <1>2, Carries DEF CountsInv, Counting, Calling, Ahead
<1>4. PICK n \in Nat : n = worker[w].attempts + 1
  BY <1>3
<1>5. PICK st \in {"pending", "dialing"} :
         SetContact(c0, [status |-> st, attempts |-> n])
  BY <1>2, <1>4 DEF CountFailure, MarkContactDialing, Failures
<1>6. [status |-> st, attempts |-> n] \in Row
  BY DEF Row, NONTERMINAL_CONTACT
<1>7. /\ contact' \in [Contacts -> Row] /\ contact'[c0].attempts = n
      /\ \A d \in Contacts : d # c0 => contact'[d] = contact[d]
  BY <1>3, <1>5, <1>6, SetContactDoes DEF DialInv
<1>8. Typed' /\ contact'[c0].attempts >= contact[c0].attempts
  BY <1>1, <1>3, <1>4, <1>7 DEF DialInv, Typed
<1>9. Even(c0)' /\ Len(calls'[c0]) <= MaxAttempts
  BY <1>1, <1>3, <1>4, <1>7 DEF Even, DialInv
<1>10. /\ worker'[w].pc = worker[w].back /\ worker'[w].attempts = 0
       /\ worker'[w].verdict = "failed" /\ worker'[w].back = "pop"
       /\ worker'[w].job = NoJob /\ worker'[w].todo = worker[w].todo
       /\ \A v \in Workers : v # w => worker'[v] = worker[v]
  BY <1>1, ReturnDoes DEF DialInv, Others
<1>11. \A j : Sound(j) => Sound(j)'
  <2> SUFFICES ASSUME NEW j, Sound(j) PROVE Sound(j)'
    OBVIOUS
  <2>1. j \in Job /\ j.contact \in Contacts /\ j.attempt \in Nat
    BY DEF Sound, Job
  <2>2. contact[j.contact].attempts \in Nat /\ contact'[j.contact].attempts \in Nat
    BY <1>7, <2>1 DEF DialInv, Typed, Row
  <2>3. contact'[j.contact].attempts >= contact[j.contact].attempts
    BY <1>7, <1>8, <2>1, <2>2
  <2> QED BY <2>1, <2>2, <2>3 DEF Sound, MaxOf
<1>12. CountsInv(w)'
  <2>1. worker[w].back \in {"pop", "claim", "retries"}
    BY <1>3 DEF CountsInv
  <2>2. \A j \in worker'[w].todo : Sound(j)'
    BY <1>3, <1>10, <1>11 DEF CountsInv
  <2>3. \A pc \in {"pop", "claim", "retries"} : /\ pc \notin Carrying /\ pc \in Looping
                                                /\ pc \notin {"requeue", "heal", "refill"}
    BY DEF Carrying, Counting, Calling, Looping
  <2>4. \A pc \in Counting \cup Ahead \cup Calling \cup {"park", "park_job"} : pc \in Carrying
    BY DEF Carrying, Counting, Calling, Ahead
  <2>5. {"mint", "defer", "dial", "accepted", "failed"} \subseteq Counting
    BY DEF Counting, Calling
  <2> QED BY <1>10, <2>1, <2>2, <2>3, <2>4, <2>5 DEF CountsInv
<1> QED
  BY <1>1, <1>2, <1>7, <1>8, <1>9, <1>10, <1>12, OwnerDials

\* Processing a job.
LEMMA ProcessDials ==
    ASSUME DialInv, Exclusive, Shape', NEW w \in Workers, Fair(w), ProcessJob(w)
    PROVE  DialInv'
BY PreflightDials, SlotsDial, EndsDial, ClaimDials, ClaimRaisesDials, MintDials, CallDials, ParksDial,
   CountsDial
   DEF ProcessJob

-----------------------------------------------------------------------------
\* A worker that takes a sound job up.
LEMMA BeginsDial ==
    ASSUME DialInv, CountsKept, NEW w \in Workers, NEW job, NEW back \in {"claim", "retries"},
           NEW todo, Begin(w, job, back, todo), Sound(job), \A j \in todo : Sound(j)
    PROVE  CountsInv(w)' /\ \A v \in Workers : v # w => worker'[v] = worker[v]
<1> DEFINE r == [Idle EXCEPT !.pc = "preflight", !.back = back, !.job = job, !.todo = todo]
<1>1. /\ r.pc = "preflight" /\ r.back = back /\ r.job = job /\ r.todo = todo
      /\ r.attempts = 0 /\ r.verdict = "failed"
  BY DEF Idle
<1>2. worker' = [worker EXCEPT ![w] = r]
  BY DEF Begin
<1> HIDE DEF r
<1>3. worker'[w] = r /\ \A v \in Workers : v # w => worker'[v] = worker[v]
  BY <1>2 DEF DialInv, Shape
<1>4. \A j : Sound(j) => Sound(j)'
  BY SoundStays
<1>5. Sound(worker[w].job)'
  BY <1>1, <1>3, <1>4 DEF Sound, MaxOf
<1>6. \A j \in worker'[w].todo : Sound(j)'
  BY <1>1, <1>3, <1>4
<1>7. "preflight" \in Carrying /\ "preflight" \notin Counting /\ "preflight" \notin Ahead
      /\ "preflight" \notin Calling
  BY DEF Carrying, Counting, Calling, Ahead
<1> QED BY <1>1, <1>3, <1>5, <1>6, <1>7 DEF CountsInv

\* The main loop takes up sound jobs only, from the list or from the retry set.
LEMMA LoopDials ==
    ASSUME DialInv, Shape', NEW w \in Workers, MainLoop(w)
    PROVE  DialInv'
<1>0. /\ UNCHANGED <<campaign, contact, aged, calls, web, env>>
      /\ worker[w].pc \in {"pop", "claim", "free", "retries", "sweep"}
      /\ worker[w].pc \in Looping /\ worker[w].pc \notin Carrying
  BY DEF MainLoop, Pop, ClaimDue, FreeKeys, NoneDue, NextRetry, SkipSweep, At, Looping,
         Carrying, Counting, Calling
<1>1. CountsKept /\ CountsInv(w)
  BY <1>0 DEF CountsKept, DialInv
<1>2. ASSUME NEW pc \in {"claim", "retries", "sweep", "pop"}, Goto(w, pc),
             UNCHANGED <<queue, retries>>
      PROVE  DialInv'
  <2>1. pc \in Looping \ {"requeue", "heal", "refill"}
    BY <1>2 DEF Looping
  <2>2. CountsInv(w)' /\ \A v \in Workers : v # w => worker'[v] = worker[v]
    BY <1>0, <1>1, <1>2, <2>1, LoopsOn
  <2> QED BY <1>0, <1>2, <2>2, MovesDial
<1>3. CASE Pop(w)
  <2>1. CASE queue = <<>>
    BY <1>2, <1>3, <2>1 DEF Pop
  <2>2. CASE queue # <<>>
    <3>1. queue \in Seq(Job) /\ Len(queue) \in Nat /\ Len(queue) > 0
      BY <2>2, EmptySeq, LenProperties DEF DialInv, Typed
    <3> DEFINE n == Len(queue)
    <3>2. PICK job : job = queue[n]
      OBVIOUS
    <3>3. n \in DOMAIN queue /\ Sound(job)
      <4>1. n \in DOMAIN queue
        BY <3>1
      <4> QED BY <3>2, <4>1 DEF DialInv
    <3>4. /\ queue' \in Seq(Job) /\ Len(queue') = n - 1
          /\ \A i \in 1..(n - 1) : queue'[i] = queue[i]
      <4>1. queue' = SubSeq(queue, 1, n - 1)
        BY <1>3, <2>2 DEF Pop, Front
      <4>2. \A i \in 1..(n - 1) : queue[i] \in Job
        BY <3>1
      <4>3. 1 \in Int /\ n - 1 \in Int
        BY <3>1
      <4> HIDE DEF n
      <4>4. /\ SubSeq(queue, 1, n - 1) \in Seq(Job)
            /\ Len(SubSeq(queue, 1, n - 1)) = IF 1 <= n - 1 THEN (n - 1) - 1 + 1 ELSE 0
            /\ \A i \in 1..((n - 1) - 1 + 1) : SubSeq(queue, 1, n - 1)[i] = queue[1 + i - 1]
        BY <4>2, <4>3, SubSeqProperties
      <4>5. n \in Nat /\ n > 0
        BY <3>1 DEF n
      <4> QED BY <4>1, <4>4, <4>5
    <3>5. Begin(w, job, "claim", {})
      BY <1>3, <2>2, <3>2 DEF Pop, Last
    <3>6. DOMAIN queue = 1..n /\ DOMAIN queue' = 1..(n - 1)
      BY <3>1, <3>4
    <3>7. \A i \in DOMAIN queue' : Sound(queue'[i])
      BY <3>1, <3>4, <3>6 DEF DialInv
    <3>8. Typed' /\ Claims' /\ \A j \in retries' : Sound(j)
      BY <1>0, <1>3, <3>4 DEF Pop, DialInv, Typed, Claims
    <3>9. CountsInv(w)' /\ \A v \in Workers : v # w => worker'[v] = worker[v]
      <4>1. \A j \in {} : Sound(j)
        OBVIOUS
      <4> QED BY <1>1, <3>3, <3>5, <4>1, BeginsDial
    <3> HIDE DEF n
    <3> QED BY <1>0, <1>1, <3>7, <3>8, <3>9, QuietDials
  <2> QED BY <2>1, <2>2
<1>4. CASE ClaimDue(w)
  <2>1. PICK due : /\ due \subseteq retries /\ retries' = retries \ due
                   /\ worker' = [worker EXCEPT ![w] =
                                   [worker[w] EXCEPT !.pc = "free", !.todo = due]]
    BY <1>4 DEF ClaimDue
  <2> DEFINE r == [worker[w] EXCEPT !.pc = "free", !.todo = due]
  <2>2. /\ r.pc = "free" /\ r.back = worker[w].back /\ r.job = worker[w].job
        /\ r.todo = due /\ r.attempts = worker[w].attempts /\ r.verdict = worker[w].verdict
    BY DEF DialInv, Shape, Local, Fields
  <2>3. worker' = [worker EXCEPT ![w] = r]
    BY <2>1
  <2> HIDE DEF r
  <2>4. worker'[w] = r /\ \A v \in Workers : v # w => worker'[v] = worker[v]
    BY <2>3 DEF DialInv, Shape
  <2>5. \A j \in worker'[w].todo : Sound(j)'
    <3>1. \A j \in due : Sound(j)
      BY <2>1 DEF DialInv
    <3> QED BY <1>1, <2>2, <2>4, <3>1, SoundStays
  <2>6. "free" \in Looping /\ "free" \notin Carrying /\ "free" \notin Counting
        /\ "free" \notin Ahead /\ "free" \notin Calling
    BY DEF Looping, Carrying, Counting, Calling, Ahead
  <2>7. CountsInv(w)'
    BY <1>0, <1>1, <2>2, <2>4, <2>5, <2>6 DEF CountsInv
  <2>8. retries' \subseteq Job /\ \A j \in retries' : Sound(j)
    BY <2>1 DEF DialInv, Typed
  <2>9. UNCHANGED queue
    BY <1>4 DEF ClaimDue
  <2> QED BY <1>0, <2>4, <2>7, <2>8, <2>9, MovesDial
<1>5. CASE FreeKeys(w) \/ NoneDue(w) \/ SkipSweep(w)
  BY <1>2, <1>5 DEF FreeKeys, NoneDue, SkipSweep
<1>6. CASE NextRetry(w)
  <2>1. CASE worker[w].todo = {}
    BY <1>2, <1>6, <2>1 DEF NextRetry
  <2>2. CASE worker[w].todo # {}
    <3>1. PICK job \in worker[w].todo : Begin(w, job, "retries", worker[w].todo \ {job})
      BY <1>6, <2>2 DEF NextRetry
    <3>2. Sound(job) /\ \A j \in worker[w].todo \ {job} : Sound(j)
      BY <1>1 DEF CountsInv
    <3>3. CountsInv(w)' /\ \A v \in Workers : v # w => worker'[v] = worker[v]
      BY <1>1, <3>1, <3>2, BeginsDial
    <3>4. UNCHANGED <<queue, retries>>
      BY <1>6 DEF NextRetry
    <3> QED BY <1>0, <3>3, <3>4, MovesDial
  <2> QED BY <2>1, <2>2
<1> QED BY <1>3, <1>4, <1>5, <1>6 DEF MainLoop

-----------------------------------------------------------------------------
\* The jobs of a batch join those that wait, and nothing else does.
LEMMA PushSound ==
    ASSUME DialInv, NEW jobs \in SUBSET Job, IsFiniteSet(jobs), Push(jobs),
           \A j \in jobs : Sound(j)
    PROVE  queue' \in Seq(Job) /\ \A i \in DOMAIN queue' : Sound(queue'[i])
<1>1. PICK s : s = SetToSeq(jobs)
  OBVIOUS
<1>2. s \in Seq(Job) /\ \A i \in DOMAIN s : s[i] \in jobs
  BY <1>1, SetListed
<1>3. queue \in Seq(Job) /\ queue' = queue \o s
  BY <1>1 DEF DialInv, Typed, Push
<1>4. PICK m \in Nat, n \in Nat : m = Len(queue) /\ n = Len(s)
  BY <1>2, <1>3
<1>5. DOMAIN queue = 1..m /\ DOMAIN s = 1..n
  BY <1>2, <1>3, <1>4
<1>6. /\ queue' \in Seq(Job) /\ Len(queue') = m + n
      /\ \A i \in 1..(m + n) : queue'[i] = IF i <= m THEN queue[i] ELSE s[i - m]
  BY <1>2, <1>3, <1>4, ConcatProperties
<1>7. DOMAIN queue' = 1..(m + n)
  BY <1>6
<1>8. ASSUME NEW i \in 1..(m + n) PROVE Sound(queue'[i])
  <2>1. CASE i <= m
    <3>1. i \in DOMAIN queue /\ queue'[i] = queue[i]
      BY <1>5, <1>6, <2>1
    <3> QED BY <3>1 DEF DialInv
  <2>2. CASE ~(i <= m)
    <3>1. i - m \in DOMAIN s /\ queue'[i] = s[i - m]
      BY <1>5, <1>6, <2>2
    <3> QED BY <1>2, <3>1
  <2> QED BY <2>1, <2>2
<1> QED BY <1>6, <1>7, <1>8

\* The initial jobs of a page are sound: they allow what the campaign does, and count what the
\* rows do, or nothing.
LEMMA BatchSound ==
    ASSUME DialInv, NEW page \in SUBSET Contacts, NEW jobs,
           \/ jobs = {InitialJob(c, contact[c].attempts) : c \in page}
           \/ jobs = {InitialJob(c, 0) : c \in page}
    PROVE  jobs \in SUBSET Job /\ IsFiniteSet(jobs) /\ \A j \in jobs : Sound(j)
<1>1. \A c \in page : contact[c].attempts \in Nat
  BY DEF DialInv, Typed, Row
<1>2. MaxAttempts \in Nat \ {0} /\ NoMax = 0
  BY CampaignAssumption DEF NoMax
<1>3. \A c \in page : \A n \in Nat : n <= contact[c].attempts =>
         InitialJob(c, n) \in Job /\ Sound(InitialJob(c, n))
  BY <1>1, <1>2 DEF InitialJob, Job, Sound, MaxOf
<1>4. IsFiniteSet(page)
  BY CampaignAssumption, FS_Subset
<1>5. CASE jobs = {InitialJob(c, contact[c].attempts) : c \in page}
  <2> DEFINE f == [c \in page |-> InitialJob(c, contact[c].attempts)]
  <2>1. f \in Surjection(page, jobs)
    BY <1>5 DEF Surjection
  <2> HIDE DEF f
  <2>2. IsFiniteSet(jobs)
    BY <1>4, <2>1, FS_Surjection
  <2> QED BY <1>1, <1>3, <1>5, <2>2
<1>6. CASE jobs = {InitialJob(c, 0) : c \in page}
  <2> DEFINE f == [c \in page |-> InitialJob(c, 0)]
  <2>1. f \in Surjection(page, jobs)
    BY <1>6 DEF Surjection
  <2> HIDE DEF f
  <2>2. IsFiniteSet(jobs)
    BY <1>4, <2>1, FS_Surjection
  <2>3. \A c \in page : 0 <= contact[c].attempts
    BY <1>1
  <2> QED BY <1>3, <1>6, <2>2, <2>3
<1> QED BY <1>5, <1>6

\* A batch that writes statuses only, and reopens nothing.
LEMMA BatchDials ==
    ASSUME DialInv, Shape', Claims', UNCHANGED <<calls, retries>>,
           \A c \in Contacts : \E st \in NONTERMINAL_CONTACT \cup TerminalContact :
              /\ contact'[c] = [contact[c] EXCEPT !.status = st]
              /\ st \in Claimable => contact[c].status \in Claimable,
           DOMAIN contact' = Contacts, contact' = [c \in Contacts |-> contact'[c]],
           queue' \in Seq(Job), \A i \in DOMAIN queue' : Sound(queue'[i]),
           \A v \in Workers : worker'[v] = worker[v] \/ CountsInv(v)'
    PROVE  DialInv'
<1>1. \A c \in Contacts : /\ contact'[c] \in Row /\ contact'[c].attempts = contact[c].attempts
                          /\ contact'[c].status \in Claimable => contact[c].status \in Claimable
  <2> SUFFICES ASSUME NEW c \in Contacts
               PROVE  /\ contact'[c] \in Row /\ contact'[c].attempts = contact[c].attempts
                      /\ contact'[c].status \in Claimable => contact[c].status \in Claimable
    OBVIOUS
  <2>1. contact[c] \in Row
    BY DEF DialInv, Typed
  <2>2. PICK st \in NONTERMINAL_CONTACT \cup TerminalContact :
           /\ contact'[c] = [contact[c] EXCEPT !.status = st]
           /\ st \in Claimable => contact[c].status \in Claimable
    OBVIOUS
  <2> QED BY <2>1, <2>2 DEF Row
<1>2. Typed' /\ CountsKept
  BY <1>1 DEF DialInv, Typed, CountsKept
<1>3. \A j \in retries' : Sound(j)
  BY DEF DialInv
<1> QED BY <1>1, <1>2, <1>3, QuietDials

\* A row whose status is written back is the same row.
LEMMA StatusKept ==
    ASSUME NEW row \in Row
    PROVE  \E st \in NONTERMINAL_CONTACT \cup TerminalContact :
              row = [row EXCEPT !.status = st] /\ st = row.status
<1>1. /\ row = [row EXCEPT !.status = row.status]
      /\ row.status \in NONTERMINAL_CONTACT \cup TerminalContact
  BY DEF Row
<1> QED BY <1>1

\* The start request claims, starts, queues or takes back; it makes no call.
LEMMA StartDials ==
    ASSUME DialInv, Shape', Start
    PROVE  DialInv'
<1>0. UNCHANGED <<aged, calls, retries, parked, worker>>
  BY DEF Start, StartClaim, StartRunning, StartEnqueue, StartRollback
<1>1. \A i \in DOMAIN queue : Sound(queue[i])
  BY DEF DialInv
<1>2. CASE StartClaim
  <2>1. PICK page \in SUBSET Contacts :
           /\ \A c \in page : contact[c].status = "pending"
           /\ contact' = [c \in Contacts |->
                            IF c \notin page THEN contact[c]
                            ELSE [contact[c] EXCEPT !.status =
                                    IF c \in Barred THEN "dnc" ELSE "queued"]]
           /\ web' = [pc |-> "claimed", claimed |-> page \ Barred]
    BY <1>2 DEF StartClaim, Batches
  <2>2. UNCHANGED queue
    BY <1>2 DEF StartClaim
  <2>3. Claims'
    BY <2>1 DEF Claims
  <2>4. \A c \in Contacts : \E st \in NONTERMINAL_CONTACT \cup TerminalContact :
           /\ contact'[c] = [contact[c] EXCEPT !.status = st]
           /\ st \in Claimable => contact[c].status \in Claimable
    <3> SUFFICES ASSUME NEW c \in Contacts
                 PROVE  \E st \in NONTERMINAL_CONTACT \cup TerminalContact :
                           /\ contact'[c] = [contact[c] EXCEPT !.status = st]
                           /\ st \in Claimable => contact[c].status \in Claimable
      OBVIOUS
    <3>1. contact[c] \in Row
      BY DEF DialInv, Typed
    <3>2. CASE c \notin page
      BY <2>1, <3>1, <3>2, StatusKept
    <3>3. CASE c \in page
      <4>1. PICK st \in {"dnc", "queued"} : contact'[c] = [contact[c] EXCEPT !.status = st]
        BY <2>1, <3>3
      <4>2. st \in NONTERMINAL_CONTACT \cup TerminalContact /\ contact[c].status \in Claimable
        BY <2>1, <3>3 DEF NONTERMINAL_CONTACT, TerminalContact, Claimable
      <4> QED BY <4>1, <4>2
    <3> QED BY <3>2, <3>3
  <2>5. DOMAIN contact' = Contacts /\ contact' = [c \in Contacts |-> contact'[c]]
    BY <2>1
  <2> QED BY <1>0, <1>1, <2>2, <2>3, <2>4, <2>5, BatchDials DEF DialInv, Typed
<1>3. CASE StartRunning
  <2>1. /\ UNCHANGED <<contact, queue>> /\ web' = [web EXCEPT !.pc = "enqueue"]
    BY <1>3 DEF StartRunning
  <2>2. Claims' /\ Typed' /\ CountsKept
    BY <1>0, <2>1 DEF DialInv, Claims, Typed, CountsKept
  <2>3. (\A i \in DOMAIN queue' : Sound(queue'[i])) /\ \A j \in retries' : Sound(j)
    BY <1>0, <2>1 DEF DialInv
  <2> QED BY <1>0, <2>1, <2>2, <2>3, QuietDials
<1>4. CASE StartEnqueue
  <2>1. PICK jobs : jobs = {InitialJob(c, contact[c].attempts) : c \in web.claimed}
    OBVIOUS
  <2>2. Push(jobs) /\ UNCHANGED contact /\ web' = [pc |-> "idle", claimed |-> {}]
    BY <1>4, <2>1 DEF StartEnqueue
  <2>3. jobs \in SUBSET Job /\ IsFiniteSet(jobs) /\ \A j \in jobs : Sound(j)
    BY <2>1, BatchSound DEF DialInv, Claims
  <2>4. queue' \in Seq(Job) /\ \A i \in DOMAIN queue' : Sound(queue'[i])
    BY <2>2, <2>3, PushSound
  <2>5. Claims' /\ Typed' /\ CountsKept
    BY <1>0, <2>2, <2>4 DEF DialInv, Claims, Typed, CountsKept
  <2>6. \A j \in retries' : Sound(j)
    BY <1>0 DEF DialInv
  <2> QED BY <1>0, <2>2, <2>4, <2>5, <2>6, QuietDials
<1>5. CASE StartRollback
  <2>1. /\ contact' = [c \in Contacts |->
                         IF c \in web.claimed /\ contact[c].status = "queued"
                         THEN [contact[c] EXCEPT !.status = "pending"]
                         ELSE contact[c]]
        /\ UNCHANGED queue /\ web' = [pc |-> "idle", claimed |-> {}]
    BY <1>5 DEF StartRollback
  <2>2. Claims'
    BY <2>1 DEF Claims
  <2>3. \A c \in Contacts : \E st \in NONTERMINAL_CONTACT \cup TerminalContact :
           /\ contact'[c] = [contact[c] EXCEPT !.status = st]
           /\ st \in Claimable => contact[c].status \in Claimable
    <3> SUFFICES ASSUME NEW c \in Contacts
                 PROVE  \E st \in NONTERMINAL_CONTACT \cup TerminalContact :
                           /\ contact'[c] = [contact[c] EXCEPT !.status = st]
                           /\ st \in Claimable => contact[c].status \in Claimable
      OBVIOUS
    <3>1. contact[c] \in Row
      BY DEF DialInv, Typed
    <3>2. CASE contact'[c] = contact[c]
      BY <3>1, <3>2, StatusKept
    <3>3. CASE contact'[c] # contact[c]
      <4>1. /\ contact'[c] = [contact[c] EXCEPT !.status = "pending"]
            /\ contact[c].status = "queued"
        BY <2>1, <3>3
      <4>2. "pending" \in NONTERMINAL_CONTACT \cup TerminalContact /\ "queued" \in Claimable
        BY DEF NONTERMINAL_CONTACT, Claimable
      <4> QED BY <4>1, <4>2
    <3> QED BY <3>2, <3>3
  <2>4. DOMAIN contact' = Contacts /\ contact' = [c \in Contacts |-> contact'[c]]
    BY <2>1
  <2> QED BY <1>0, <1>1, <2>1, <2>2, <2>3, <2>4, BatchDials DEF DialInv, Typed
<1> QED BY <1>2, <1>3, <1>4, <1>5 DEF Start

\* What a page of queued rows becomes: jobs without a maximum, whose attempts are counted.
LEMMA SweepDials ==
    ASSUME DialInv, Exclusive, Shape', NEW w \in Workers, SweepQueued(w)
    PROVE  DialInv'
<1>1. PICK rows : rows = {[contact |-> c, attempt |-> contact[c].attempts, max |-> NoMax] :
                            c \in Stale("queued")}
  OBVIOUS
<1>2. /\ UNCHANGED <<campaign, contact, aged, calls, queue, retries, parked, web, env>>
      /\ worker[w].pc = "sweep" /\ worker[w].pc \in Looping /\ worker[w].pc \notin Carrying
  BY DEF SweepQueued, At, Looping, Carrying, Counting, Calling
<1>3. CountsInv(w) /\ CountsKept
  BY <1>2 DEF DialInv, CountsKept
<1>4. ASSUME NEW j \in rows PROVE Sound(j) /\ Even(j.contact) /\ j.contact \in Contacts
  <2>1. PICK c \in Stale("queued") :
           j = [contact |-> c, attempt |-> contact[c].attempts, max |-> NoMax]
    BY <1>1
  <2>2. c \in Contacts /\ contact[c].status = "queued" /\ contact[c].attempts \in Nat
    BY DEF Stale, DialInv, Typed, Row
  <2>3. j \in Job
    BY <2>1, <2>2 DEF Job, NoMax
  <2>4. MaxOf(j) <= MaxAttempts
    BY <2>1 DEF MaxOf, Exclusive
  <2>5. Even(c)
    BY <2>2 DEF DialInv, Claimable
  <2> QED BY <2>1, <2>2, <2>3, <2>4, <2>5 DEF Sound
<1> DEFINE r == [worker[w] EXCEPT !.pc = "requeue", !.rows = rows]
<1>5. /\ r.pc = "requeue" /\ r.back = worker[w].back /\ r.job = worker[w].job /\ r.rows = rows
      /\ r.todo = worker[w].todo /\ r.attempts = worker[w].attempts
      /\ r.verdict = worker[w].verdict
  BY DEF DialInv, Shape, Local, Fields
<1>6. worker' = [worker EXCEPT ![w] = r]
  BY <1>1 DEF SweepQueued
<1> HIDE DEF r
<1>7. worker'[w] = r /\ \A v \in Workers : v # w => worker'[v] = worker[v]
  BY <1>6 DEF DialInv, Shape
<1>8. \A j \in worker'[w].todo : Sound(j)'
  BY <1>3, <1>5, <1>7, SoundStays DEF CountsInv
<1>9. \A j \in worker'[w].rows : Sound(j)' /\ Even(j.contact)'
  <2>1. ASSUME NEW j \in rows PROVE Sound(j)' /\ Even(j.contact)'
    <3>1. Sound(j)'
      BY <1>3, <1>4, SoundStays
    <3>2. PICK c \in Contacts : c = j.contact
      BY <1>4
    <3>3. Even(c)'
      BY <1>3, <1>4, <3>2, SoundStays
    <3> QED BY <3>1, <3>2, <3>3
  <2> QED BY <1>5, <1>7, <2>1
<1>10. "requeue" \in Looping /\ "requeue" \notin Carrying /\ "requeue" \notin Counting
       /\ "requeue" \notin Ahead /\ "requeue" \notin Calling
  BY DEF Looping, Carrying, Counting, Calling, Ahead
<1>11. CountsInv(w)'
  BY <1>2, <1>3, <1>5, <1>7, <1>8, <1>9, <1>10 DEF CountsInv
<1> QED BY <1>2, <1>7, <1>11, MovesDial

\* Queueing a row again: its job is parked, and every call of its contact is counted.
LEMMA RequeueDials ==
    ASSUME DialInv, Exclusive, Shape', NEW w \in Workers, Requeue(w)
    PROVE  DialInv'
<1>1. PICK job \in worker[w].rows :
         /\ Schedule(job) /\ SetStatus(job.contact, "queued")
         /\ worker' = [worker EXCEPT ![w].rows = @ \ {job}]
  BY DEF Requeue
<1>2. /\ UNCHANGED <<campaign, calls, queue, web>>
      /\ worker[w].pc = "requeue" /\ worker[w].pc \in Looping /\ worker[w].pc \notin Carrying
  BY DEF Requeue, At, Looping, Carrying, Counting, Calling
<1>3. PICK c0 : c0 = job.contact
  OBVIOUS
<1>4. CountsInv(w) /\ Sound(job) /\ Even(c0) /\ c0 \in Contacts
  BY <1>1, <1>2, <1>3 DEF DialInv, CountsInv, Sound, Job
<1>5. \A v \in Workers : Target(v) # c0
  BY <1>1, <1>2, <1>3 DEF Exclusive, Busy
<1>6. PICK st : st = "queued"
  OBVIOUS
<1>7. st \in NONTERMINAL_CONTACT \cup TerminalContact /\ SetStatus(c0, st)
  BY <1>1, <1>3, <1>6 DEF NONTERMINAL_CONTACT
<1>8. CountsKept
  BY <1>2, <1>4, <1>7, StatusCounts DEF DialInv
<1> DEFINE r == [worker[w] EXCEPT !.rows = worker[w].rows \ {job}]
<1>9. /\ r.pc = worker[w].pc /\ r.back = worker[w].back /\ r.job = worker[w].job
      /\ r.rows = worker[w].rows \ {job} /\ r.todo = worker[w].todo
      /\ r.attempts = worker[w].attempts /\ r.verdict = worker[w].verdict
  BY DEF DialInv, Shape, Local, Fields
<1>10. worker' = [worker EXCEPT ![w] = r]
  BY <1>1
<1> HIDE DEF r
<1>11. worker'[w] = r /\ \A v \in Workers : v # w => worker'[v] = worker[v]
  BY <1>10 DEF DialInv, Shape
<1>12. \A j \in worker'[w].todo : Sound(j)'
  BY <1>4, <1>8, <1>9, <1>11, SoundStays DEF CountsInv
<1>13. \A j \in worker'[w].rows : Sound(j)' /\ Even(j.contact)'
  <2>1. ASSUME NEW j \in worker[w].rows PROVE Sound(j)' /\ Even(j.contact)'
    <3>1. Sound(j) /\ Even(j.contact) /\ j.contact \in Contacts
      BY <1>2, <1>4 DEF CountsInv, Sound, Job
    <3>2. PICK c \in Contacts : c = j.contact
      BY <3>1
    <3>3. Even(c)' /\ Sound(j)'
      BY <1>8, <3>1, <3>2, SoundStays
    <3> QED BY <3>2, <3>3
  <2> QED BY <1>9, <1>11, <2>1
<1>14. "requeue" \in Looping /\ "requeue" \notin Carrying /\ "requeue" \notin Counting
       /\ "requeue" \notin Ahead /\ "requeue" \notin Calling
  BY DEF Looping, Carrying, Counting, Calling, Ahead
<1>15. CountsInv(w)'
  BY <1>2, <1>4, <1>9, <1>11, <1>12, <1>13, <1>14 DEF CountsInv
<1>16. retries' \subseteq Job /\ \A j \in retries' : Sound(j)
  BY <1>1, <1>4, ScheduleSound
<1> QED BY <1>2, <1>4, <1>5, <1>7, <1>11, <1>15, <1>16, WritesStatus

\* Whoever ends a contact writes its status only.
LEMMA EndCounts ==
    ASSUME Typed, NEW c \in Contacts,
           UNCHANGED contact \/ \E st : SetStatus(c, st)
    PROVE  \A d \in Contacts : contact'[d].attempts = contact[d].attempts
<1>1. CASE UNCHANGED contact
  BY <1>1
<1>2. CASE \E st : SetStatus(c, st)
  <2>1. PICK st : contact' = [contact EXCEPT ![c] = [contact[c] EXCEPT !.status = st]]
    BY <1>2 DEF SetStatus, SetContact
  <2>2. contact[c] \in Row /\ DOMAIN contact = Contacts
    BY DEF Typed
  <2>3. [contact[c] EXCEPT !.status = st].attempts = contact[c].attempts
    BY <2>2 DEF Row
  <2> QED BY <2>1, <2>2, <2>3
<1> QED BY <1>1, <1>2

\* The sweep's ends leave the count of attempts alone.
LEMMA HealCounts ==
    ASSUME Typed, NEW w \in Workers, worker[w].rows \subseteq Contacts, Heal(w)
    PROVE  \A d \in Contacts : contact'[d].attempts = contact[d].attempts
<1>1. \E c \in worker[w].rows : UNCHANGED contact \/ \E st : SetStatus(c, st)
  BY DEF Heal
<1> QED BY <1>1, EndCounts

\* So do those of LiveKit and the webhook.
LEMMA OutsideCounts ==
    ASSUME Typed, NEW c \in Contacts,
           Answered(c) \/ HangUp(c) \/ RoomFinished(c) \/ WebhookLost(c)
    PROVE  \A d \in Contacts : contact'[d].attempts = contact[d].attempts
<1>1. UNCHANGED contact \/ \E st : SetStatus(c, st)
  BY DEF Answered, HangUp, RoomFinished, WebhookLost
<1> QED BY <1>1, EndCounts

\* The rows left dialling, and the end the sweep gives them.
LEMMA HealsDial ==
    ASSUME DialInv, Shape', NEW w \in Workers, SweepActive(w) \/ Heal(w)
    PROVE  DialInv'
<1>0. /\ UNCHANGED <<campaign, queue, retries, parked, web, env>>
      /\ worker[w].pc \in {"requeue", "heal"} /\ worker[w].pc \notin Carrying
  BY DEF SweepActive, Heal, At, Carrying, Counting, Calling
<1>1. CountsInv(w)
  BY DEF DialInv
<1>2. "heal" \in Looping /\ "heal" \notin Carrying /\ "heal" \notin Counting
      /\ "heal" \notin Ahead /\ "heal" \notin Calling
  BY DEF Looping, Carrying, Counting, Calling, Ahead
<1>3. ASSUME CountsKept, NEW rows \in SUBSET Contacts, NEW r,
             worker' = [worker EXCEPT ![w] = r],
             r.pc = "heal", r.back = worker[w].back, r.job = worker[w].job, r.rows = rows,
             r.todo = worker[w].todo, r.attempts = worker[w].attempts,
             r.verdict = worker[w].verdict
      PROVE  CountsInv(w)' /\ \A v \in Workers : v # w => worker'[v] = worker[v]
  <2>1. worker'[w] = r /\ \A v \in Workers : v # w => worker'[v] = worker[v]
    BY <1>3 DEF DialInv, Shape
  <2>2. \A j \in worker'[w].todo : Sound(j)'
    BY <1>1, <1>3, <2>1, SoundStays DEF CountsInv
  <2> QED BY <1>0, <1>1, <1>2, <1>3, <2>1, <2>2 DEF CountsInv
<1>4. CASE SweepActive(w)
  <2>1. PICK rows \in SUBSET Contacts :
           worker' = [worker EXCEPT ![w] = [worker[w] EXCEPT !.pc = "heal", !.rows = rows]]
    BY <1>4 DEF SweepActive, Stale
  <2> DEFINE r == [worker[w] EXCEPT !.pc = "heal", !.rows = rows]
  <2>2. /\ r.pc = "heal" /\ r.back = worker[w].back /\ r.job = worker[w].job /\ r.rows = rows
        /\ r.todo = worker[w].todo /\ r.attempts = worker[w].attempts
        /\ r.verdict = worker[w].verdict
    BY DEF DialInv, Shape, Local, Fields
  <2>3. worker' = [worker EXCEPT ![w] = r]
    BY <2>1
  <2> HIDE DEF r
  <2>4. UNCHANGED <<contact, calls>> /\ CountsKept
    BY <1>4 DEF SweepActive, CountsKept
  <2>5. CountsInv(w)' /\ \A v \in Workers : v # w => worker'[v] = worker[v]
    BY <1>3, <2>2, <2>3, <2>4
  <2> QED BY <1>0, <2>4, <2>5, MovesDial
<1>5. CASE Heal(w)
  <2>1. worker[w].pc = "heal" /\ worker[w].rows \subseteq Contacts
    BY <1>1, <1>5 DEF Heal, At, CountsInv
  <2>2. PICK c \in worker[w].rows :
           /\ worker' = [worker EXCEPT ![w].rows = @ \ {c}]
           /\ contact' \in [Contacts -> Row]
           /\ \A d \in Contacts : contact'[d] = contact[d] \/ (d = c /\ Done(c)')
           /\ calls' \in [Contacts -> Seq(Call)]
           /\ \A d \in Contacts :
                 Len(calls'[d]) = Len(calls[d]) /\ DOMAIN calls'[d] = DOMAIN calls[d]
    BY <1>5, <2>1, HealDoes DEF DialInv
  <2>3. CountsKept
    BY <1>5, <2>1, <2>2, HealCounts DEF DialInv, CountsKept
  <2> DEFINE r == [worker[w] EXCEPT !.rows = worker[w].rows \ {c}]
  <2>4. /\ r.pc = worker[w].pc /\ r.back = worker[w].back /\ r.job = worker[w].job
        /\ r.rows = worker[w].rows \ {c} /\ r.todo = worker[w].todo
        /\ r.attempts = worker[w].attempts /\ r.verdict = worker[w].verdict
    BY DEF DialInv, Shape, Local, Fields
  <2>5. worker' = [worker EXCEPT ![w] = r] /\ worker[w].rows \ {c} \in SUBSET Contacts
    BY <2>1, <2>2
  <2> HIDE DEF r
  <2>6. CountsInv(w)' /\ \A v \in Workers : v # w => worker'[v] = worker[v]
    BY <1>3, <2>1, <2>3, <2>4, <2>5
  <2>7. Typed' /\ Claims'
    BY <1>0, <2>2 DEF DialInv, Typed, Claims
  <2>8. \A d \in Contacts : contact'[d].status \in Claimable => contact[d].status \in Claimable
    BY <2>2 DEF Done, TerminalContact, Claimable
  <2>9. (\A i \in DOMAIN queue' : Sound(queue'[i])) /\ \A j \in retries' : Sound(j)
    BY <1>0 DEF DialInv
  <2> QED BY <2>3, <2>6, <2>7, <2>8, <2>9, QuietDials
<1> QED BY <1>4, <1>5

\* A worker that starts over starts with a pop.
LEMMA IdlePops == Idle = [Idle EXCEPT !.pc = "pop"]
BY DEF Idle

\* The refill claims contacts that were pending, queues them, or takes the claims back.
LEMMA RefillDials ==
    ASSUME DialInv, Shape', NEW w \in Workers, Refill(w) \/ RefillEnqueue(w) \/ RefillRestore(w)
    PROVE  DialInv'
<1>0. /\ UNCHANGED <<campaign, calls, retries, parked, web>>
      /\ worker[w].pc \in {"heal", "refill"} /\ worker[w].pc \in Looping
      /\ worker[w].pc \notin Carrying
  BY DEF Refill, RefillEnqueue, RefillRestore, At, Looping, Carrying, Counting, Calling
<1>1. CountsInv(w) /\ worker[w].rows \subseteq Contacts /\ Claims'
  BY <1>0 DEF DialInv, CountsInv, Claims
<1>2. CASE Refill(w)
  <2>1. UNCHANGED <<queue, retries, web>>
    BY <1>2 DEF Refill
  <2>2. CASE Goto(w, "count") /\ UNCHANGED <<contact, aged>>
    <3>1. CountsKept /\ "count" \in Looping \ {"requeue", "heal", "refill"}
      BY <1>0, <2>2 DEF CountsKept, Looping
    <3>2. CountsInv(w)' /\ \A v \in Workers : v # w => worker'[v] = worker[v]
      BY <1>0, <2>2, <3>1, LoopsOn
    <3> QED BY <1>0, <2>1, <2>2, <3>2, MovesDial
  <2>3. ASSUME NEW page \in SUBSET Contacts, \A c \in page : contact[c].status = "pending",
               contact' = [c \in Contacts |->
                             IF c \in page THEN [contact[c] EXCEPT !.status = "queued"]
                             ELSE contact[c]],
               worker' = [worker EXCEPT ![w] =
                            [worker[w] EXCEPT !.pc = "refill", !.rows = page]]
        PROVE  DialInv'
    <3>1. \A c \in Contacts : \E st \in NONTERMINAL_CONTACT \cup TerminalContact :
             /\ contact'[c] = [contact[c] EXCEPT !.status = st]
             /\ st \in Claimable => contact[c].status \in Claimable
      <4> SUFFICES ASSUME NEW c \in Contacts
                   PROVE  \E st \in NONTERMINAL_CONTACT \cup TerminalContact :
                             /\ contact'[c] = [contact[c] EXCEPT !.status = st]
                             /\ st \in Claimable => contact[c].status \in Claimable
        OBVIOUS
      <4>1. contact[c] \in Row
        BY DEF DialInv, Typed
      <4>2. CASE c \notin page
        BY <2>3, <4>1, <4>2, StatusKept
      <4>3. CASE c \in page
        <5>1. contact'[c] = [contact[c] EXCEPT !.status = "queued"]
              /\ contact[c].status = "pending"
          BY <2>3, <4>3
        <5>2. "queued" \in NONTERMINAL_CONTACT \cup TerminalContact /\ "pending" \in Claimable
          BY DEF NONTERMINAL_CONTACT, Claimable
        <5> QED BY <5>1, <5>2
      <4> QED BY <4>2, <4>3
    <3>2. DOMAIN contact' = Contacts /\ contact' = [c \in Contacts |-> contact'[c]]
      BY <2>3
    <3>3. CountsKept
      <4> SUFFICES ASSUME NEW c \in Contacts PROVE contact'[c].attempts = contact[c].attempts
        BY <1>0 DEF CountsKept
      <4>1. contact[c] \in Row
        BY DEF DialInv, Typed
      <4> QED BY <2>3, <4>1 DEF Row
    <3> DEFINE r == [worker[w] EXCEPT !.pc = "refill", !.rows = page]
    <3>4. /\ r.pc = "refill" /\ r.rows = page
          /\ r.back = worker[w].back /\ r.job = worker[w].job
          /\ r.todo = worker[w].todo /\ r.attempts = worker[w].attempts
          /\ r.verdict = worker[w].verdict
      BY DEF DialInv, Shape, Local, Fields
    <3>5. worker' = [worker EXCEPT ![w] = r]
      BY <2>3
    <3> HIDE DEF r
    <3>6. worker'[w] = r /\ \A v \in Workers : v # w => worker'[v] = worker[v]
      BY <3>5 DEF DialInv, Shape
    <3>7. \A j \in worker'[w].todo : Sound(j)'
      BY <1>1, <3>3, <3>4, <3>6, SoundStays DEF CountsInv
    <3>8. "refill" \in Looping /\ "refill" \notin Carrying /\ "refill" \notin Counting
          /\ "refill" \notin Ahead /\ "refill" \notin Calling
      BY DEF Looping, Carrying, Counting, Calling, Ahead
    <3>9. CountsInv(w)'
      BY <1>0, <1>1, <2>3, <3>4, <3>6, <3>7, <3>8 DEF CountsInv
    <3>10. queue' \in Seq(Job) /\ \A i \in DOMAIN queue' : Sound(queue'[i])
      BY <2>1 DEF DialInv, Typed
    <3>11. \A v \in Workers : worker'[v] = worker[v] \/ CountsInv(v)'
      BY <3>6, <3>9
    <3> QED BY <1>0, <1>1, <3>1, <3>2, <3>10, <3>11, BatchDials
  <2>4. CASE ~(Goto(w, "count") /\ UNCHANGED <<contact, aged>>)
    <3>1. PICK page : /\ page \in SUBSET Fresh
                      /\ contact' = [c \in Contacts |->
                                       IF c \in page THEN [contact[c] EXCEPT !.status =
                                       "queued"]
                                       ELSE contact[c]]
                      /\ worker' = [worker EXCEPT ![w] =
                                      [worker[w] EXCEPT !.pc = "refill", !.rows = page]]
      BY <1>2, <2>4 DEF Refill, Batches
    <3>2. page \in SUBSET Contacts /\ \A c \in page : contact[c].status = "pending"
      BY <3>1 DEF Fresh
    <3> QED BY <2>3, <3>1, <3>2
  <2> QED BY <2>2, <2>4
<1>3. CASE RefillEnqueue(w)
  <2>1. PICK page : page = worker[w].rows
    OBVIOUS
  <2>2. PICK jobs : jobs = {InitialJob(c, 0) : c \in page}
    OBVIOUS
  <2>3. /\ Push(jobs) /\ UNCHANGED contact
        /\ worker' = [worker EXCEPT ![w] = [Idle EXCEPT !.pc = "count"]]
    BY <1>3, <2>1, <2>2 DEF RefillEnqueue
  <2>4. jobs \in SUBSET Job /\ IsFiniteSet(jobs) /\ \A j \in jobs : Sound(j)
    BY <1>1, <2>1, <2>2, BatchSound
  <2>5. queue' \in Seq(Job) /\ \A i \in DOMAIN queue' : Sound(queue'[i])
    BY <2>3, <2>4, PushSound
  <2>6. /\ worker'[w] = [Idle EXCEPT !.pc = "count"]
        /\ \A v \in Workers : v # w => worker'[v] = worker[v]
    BY <2>3 DEF DialInv, Shape
  <2>7. CountsInv(w)'
    BY <2>6, StartsOver
  <2>8. Typed' /\ CountsKept
    BY <1>0, <2>3, <2>5 DEF DialInv, Typed, CountsKept
  <2>9. \A j \in retries' : Sound(j)
    BY <1>0 DEF DialInv
  <2> QED BY <1>1, <2>3, <2>5, <2>6, <2>7, <2>8, <2>9, QuietDials
<1>4. CASE RefillRestore(w)
  <2>1. /\ contact' = [c \in Contacts |->
                         IF /\ c \in worker[w].rows
                            /\ contact[c] = [status |-> "queued", attempts |-> 0]
                         THEN [contact[c] EXCEPT !.status = "pending"]
                         ELSE contact[c]]
        /\ UNCHANGED queue /\ worker' = [worker EXCEPT ![w] = Idle]
    BY <1>4 DEF RefillRestore
  <2>2. \A c \in Contacts : \E st \in NONTERMINAL_CONTACT \cup TerminalContact :
           /\ contact'[c] = [contact[c] EXCEPT !.status = st]
           /\ st \in Claimable => contact[c].status \in Claimable
    <3> SUFFICES ASSUME NEW c \in Contacts
                 PROVE  \E st \in NONTERMINAL_CONTACT \cup TerminalContact :
                           /\ contact'[c] = [contact[c] EXCEPT !.status = st]
                           /\ st \in Claimable => contact[c].status \in Claimable
      OBVIOUS
    <3>1. contact[c] \in Row
      BY DEF DialInv, Typed
    <3>2. CASE contact'[c] = contact[c]
      BY <3>1, <3>2, StatusKept
    <3>3. CASE contact'[c] # contact[c]
      <4>1. /\ contact'[c] = [contact[c] EXCEPT !.status = "pending"]
            /\ contact[c].status = "queued"
        BY <2>1, <3>3
      <4>2. "pending" \in NONTERMINAL_CONTACT \cup TerminalContact /\ "queued" \in Claimable
        BY DEF NONTERMINAL_CONTACT, Claimable
      <4> QED BY <4>1, <4>2
    <3> QED BY <3>2, <3>3
  <2>3. DOMAIN contact' = Contacts /\ contact' = [c \in Contacts |-> contact'[c]]
    BY <2>1
  <2>4. /\ worker'[w] = [Idle EXCEPT !.pc = "pop"]
        /\ \A v \in Workers : v # w => worker'[v] = worker[v]
    BY <2>1, IdlePops DEF DialInv, Shape
  <2>5. \A v \in Workers : worker'[v] = worker[v] \/ CountsInv(v)'
    BY <2>4, StartsOver
  <2>6. queue' \in Seq(Job) /\ \A i \in DOMAIN queue' : Sound(queue'[i])
    BY <2>1 DEF DialInv, Typed
  <2> QED BY <1>0, <1>1, <2>2, <2>3, <2>5, <2>6, BatchDials
<1> QED BY <1>2, <1>3, <1>4

\* A worker that starts over leaves its work to the sweep.
LEMMA StopsDial ==
    ASSUME DialInv, Shape', NEW w \in Workers,
           CompleteCampaign(w) \/ Crash(w) \/ CrashScheduling(w)
    PROVE  DialInv'
<1>1. /\ UNCHANGED <<contact, calls, queue, retries, web>>
      /\ worker' = [worker EXCEPT ![w] = Idle]
  BY DEF CompleteCampaign, Crash, CrashScheduling
<1>2. /\ worker'[w] = [Idle EXCEPT !.pc = "pop"]
      /\ \A v \in Workers : v # w => worker'[v] = worker[v]
  BY <1>1, IdlePops DEF DialInv, Shape
<1> QED BY <1>1, <1>2, StartsOver, MovesDial

\* The count of remaining contacts writes nothing.
LEMMA RemainingDial ==
    ASSUME DialInv, Shape', NEW w \in Workers, CountRemaining(w)
    PROVE  DialInv'
<1>1. /\ UNCHANGED <<contact, calls, queue, retries, web>> /\ worker[w].pc \in Looping
      /\ \E pc \in {"complete", "pop"} : Goto(w, pc)
  BY DEF CountRemaining, At, Looping
<1>2. CountsKept
  BY <1>1 DEF CountsKept
<1>3. CountsInv(w)' /\ \A v \in Workers : v # w => worker'[v] = worker[v]
  BY <1>1, <1>2, LoopsOn DEF Looping
<1> QED BY <1>1, <1>3, MovesDial

\* Time, LiveKit and the webhook make no call and count none.
LEMMA OutsideDials ==
    ASSUME DialInv, Shape', NEW c \in Contacts,
           Age(c) \/ Answered(c) \/ HangUp(c) \/ RoomFinished(c) \/ WebhookLost(c)
    PROVE  DialInv'
<1>1. UNCHANGED <<queue, retries, parked, web, worker>>
  BY DEF Age, Answered, HangUp, RoomFinished, WebhookLost
<1>2. /\ CountsKept /\ Typed'
      /\ \A d \in Contacts : contact'[d].status \in Claimable => contact[d].status \in Claimable
  <2>1. CASE Age(c)
    <3>1. UNCHANGED <<contact, calls>>
      BY <2>1 DEF Age
    <3> QED BY <1>1, <3>1 DEF CountsKept, DialInv, Typed
  <2>2. CASE Answered(c) \/ HangUp(c) \/ RoomFinished(c) \/ WebhookLost(c)
    <3>1. /\ calls' \in [Contacts -> Seq(Call)] /\ contact' \in [Contacts -> Row]
          /\ \A d \in Contacts :
                Len(calls'[d]) = Len(calls[d]) /\ DOMAIN calls'[d] = DOMAIN calls[d]
          /\ \A d \in Contacts : contact'[d] = contact[d] \/ (d = c /\ Done(c)')
      BY <2>2, OutsideDoes DEF DialInv
    <3>2. \A d \in Contacts : contact'[d].attempts = contact[d].attempts
      BY <2>2, OutsideCounts DEF DialInv
    <3> QED
      BY <1>1, <3>1, <3>2 DEF CountsKept, DialInv, Typed, Done, TerminalContact, Claimable
  <2> QED BY <2>1, <2>2
<1>3. (\A i \in DOMAIN queue' : Sound(queue'[i])) /\ \A j \in retries' : Sound(j)
  BY <1>1 DEF DialInv
<1>4. Claims'
  BY <1>1 DEF DialInv, Claims
<1> QED BY <1>1, <1>2, <1>3, <1>4, QuietDials

\* A step that touches neither rows, calls, jobs nor workers.
LEMMA NothingDials ==
    ASSUME DialInv, Shape', UNCHANGED <<contact, calls, queue, retries, web, worker>>
    PROVE  DialInv'
<1>1. CountsKept /\ Typed' /\ Claims'
  BY DEF CountsKept, DialInv, Typed, Claims
<1>2. (\A i \in DOMAIN queue' : Sound(queue'[i])) /\ \A j \in retries' : Sound(j)
  BY DEF DialInv
<1> QED BY <1>1, <1>2, QuietDials

\* Every step, where no two workers hold one contact's job.
LEMMA DialStep ==
    ASSUME DialInv, Exclusive, \A w \in Workers : Fair(w), Shape', [Next]_vars
    PROVE  DialInv'
<1>1. CASE Start
  BY <1>1, StartDials
<1>2. ASSUME NEW w \in Workers,
             MainLoop(w) \/ ProcessJob(w) \/ Sweep(w) \/ Crash(w) \/ CrashScheduling(w)
      PROVE  DialInv'
  BY <1>2, LoopDials, ProcessDials, SweepDials, RequeueDials, HealsDial, RefillDials,
     RemainingDial, StopsDial
  DEF Sweep
<1>3. CASE KeyExpires
  <2>1. UNCHANGED <<contact, calls, queue, retries, web, worker>>
    BY <1>3 DEF KeyExpires
  <2> QED BY <2>1, NothingDials
<1>4. CASE UNCHANGED vars
  <2>1. UNCHANGED <<contact, calls, queue, retries, web, worker>>
    BY <1>4 DEF vars
  <2> QED BY <2>1, NothingDials
<1>5. CASE \E c \in Contacts :
              Age(c) \/ Answered(c) \/ HangUp(c) \/ RoomFinished(c) \/ WebhookLost(c)
  BY <1>5, OutsideDials
<1> QED BY <1>1, <1>2, <1>3, <1>4, <1>5 DEF Next

-----------------------------------------------------------------------------
\* One replica whose governors never refuse; it may crash, raise at the claim or the mint, find
\* old rows and lose webhooks.
Alone ==
    /\ \A v, w \in Workers : v = w
    /\ Budget.refusals = 0 /\ Faulty \subseteq {"claim_contact", "mint"} /\ DefaultMax <= MaxAttempts

\* The environment has no refusals left, and the steps that spend a fault spend another.
Unrefused == DOMAIN env = {"refusals", "errors", "crashes", "lost"} /\ env.refusals = 0

\* The freshly created campaign has made no call.
LEMMA DialStarts ==
    ASSUME Init
    PROVE  DialInv
<1>1. DOMAIN contact = Contacts /\ \A c \in Contacts : contact[c] \in Row
  BY DEF Init, Row, NONTERMINAL_CONTACT
<1>2. /\ Typed /\ Claims
      /\ \A c \in Contacts : Len(calls[c]) = 0 /\ contact[c].attempts = 0
  <2>1. queue \in Seq(Job) /\ retries \subseteq Job
    BY DEF Init
  <2>2. contact \in [Contacts -> Row]
    BY DEF Init, Row, NONTERMINAL_CONTACT
  <2>3. calls \in [Contacts -> Seq(Call)]
    BY DEF Init
  <2> QED BY <2>1, <2>2, <2>3 DEF Init, Typed, Claims
<1>3. /\ \A i \in DOMAIN queue : Sound(queue[i])
      /\ \A j \in retries : Sound(j)
  <2>1. queue = <<>> /\ DOMAIN queue = {} /\ retries = {}
    BY DEF Init
  <2> QED BY <2>1
<1>4. ASSUME NEW w \in Workers PROVE CountsInv(w)
  <2>1. /\ worker[w].pc = "pop" /\ worker[w].attempts = 0
        /\ worker[w].verdict = "failed" /\ worker[w].back = "pop"
        /\ worker[w].job = NoJob /\ worker[w].todo = {}
    BY DEF Init, Idle
  <2>2. "pop" \in Looping /\ "pop" \notin Carrying /\ "pop" \notin Counting
        /\ "pop" \notin Ahead /\ "pop" \notin Calling
    BY DEF Looping, Carrying, Counting, Calling, Ahead
  <2> QED BY <2>1, <2>2 DEF CountsInv
<1>5. \A c \in Contacts : Len(calls[c]) <= MaxAttempts /\ Even(c)
  BY <1>2, CampaignAssumption DEF Even
<1>6. Shape
  BY DEF Init, Shape, Local, Fields, Idle
<1> QED BY <1>2, <1>3, <1>4, <1>5, <1>6 DEF DialInv

\* In an orderly campaign a contact's job has one owner, nothing queued goes stale, and a job
\* whose slots are refused has a contact that waits.
LEMMA OrderlyIsExclusive ==
    ASSUME Regime, CampaignInv
    PROVE  Exclusive /\ \A w \in Workers : Fair(w)
<1>1. \A v, w \in Workers : Target(v) = Target(w) /\ Target(v) \in Contacts => v = w
  BY DEF CampaignInv, OwnInv
<1>2. ASSUME NEW w \in Workers, worker[w].pc = "requeue" PROVE worker[w].rows = {}
  BY <1>2 DEF CampaignInv, WorkerInv, LocalInv
<1>3. Stale("queued") = {}
  BY DEF Stale, CampaignInv, ContactInv, Dialing
<1>4. ASSUME NEW w \in Workers, worker[w].pc = "slots"
      PROVE  contact[Target(w)].status \in Claimable
  <2>1. Waits(Target(w))
    BY <1>4 DEF CampaignInv, WorkerInv, Claiming
  <2> QED BY <2>1 DEF Waits, Claimable
<1>5. \A w \in Workers : Fair(w)
  BY <1>4 DEF Fair, Regime
<1> QED BY <1>1, <1>2, <1>3, <1>5 DEF Exclusive

\* A replica that is alone shares no contact, and sweeps with no job in hand.
LEMMA AloneIsExclusive ==
    ASSUME Alone, DialInv, Unrefused
    PROVE  Exclusive /\ \A w \in Workers : Fair(w)
<1>1. ASSUME NEW w \in Workers, worker[w].pc = "requeue", NEW j \in worker[w].rows
      PROVE  ~Busy(j.contact)
  <2>1. CountsInv(w) /\ "requeue" \notin Carrying
    BY DEF DialInv, Carrying, Counting, Calling
  <2>2. worker[w].job = NoJob /\ j.contact \in Contacts
    BY <1>1, <2>1 DEF CountsInv, Sound, Job
  <2>3. Target(w) # j.contact
    BY <2>2, CampaignAssumption DEF Target, NoJob
  <2> QED BY <2>3 DEF Busy, Alone
<1>2. \A w \in Workers : Fair(w)
  <2>1. ~(env.refusals > 0)
    BY DEF Unrefused
  <2>2. \A w \in Workers : worker[w].pc \in Faulty => worker[w].pc \in {"claim_contact", "mint"}
    BY DEF Alone
  <2> QED BY <2>1, <2>2 DEF Fair
<1> QED BY <1>1, <1>2 DEF Exclusive, Alone

\* No step makes a refusal available that was not there.
LEMMA UnrefusedStays ==
    ASSUME Unrefused, [Next]_vars
    PROVE  Unrefused'
<1>1. \/ UNCHANGED env
      \/ \E f \in {"refusals", "errors", "crashes", "lost"} : Spend(f)
  <2>1. CASE UNCHANGED vars
    BY <2>1 DEF vars
  <2>2. CASE Start
    BY <2>2 DEF Start, StartClaim, StartRunning, StartEnqueue, StartRollback
  <2>3. CASE KeyExpires
    BY <2>3 DEF KeyExpires
  <2>4. CASE \E c \in Contacts :
                Age(c) \/ Answered(c) \/ HangUp(c) \/ RoomFinished(c) \/ WebhookLost(c)
    BY <2>4 DEF Age, Answered, HangUp, RoomFinished, WebhookLost
  <2>5. CASE \E w \in Workers : MainLoop(w)
    BY <2>5 DEF MainLoop, Pop, ClaimDue, FreeKeys, NoneDue, NextRetry, SkipSweep
  <2>6. CASE \E w \in Workers : ProcessJob(w)
    BY <2>6 DEF ProcessJob, PreflightNotRunning, PreflightRefuse, PreflightPass, Park, Terminal,
       AdmitSlots, RefuseSlots, Defer, ClaimContact, ClaimRaises, Mint, DialAccepted, DialFailed,
       FailCall, Backoff, CountFailure, MarkCallDialing, MarkContactDialing, Throw, ParkJob
  <2>7. CASE \E w \in Workers : Sweep(w)
    BY <2>7 DEF Sweep, SweepQueued, Requeue, SweepActive, Heal, Refill, RefillEnqueue,
       RefillRestore, CountRemaining, CompleteCampaign
  <2>8. CASE \E w \in Workers : Crash(w) \/ CrashScheduling(w)
    BY <2>8 DEF Crash, CrashScheduling
  <2> QED BY <2>1, <2>2, <2>3, <2>4, <2>5, <2>6, <2>7, <2>8 DEF Next
<1>2. CASE UNCHANGED env
  BY <1>2 DEF Unrefused
<1>3. CASE \E f \in {"refusals", "errors", "crashes", "lost"} : Spend(f)
  <2>1. PICK f \in {"refusals", "errors", "crashes", "lost"} : Spend(f)
    BY <1>3
  <2>2. f # "refusals"
    BY <2>1 DEF Spend, Unrefused
  <2> QED BY <2>1, <2>2 DEF Spend, Unrefused
<1> QED BY <1>1, <1>2, <1>3

\* A contact is dialled at most as often as its campaign allows: in an orderly campaign with any
\* number of replicas, and with one replica in any.
THEOREM CampaignDialsWithinMax == Regime \/ Alone => (Spec => []DialsWithinMax)
<1>1. DialInv => DialsWithinMax
  BY DEF DialInv, DialsWithinMax
<1>2. Init => DialInv
  BY DialStarts
<1>3. Spec => []Shape
  BY KeysFollowJobs, PTL
<1>4. CASE Regime
  <2>1. CampaignInv /\ DialInv /\ Shape' /\ [Next]_vars => DialInv'
    BY <1>4, OrderlyIsExclusive, DialStep
  <2>2. Spec => []CampaignInv
    BY <1>4, CampaignInvariant
  <2> QED BY <1>1, <1>2, <1>3, <2>1, <2>2, PTL DEF Spec
<1>5. CASE Alone
  <2>1. Unrefused /\ DialInv /\ Shape' /\ [Next]_vars => DialInv'
    BY <1>5, AloneIsExclusive, DialStep
  <2>2. Init => Unrefused
    BY <1>5, CampaignAssumption DEF Init, Unrefused, Alone
  <2>3. Unrefused /\ [Next]_vars => Unrefused'
    BY UnrefusedStays
  <2> QED BY <1>1, <1>2, <1>3, <2>1, <2>2, <2>3, PTL DEF Spec
<1> QED BY <1>4, <1>5
=============================================================================
