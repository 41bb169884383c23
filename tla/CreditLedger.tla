---------------------------- MODULE CreditLedger ----------------------------
(***************************************************************************)
(* BillingRepository over MongoDB: one organisation's billing account and  *)
(* its append-only credit ledger, moved by concurrent requests that each   *)
(* run in a snapshot-isolation transaction (withTransaction).              *)
(*                                                                         *)
(* A transaction reads the account and the ledger as they were when it     *)
(* began.  It commits unless a document it WRITES was written by another   *)
(* transaction since; what it only READ is not checked.  A commit may be   *)
(* applied and still be reported as unknown, and withTransaction then runs *)
(* the whole unit of work again.                                           *)
(*                                                                         *)
(* Credits are integers in hundredths: every assignment of the code rounds *)
(* to two decimals.                                                        *)
(***************************************************************************)
EXTENDS Integers, FiniteSets

CONSTANTS
    Calls,        \* calls of the organisation
    GrantKeys,    \* idempotency keys of grants ("welcome:{org}", an operator's)
    NoKey,        \* a grant that carries no idempotency key
    Procs,        \* requests that can be in progress at once
    Estimate,     \* reserveEstimateCredits(): the same for every call
    Usages,       \* computeUsageCredits(duration), or 0 for a failed leg
    Amounts,      \* amounts of grants
    MaxAttempts,  \* maxRetries of withTransaction (3)
    MaxRequests,  \* bound on the requests of a behaviour
    NoRow,        \* "no ledger document with this key"
    NoOp          \* an idle process works on nothing

ASSUME CallsFinite == IsFiniteSet(Calls)
ASSUME EstimatePositive == Estimate \in Nat \ {0}
ASSUME UsagesNatural == Usages \subseteq Nat
ASSUME AmountsNonZero == Amounts \subseteq Int \ {0}
ASSUME AttemptsPositive == MaxAttempts \in Nat \ {0}
ASSUME RequestsNatural == MaxRequests \in Nat
ASSUME NoKeyNew == NoKey \notin GrantKeys

ReserveKey(c) == <<"reserve", c>>
SettleKey(c) == <<"settle", c>>
GrantKey(k) == <<"grant", k>>

\* The unique index (organizationId, idempotencyKey).  It is compound, so
\* "sparse" leaves out no row: rows without a key share the key NoKey.
RowKeys ==
    {ReserveKey(c) : c \in Calls} \cup {SettleKey(c) : c \in Calls}
        \cup {GrantKey(k) : k \in GrantKeys \cup {NoKey}}

Row == [amount : Int, balanceAfter : Int, refund : Nat]

Account == [exists : BOOLEAN, balance : Int, reserved : Nat]

NoAccount == [exists |-> FALSE, balance |-> 0, reserved |-> 0]

Op ==
    [kind : {"reserve"}, call : Calls]
        \cup [kind : {"settle"}, call : Calls, usage : Usages]
        \cup [kind : {"grant"}, key : GrantKeys \cup {NoKey}, amount : Amounts]

ASSUME NoRowNew == NoRow \notin Row
ASSUME NoOpNew == NoOp \notin Op

VARIABLES
    account,      \* the billing_accounts document
    ledger,       \* the credit_ledger collection, by idempotency key
    cost,         \* costCredits of the call documents
    pc,           \* "idle", "open" (in a transaction), "retry" (between attempts)
    op,           \* the request a process is working on
    attempt,      \* withTransaction's attempt counter
    snapAccount,  \* the account as the open transaction sees it
    snapRows,     \* the ledger rows the open transaction sees
    stale,        \* the account was written since the snapshot was taken
    asked         \* requests made so far

vars == <<account, ledger, cost, pc, op, attempt, snapAccount, snapRows, stale, asked>>

Rows == {k \in RowKeys : ledger[k] # NoRow}

Positive(n) == IF n > 0 THEN n ELSE 0

-----------------------------------------------------------------------------
(* What the unit of work computes from its snapshot.                       *)

OwnKey(o) ==
    CASE o.kind = "reserve" -> ReserveKey(o.call)
      [] o.kind = "settle"  -> SettleKey(o.call)
      [] o.kind = "grant"   -> GrantKey(o.key)

\* Mutant: reserveCallCredits without the settle-row barrier.
ReplayedNoBarrier(o, rows) == OwnKey(o) \in rows \ {GrantKey(NoKey)}

\* The early returns: the request was already applied, or the call is settled.
Replayed(o, rows) ==
    \/ o.kind = "reserve" /\ {ReserveKey(o.call), SettleKey(o.call)} \cap rows # {}
    \/ o.kind = "settle" /\ SettleKey(o.call) \in rows
    \/ o.kind = "grant" /\ o.key # NoKey /\ GrantKey(o.key) \in rows

HoldSeen(o, rows) ==
    IF ReserveKey(o.call) \in rows THEN ledger[ReserveKey(o.call)].amount ELSE 0

BalanceChange(o, rows) ==
    CASE o.kind = "reserve" -> 0 - Estimate
      [] o.kind = "settle"  -> HoldSeen(o, rows) - o.usage
      [] o.kind = "grant"   -> o.amount

\* Mutant: a settlement releases what was used instead of what was held.
ReservedAfterUsage(o, reserved, rows) ==
    CASE o.kind = "reserve" -> reserved + Estimate
      [] o.kind = "settle"  -> Positive(reserved - o.usage)
      [] o.kind = "grant"   -> reserved

ReservedAfter(o, reserved, rows) ==
    CASE o.kind = "reserve" -> reserved + Estimate
      [] o.kind = "settle"  -> Positive(reserved - HoldSeen(o, rows))
      [] o.kind = "grant"   -> reserved

\* The account after the work; a missing one is inserted first (a replayed
\* grant returns before it would save the new document).
Moved(o, acct, rows) ==
    IF Replayed(o, rows)
    THEN IF o.kind = "grant" THEN acct ELSE [acct EXCEPT !.exists = TRUE]
    ELSE [exists |-> TRUE,
          balance |-> acct.balance + BalanceChange(o, rows),
          reserved |-> ReservedAfter(o, acct.reserved, rows)]

NewRow(o, acct, rows) ==
    [amount |-> CASE o.kind = "reserve" -> Estimate
                  [] o.kind = "settle"  -> 0 - o.usage
                  [] o.kind = "grant"   -> o.amount,
     balanceAfter |-> Moved(o, acct, rows).balance,
     refund |-> IF o.kind = "settle" THEN Positive(HoldSeen(o, rows) - o.usage) ELSE 0]

\* save() sends nothing when no path of the document changed.
WritesAccount(p) == Moved(op[p], snapAccount[p], snapRows[p]) # snapAccount[p]

WritesRow(p) == ~Replayed(op[p], snapRows[p])

\* Mutant: the cost is stamped before the settle row is looked up.
CostStampedOnReplay(p) ==
    IF op[p].kind = "settle" THEN [cost EXCEPT ![op[p].call] = op[p].usage] ELSE cost

\* costCredits is stamped in the settlement's own transaction.
CostAfter(p) ==
    IF WritesRow(p) /\ op[p].kind = "settle"
    THEN [cost EXCEPT ![op[p].call] = op[p].usage]
    ELSE cost

-----------------------------------------------------------------------------
(* The transaction layer.                                                  *)

\* Mutant: a lost update of the account goes unnoticed.
ConflictOnRowsOnly(p) == WritesRow(p) /\ OwnKey(op[p]) \in Rows \ snapRows[p]

\* Another transaction committed a write to a document this one writes.
Conflict(p) ==
    \/ WritesAccount(p) /\ stale[p]
    \/ WritesRow(p) /\ OwnKey(op[p]) \in Rows \ snapRows[p]

\* The row's key is taken in the snapshot itself: E11000, not retried.
Duplicate(p) == WritesRow(p) /\ OwnKey(op[p]) \in snapRows[p]

TakeSnapshot(p) ==
    /\ pc' = [pc EXCEPT ![p] = "open"]
    /\ snapAccount' = [snapAccount EXCEPT ![p] = account]
    /\ snapRows' = [snapRows EXCEPT ![p] = Rows]
    /\ stale' = [stale EXCEPT ![p] = FALSE]

EndTransaction(p) ==
    /\ snapAccount' = [snapAccount EXCEPT ![p] = NoAccount]
    /\ snapRows' = [snapRows EXCEPT ![p] = {}]

\* The request is over: it returned or threw.
Return(p) ==
    /\ pc' = [pc EXCEPT ![p] = "idle"]
    /\ op' = [op EXCEPT ![p] = NoOp]
    /\ attempt' = [attempt EXCEPT ![p] = 1]

RetryOrThrow(p) ==
    \/ /\ attempt[p] < MaxAttempts
       /\ pc' = [pc EXCEPT ![p] = "retry"]
       /\ attempt' = [attempt EXCEPT ![p] = @ + 1]
       /\ UNCHANGED op
    \/ attempt[p] >= MaxAttempts /\ Return(p)

\* The writes of the transaction reach the database.
Apply(p) ==
    LET o == op[p] IN
    /\ account' = IF WritesAccount(p) THEN Moved(o, snapAccount[p], snapRows[p]) ELSE account
    /\ ledger' = IF WritesRow(p)
                 THEN [ledger EXCEPT ![OwnKey(o)] = NewRow(o, snapAccount[p], snapRows[p])]
                 ELSE ledger
    /\ cost' = CostAfter(p)
    /\ stale' = [q \in Procs |->
                    q # p /\ (stale[q] \/ (pc[q] = "open" /\ WritesAccount(p)))]

Init ==
    /\ account = NoAccount
    /\ ledger = [k \in RowKeys |-> NoRow]
    /\ cost = [c \in Calls |-> 0]
    /\ pc = [p \in Procs |-> "idle"]
    /\ op = [p \in Procs |-> NoOp]
    /\ attempt = [p \in Procs |-> 1]
    /\ snapAccount = [p \in Procs |-> NoAccount]
    /\ snapRows = [p \in Procs |-> {}]
    /\ stale = [p \in Procs |-> FALSE]
    /\ asked = 0

\* A caller invokes reserve, settle or grant; the work's first read fixes
\* the snapshot.
Request(p, o) ==
    /\ pc[p] = "idle"
    /\ asked < MaxRequests
    /\ asked' = asked + 1
    /\ op' = [op EXCEPT ![p] = o]
    /\ TakeSnapshot(p)
    /\ UNCHANGED <<account, ledger, cost, attempt>>

\* The next iteration of withTransaction's loop: a new snapshot, the same work.
Retry(p) ==
    /\ pc[p] = "retry"
    /\ TakeSnapshot(p)
    /\ UNCHANGED <<account, ledger, cost, op, attempt, asked>>

CanCommit(p) == pc[p] = "open" /\ ~Conflict(p) /\ ~Duplicate(p)

Commit(p) ==
    /\ CanCommit(p)
    /\ Apply(p)
    /\ EndTransaction(p)
    /\ Return(p)
    /\ UNCHANGED asked

\* UnknownTransactionCommitResult: applied, but the client cannot know.
CommitUnacknowledged(p) ==
    /\ CanCommit(p)
    /\ Apply(p)
    /\ EndTransaction(p)
    /\ RetryOrThrow(p)
    /\ UNCHANGED asked

\* TransientTransactionError: a write conflict, a failover, a lost connection.
\* The last can strike any open transaction, so Conflict(p) is no guard here.
AbortTransient(p) ==
    /\ pc[p] = "open"
    /\ EndTransaction(p)
    /\ stale' = [stale EXCEPT ![p] = FALSE]
    /\ RetryOrThrow(p)
    /\ UNCHANGED <<account, ledger, cost, asked>>

\* Any other error is thrown at once; so does the death of the process end
\* the request, in a transaction or waiting for its next attempt.
Fail(p) ==
    /\ pc[p] # "idle"
    /\ EndTransaction(p)
    /\ stale' = [stale EXCEPT ![p] = FALSE]
    /\ Return(p)
    /\ UNCHANGED <<account, ledger, cost, asked>>

\* ensureAccount(): an upsert outside any transaction.
EnsureAccount ==
    /\ ~account.exists
    /\ account' = [account EXCEPT !.exists = TRUE]
    /\ stale' = [p \in Procs |-> stale[p] \/ pc[p] = "open"]
    /\ UNCHANGED <<ledger, cost, pc, op, attempt, snapAccount, snapRows, asked>>

Next ==
    \/ \E p \in Procs, o \in Op : Request(p, o)
    \/ \E p \in Procs : Retry(p)
    \/ \E p \in Procs : Commit(p)
    \/ \E p \in Procs : CommitUnacknowledged(p)
    \/ \E p \in Procs : AbortTransient(p)
    \/ \E p \in Procs : Fail(p)
    \/ EnsureAccount

Spec == Init /\ [][Next]_vars

-----------------------------------------------------------------------------
(* Correctness.                                                            *)

TypeOK ==
    /\ account \in Account
    /\ ledger \in [RowKeys -> Row \cup {NoRow}]
    /\ cost \in [Calls -> Nat]
    /\ pc \in [Procs -> {"idle", "open", "retry"}]
    /\ op \in [Procs -> Op \cup {NoOp}]
    /\ attempt \in [Procs -> 1..MaxAttempts]
    /\ snapAccount \in [Procs -> Account]
    /\ snapRows \in [Procs -> SUBSET RowKeys]
    /\ stale \in [Procs -> BOOLEAN]
    /\ asked \in 0..MaxRequests

HasRow(k) == ledger[k] # NoRow

\* The settlement of c charged nothing and released nothing: it found no hold.
SettledUnheld(c) ==
    /\ HasRow(SettleKey(c))
    /\ ledger[SettleKey(c)].amount = 0
    /\ ledger[SettleKey(c)].refund = 0

\* Calls whose hold is still in the account.
Held == {c \in Calls : HasRow(ReserveKey(c)) /\ (HasRow(SettleKey(c)) => SettledUnheld(c))}

\* Calls that were reserved and are still to be settled.
OpenHolds == {c \in Calls : HasRow(ReserveKey(c)) /\ ~HasRow(SettleKey(c))}

\* The reserved balance is exactly the holds no settlement has released: two
\* requests of any kind, replayed, retried or interleaved, lose no hold and
\* count none twice (reserveCallCredits, settleCallCredits).  So the clamp
\* Math.max(0, reserved - estimate) never hides a deficit.
ReservedIsHeld == account.reserved = Estimate * Cardinality(Held)

\* The reserved balance is the holds of the calls still to be settled: nothing
\* stays held once its call is settled.  The comment in reserveCallCredits: "A
\* late hold after settlement would strand credits forever, so the durable
\* settle ledger is the ordering barrier."
ReservedIsOpenHolds == account.reserved = Estimate * Cardinality(OpenHolds)

\* The cost stamped on a call is what its settlement charged, and a call with
\* no settlement carries no cost (the stamp inside settleCallCredits).
CostIsCharge ==
    \A c \in Calls :
        cost[c] = IF HasRow(SettleKey(c)) THEN 0 - ledger[SettleKey(c)].amount ELSE 0

\* What a row of this key does to balance + reserved: a hold only moves money
\* between the two.
Effect(k, row) == IF k \in {ReserveKey(c) : c \in Calls} THEN 0 ELSE row.amount

\* Money moves only together with the ledger: a step either leaves both
\* balance + reserved and the ledger alone, or adds one row, and the sum moves
\* by that row's effect.  No row is ever changed or removed.
MoneyMovesWithRows ==
    [][ LET moved == (account'.balance + account'.reserved)
                        - (account.balance + account.reserved)
        IN  \/ ledger' = ledger /\ moved = 0
            \/ \E k \in RowKeys :
                    /\ ~HasRow(k)
                    /\ ledger'[k] # NoRow
                    /\ \A j \in RowKeys \ {k} : ledger'[j] = ledger[j]
                    /\ moved = Effect(k, ledger'[k])
      ]_vars

-----------------------------------------------------------------------------
(* Refinement.                                                             *)

StageOf(c) ==
    CASE HasRow(SettleKey(c)) /\ ~SettledUnheld(c) -> "settled"
      [] HasRow(SettleKey(c)) /\ SettledUnheld(c) ->
            IF HasRow(ReserveKey(c)) THEN "stranded" ELSE "void"
      [] ~HasRow(SettleKey(c)) -> IF HasRow(ReserveKey(c)) THEN "held" ELSE "open"

\* An open transaction of call c has missed a hold or a settlement of c that
\* was committed since its snapshot.
Missed(p, c) ==
    /\ pc[p] = "open"
    /\ op[p].kind \in {"reserve", "settle"}
    /\ op[p].call = c
    /\ {ReserveKey(c), SettleKey(c)} \cap (Rows \ snapRows[p]) # {}

Meeting == {c \in Calls : \E p \in Procs : Missed(p, c)}

\* The account with one step per request: every request takes effect in one
\* step or not at all, in an order the calls' stages allow.
Atomic == INSTANCE CreditAccount WITH
    GrantKeys <- GrantKeys \cup {NoKey},
    balance <- account.balance,
    stage <- [c \in Calls |-> StageOf(c)],
    granted <- {k \in GrantKeys \cup {NoKey} : HasRow(GrantKey(k))},
    meeting <- Meeting

\* Concurrent transactions of the repository implement the atomic account.
ImplementsAtomicAccount == Atomic!Spec

\* The calls whose hold this step leaves behind their settlement were settled
\* for nothing, by a transaction that was open beside the hold's.
StrandsOnlyByMeeting ==
    \A c \in Calls :
        StageOf(c)' = "stranded" /\ StageOf(c) # "stranded" =>
            c \in Meeting /\ ledger'[SettleKey(c)].amount = 0

\* How far the barrier of reserveCallCredits holds: a hold is left behind its
\* settlement only when the settlement charged nothing and, of the two requests,
\* the later to commit had its snapshot before the earlier committed.
BarrierUnlessTheyMeet == [][StrandsOnlyByMeeting]_vars
=============================================================================
