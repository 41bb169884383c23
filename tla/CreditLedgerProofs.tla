------------------------- MODULE CreditLedgerProofs -------------------------
(***************************************************************************)
(* Theorems about CreditLedger, for every set of calls, processes, grant   *)
(* keys, usages and amounts.                                               *)
(*                                                                         *)
(* The argument rests on one fact about snapshot isolation: as long as the *)
(* account has not been written since a transaction's snapshot, the only   *)
(* ledger rows the transaction cannot see are settlements that charged     *)
(* nothing and released nothing (Blind below); every other row is          *)
(* committed together with a write of the account.                         *)
(***************************************************************************)
EXTENDS CreditLedger, FiniteSetTheorems, TLAPS

USE DEF ReserveKey, SettleKey, GrantKey

LEMMA KeysInRowKeys ==
    /\ \A c \in Calls : ReserveKey(c) \in RowKeys /\ SettleKey(c) \in RowKeys
    /\ \A k \in GrantKeys \cup {NoKey} : GrantKey(k) \in RowKeys
BY DEF RowKeys

LEMMA OwnKeyInRowKeys ==
    ASSUME NEW o \in Op
    PROVE  OwnKey(o) \in RowKeys
BY DEF Op, OwnKey, RowKeys

-----------------------------------------------------------------------------
(* What one unit of work computes.                                         *)

LEMMA MovedType ==
    ASSUME TypeOK, NEW o \in Op, NEW acct \in Account, NEW R \in SUBSET Rows
    PROVE  /\ Moved(o, acct, R) \in Account
           /\ NewRow(o, acct, R) \in Row
<1>1. o.kind = "settle" => HoldSeen(o, R) \in Int
  BY NoRowNew DEF TypeOK, HoldSeen, Rows, Row, Op, RowKeys
<1>2. o.kind = "settle" => o.usage \in Nat
  BY UsagesNatural DEF Op
<1>3. o.kind = "grant" => o.amount \in Int
  BY AmountsNonZero DEF Op
<1>4. o.kind \in {"reserve", "settle", "grant"}
  BY DEF Op
<1>5. /\ BalanceChange(o, R) \in Int
      /\ ReservedAfter(o, acct.reserved, R) \in Nat
  BY <1>1, <1>2, <1>3, <1>4, EstimatePositive
     DEF Account, Positive, BalanceChange, ReservedAfter
<1>6. Moved(o, acct, R) \in Account
  <2>1. CASE Replayed(o, R) /\ o.kind = "grant"
    BY <2>1 DEF Moved
  <2>2. CASE Replayed(o, R) /\ o.kind # "grant"
    <3>1. Moved(o, acct, R) = [acct EXCEPT !.exists = TRUE]
      BY <2>2 DEF Moved
    <3>2. QED
      BY <3>1 DEF Account
  <2>3. CASE ~Replayed(o, R)
    <3>1. Moved(o, acct, R) = [exists |-> TRUE,
                               balance |-> acct.balance + BalanceChange(o, R),
                               reserved |-> ReservedAfter(o, acct.reserved, R)]
      BY <2>3 DEF Moved
    <3>2. QED
      BY <1>5, <3>1 DEF Account
  <2>4. QED
    BY <2>1, <2>2, <2>3
<1>7. /\ (CASE o.kind = "reserve" -> Estimate
            [] o.kind = "settle"  -> 0 - o.usage
            [] o.kind = "grant"   -> o.amount) \in Int
      /\ (IF o.kind = "settle" THEN Positive(HoldSeen(o, R) - o.usage) ELSE 0) \in Nat
  BY <1>1, <1>2, <1>3, <1>4, EstimatePositive DEF Positive
<1>8. QED
  BY <1>6, <1>7 DEF NewRow, Row, Account

-----------------------------------------------------------------------------
(* The inductive invariant.                                                *)

HeldIn(R) == {c \in Calls : ReserveKey(c) \in R /\ (SettleKey(c) \in R => SettledUnheld(c))}

Blind(p) ==
    \A k \in Rows \ snapRows[p] : \E c \in Calls : k = SettleKey(c) /\ SettledUnheld(c)

RowInv ==
    \A c \in Calls :
        /\ HasRow(ReserveKey(c)) => ledger[ReserveKey(c)].amount = Estimate
        /\ HasRow(SettleKey(c)) => 0 - ledger[SettleKey(c)].amount \in Usages

SnapInv(p) ==
    /\ pc[p] # "idle" => op[p] \in Op
    /\ snapRows[p] \subseteq Rows
    /\ snapAccount[p].reserved = Estimate * Cardinality(HeldIn(snapRows[p]))
    /\ pc[p] = "open" /\ ~stale[p] => snapAccount[p] = account /\ Blind(p)

IInv ==
    /\ TypeOK
    /\ RowInv
    /\ ReservedIsHeld
    /\ \A p \in Procs : SnapInv(p)

LEMMA HeldIsHeldIn == ASSUME TypeOK PROVE Held = HeldIn(Rows)
BY KeysInRowKeys DEF Held, HeldIn, Rows, HasRow

LEMMA HeldFinite ==
    ASSUME NEW R
    PROVE  IsFiniteSet(HeldIn(R)) /\ Cardinality(HeldIn(R)) \in Nat
<1>1. HeldIn(R) \in SUBSET Calls
  BY DEF HeldIn
<1>2. IsFiniteSet(HeldIn(R))
  BY <1>1, CallsFinite, FS_Subset
<1>3. QED
  BY <1>2, FS_CardinalityType

LEMMA Times ==
    ASSUME NEW n \in Nat
    PROVE  /\ Estimate * n \in Nat
           /\ Estimate * (n + 1) = Estimate * n + Estimate
           /\ n > 0 => Estimate * (n - 1) = Estimate * n - Estimate
           /\ n > 0 => Estimate * n >= Estimate
           /\ Estimate * 0 = 0
BY EstimatePositive

-----------------------------------------------------------------------------
(* A transaction that commits.                                             *)

\* Its account is the current one if it writes the account, and what it cannot
\* see is then harmless.
LEMMA WriterIsFresh ==
    ASSUME IInv, NEW p \in Procs, CanCommit(p), WritesAccount(p)
    PROVE  snapAccount[p] = account /\ Blind(p)
BY DEF IInv, TypeOK, SnapInv, CanCommit, Conflict

\* The row it inserts was in no snapshot and in no committed state.
LEMMA InsertedKeyIsNew ==
    ASSUME IInv, NEW p \in Procs, CanCommit(p), WritesRow(p)
    PROVE  OwnKey(op[p]) \in RowKeys /\ OwnKey(op[p]) \notin Rows
BY OwnKeyInRowKeys DEF IInv, SnapInv, CanCommit, Conflict, Duplicate

\* Only a settlement that found no hold and charged nothing leaves the account
\* unwritten while it inserts a row.
LEMMA RowsComeWithTheAccount ==
    ASSUME IInv, NEW p \in Procs, CanCommit(p), WritesRow(p), ~WritesAccount(p)
    PROVE  /\ op[p].kind = "settle" /\ op[p].usage = 0
           /\ ReserveKey(op[p].call) \notin snapRows[p]
<1> DEFINE o == op[p]
           R == snapRows[p]
           a == snapAccount[p]
<1>1. /\ o \in Op /\ R \in SUBSET Rows /\ a \in Account
      /\ o.kind \in {"reserve", "settle", "grant"}
  BY DEF IInv, SnapInv, TypeOK, CanCommit, Op
<1>2. /\ Moved(o, a, R) = a
      /\ Moved(o, a, R) = [exists |-> TRUE,
                           balance |-> a.balance + BalanceChange(o, R),
                           reserved |-> ReservedAfter(o, a.reserved, R)]
  BY DEF WritesRow, WritesAccount, Moved
<1>3. /\ a.balance + BalanceChange(o, R) = a.balance
      /\ ReservedAfter(o, a.reserved, R) = a.reserved
  BY <1>2
<1>4. a.balance \in Int /\ a.reserved \in Nat
  BY <1>1 DEF Account
<1>5. o.kind # "reserve"
  BY <1>3, <1>4, EstimatePositive DEF BalanceChange
<1>6. o.kind # "grant"
  <2>1. SUFFICES ASSUME o.kind = "grant" PROVE FALSE
    OBVIOUS
  <2>2. o.amount \in Int \ {0}
    BY <1>1, <2>1, AmountsNonZero DEF Op
  <2>3. QED
    BY <1>3, <1>4, <2>1, <2>2 DEF BalanceChange
<1>7. o.kind = "settle" /\ o.call \in Calls /\ o.usage \in Nat
  BY <1>1, <1>5, <1>6, UsagesNatural DEF Op
<1>8. ReserveKey(o.call) \notin R
  <2>1. SUFFICES ASSUME ReserveKey(o.call) \in R PROVE FALSE
    OBVIOUS
  <2>2. HoldSeen(o, R) = Estimate
    BY <1>1, <1>7, <2>1 DEF HoldSeen, IInv, RowInv, Rows, HasRow
  <2>3. SettleKey(o.call) \notin R
    BY <1>7 DEF WritesRow, Replayed
  <2>4. o.call \in HeldIn(R)
    BY <1>7, <2>1, <2>3 DEF HeldIn
  <2>5. Cardinality(HeldIn(R)) \in Nat /\ Cardinality(HeldIn(R)) # 0
    BY <2>4, HeldFinite, FS_EmptySet
  <2>6. a.reserved >= Estimate
    BY <2>5, Times DEF IInv, SnapInv
  <2>7. ReservedAfter(o, a.reserved, R) = Positive(a.reserved - Estimate)
    BY <1>7, <2>2 DEF ReservedAfter
  <2>8. QED
    BY <1>3, <1>4, <2>6, <2>7, EstimatePositive DEF Positive
<1>9. HoldSeen(o, R) = 0
  BY <1>8 DEF HoldSeen
<1>10. o.usage = 0
  BY <1>3, <1>4, <1>7, <1>9 DEF BalanceChange
<1>11. QED
  BY <1>7, <1>8, <1>10

LEMMA RowsAfter ==
    ASSUME IInv, NEW p \in Procs, CanCommit(p), Apply(p)
    PROVE  /\ ledger' \in [RowKeys -> Row \cup {NoRow}]
           /\ WritesRow(p) => /\ ledger'[OwnKey(op[p])] = NewRow(op[p], snapAccount[p], snapRows[p])
                              /\ Rows' = Rows \cup {OwnKey(op[p])}
           /\ ~WritesRow(p) => Rows' = Rows
           /\ \A k \in Rows : ledger'[k] = ledger[k] /\ k \in Rows'
<1>1. op[p] \in Op /\ snapRows[p] \in SUBSET Rows /\ snapAccount[p] \in Account
  BY DEF IInv, SnapInv, TypeOK, CanCommit
<1>2. NewRow(op[p], snapAccount[p], snapRows[p]) \in Row
  BY <1>1, MovedType DEF IInv
<1>3. CASE WritesRow(p)
  <2>1. OwnKey(op[p]) \in RowKeys /\ OwnKey(op[p]) \notin Rows
    BY <1>3, InsertedKeyIsNew
  <2>2. ledger' = [ledger EXCEPT ![OwnKey(op[p])] = NewRow(op[p], snapAccount[p], snapRows[p])]
    BY <1>3 DEF Apply, CostAfter
  <2>3. QED
    BY <1>2, <1>3, <2>1, <2>2, NoRowNew DEF Rows, IInv, TypeOK
<1>4. CASE ~WritesRow(p)
  BY <1>4 DEF Apply, CostAfter, Rows, IInv, TypeOK
<1>5. QED
  BY <1>3, <1>4

\* A settled row keeps telling whether it found a hold, since rows never change.
LEMMA SettledUnheldStable ==
    ASSUME IInv, NEW p \in Procs, CanCommit(p), Apply(p), NEW c \in Calls,
           HasRow(SettleKey(c))
    PROVE  SettledUnheld(c)' <=> SettledUnheld(c)
<1>1. SettleKey(c) \in Rows
  BY KeysInRowKeys DEF Rows, HasRow
<1>2. ledger'[SettleKey(c)] = ledger[SettleKey(c)] /\ ledger'[SettleKey(c)] # NoRow
  BY <1>1, RowsAfter DEF Rows
<1>3. QED
  BY <1>2 DEF SettledUnheld, HasRow

LEMMA HeldInStable ==
    ASSUME IInv, NEW p \in Procs, CanCommit(p), Apply(p), NEW R \in SUBSET Rows
    PROVE  HeldIn(R)' = HeldIn(R)
<1>1. \A c \in Calls : SettleKey(c) \in R => (SettledUnheld(c)' <=> SettledUnheld(c))
  BY SettledUnheldStable DEF Rows, HasRow
<1>2. QED
  BY <1>1 DEF HeldIn

\* A settlement: what it does to the holds.
LEMMA SettleHeld ==
    ASSUME IInv, NEW p \in Procs, CanCommit(p), Apply(p),
           WritesRow(p), op[p].kind = "settle"
    PROVE  account'.reserved = Estimate * Cardinality(HeldIn(Rows)')
<1> DEFINE o == op[p]
           R == snapRows[p]
           row == NewRow(o, snapAccount[p], R)
<1>0. op[p].call \in Calls
  BY DEF IInv, SnapInv, CanCommit, Op
<1> PICK c \in Calls : c = op[p].call
  BY <1>0
<1>1. /\ o \in Op /\ R \in SUBSET Rows /\ snapAccount[p] \in Account
      /\ account \in Account
      /\ c \in Calls /\ o.usage \in Nat
  BY UsagesNatural DEF IInv, SnapInv, TypeOK, CanCommit, Op
<1>2. /\ OwnKey(o) = SettleKey(c)
      /\ SettleKey(c) \notin Rows /\ SettleKey(c) \in RowKeys
  BY <1>1, InsertedKeyIsNew, KeysInRowKeys DEF OwnKey
<1>3. /\ Rows' = Rows \cup {SettleKey(c)}
      /\ ledger'[SettleKey(c)] = row
  BY <1>2, RowsAfter
<1>4. account.reserved = Estimate * Cardinality(HeldIn(Rows))
  BY HeldIsHeldIn DEF IInv, ReservedIsHeld
<1>5. /\ row.amount = 0 - o.usage
      /\ row.refund = Positive(HoldSeen(o, R) - o.usage)
      /\ row # NoRow
  <2>1. row \in Row
    BY <1>1, MovedType DEF IInv
  <2>2. QED
    BY <2>1, NoRowNew DEF NewRow
<1>6. SettledUnheld(c)' <=> o.usage = 0 /\ HoldSeen(o, R) = 0
  <2>1. SettledUnheld(c)' <=> row.amount = 0 /\ row.refund = 0
    BY <1>3, <1>5 DEF SettledUnheld, HasRow
  <2>2. HoldSeen(o, R) \in Nat
    BY <1>1, EstimatePositive DEF HoldSeen, IInv, RowInv, Rows, HasRow
  <2>3. QED
    BY <1>1, <1>5, <2>1, <2>2 DEF Positive
<1>7. \A d \in Calls \ {c} : d \in HeldIn(Rows)' <=> d \in HeldIn(Rows)
  <2>1. TAKE d \in Calls \ {c}
  <2>2. ReserveKey(d) \in Rows' <=> ReserveKey(d) \in Rows
    BY <1>3
  <2>3. SettleKey(d) \in Rows' <=> SettleKey(d) \in Rows
    BY <1>3
  <2>4. SettleKey(d) \in Rows => (SettledUnheld(d)' <=> SettledUnheld(d))
    BY SettledUnheldStable DEF Rows, HasRow
  <2>5. QED
    BY <2>2, <2>3, <2>4 DEF HeldIn
<1>8. c \in HeldIn(Rows)' <=> ReserveKey(c) \in Rows /\ o.usage = 0 /\ HoldSeen(o, R) = 0
  BY <1>1, <1>3, <1>6 DEF HeldIn
<1>9. c \in HeldIn(Rows) <=> ReserveKey(c) \in Rows
  BY <1>1, <1>2 DEF HeldIn
<1>10. CASE ReserveKey(c) \in R
  <2>1. HoldSeen(o, R) = Estimate
    BY <1>1, <1>10 DEF HoldSeen, IInv, RowInv, Rows, HasRow
  <2>2. WritesAccount(p)
    BY <1>10, RowsComeWithTheAccount
  <2>3. account' = Moved(o, account, R)
    BY <2>2, WriterIsFresh DEF Apply, CostAfter
  <2>4. account'.reserved = Positive(account.reserved - Estimate)
    BY <2>1, <2>3 DEF Moved, ReservedAfter, WritesRow
  <2>5. c \in HeldIn(Rows) /\ HeldIn(Rows)' = HeldIn(Rows) \ {c}
    <3>1. c \in HeldIn(Rows) /\ c \notin HeldIn(Rows)'
      BY <1>1, <1>8, <1>9, <1>10, <2>1, EstimatePositive
    <3>2. HeldIn(Rows)' \subseteq Calls /\ HeldIn(Rows) \subseteq Calls
      BY DEF HeldIn
    <3>3. QED
      BY <1>7, <3>1, <3>2
  <2>6. Cardinality(HeldIn(Rows)') = Cardinality(HeldIn(Rows)) - 1
    BY <2>5, HeldFinite, FS_RemoveElement
  <2>7. Cardinality(HeldIn(Rows)) \in Nat /\ Cardinality(HeldIn(Rows)) > 0
    BY <2>5, HeldFinite, FS_EmptySet
  <2>8. QED
    BY <1>1, <1>4, <2>4, <2>6, <2>7, Times, EstimatePositive DEF Positive, Account
<1>11. CASE ReserveKey(c) \notin R
  <2>1. HoldSeen(o, R) = 0
    BY <1>11 DEF HoldSeen
  <2>2. account'.reserved = account.reserved
    <3>1. CASE WritesAccount(p)
      <4>1. account' = Moved(o, account, R)
        BY <3>1, WriterIsFresh DEF Apply, CostAfter
      <4>2. account'.reserved = Positive(account.reserved - 0)
        BY <2>1, <4>1 DEF Moved, ReservedAfter, WritesRow
      <4>3. QED
        BY <1>1, <4>2 DEF Positive, Account
    <3>2. CASE ~WritesAccount(p)
      BY <3>2 DEF Apply, CostAfter
    <3>3. QED
      BY <3>1, <3>2
  <2>3. c \in HeldIn(Rows)' <=> c \in HeldIn(Rows)
    <3>1. CASE ReserveKey(c) \in Rows
      <4>1. ~WritesAccount(p)
        BY <1>1, <1>11, <3>1, WriterIsFresh DEF Blind
      <4>2. o.usage = 0
        BY <4>1, RowsComeWithTheAccount
      <4>3. QED
        BY <1>8, <1>9, <2>1, <3>1, <4>2
    <3>2. CASE ReserveKey(c) \notin Rows
      BY <1>8, <1>9, <3>2
    <3>3. QED
      BY <3>1, <3>2
  <2>4. HeldIn(Rows)' = HeldIn(Rows)
    <3>1. HeldIn(Rows)' \subseteq Calls /\ HeldIn(Rows) \subseteq Calls
      BY DEF HeldIn
    <3>2. QED
      BY <1>7, <2>3, <3>1
  <2>5. QED
    BY <1>4, <2>2, <2>4
<1>12. QED
  BY <1>10, <1>11

\* A reservation adds its call to the holds.
LEMMA ReserveHeld ==
    ASSUME IInv, NEW p \in Procs, CanCommit(p), Apply(p),
           WritesRow(p), op[p].kind = "reserve"
    PROVE  account'.reserved = Estimate * Cardinality(HeldIn(Rows)')
<1> DEFINE R == snapRows[p]
<1>0. op[p].call \in Calls
  BY DEF IInv, SnapInv, CanCommit, Op
<1> PICK c \in Calls : c = op[p].call
  BY <1>0
<1>1. /\ op[p] \in Op /\ account \in Account
  BY DEF IInv, SnapInv, TypeOK, CanCommit
<1>2. OwnKey(op[p]) = ReserveKey(c) /\ ReserveKey(c) \notin Rows
  BY InsertedKeyIsNew DEF OwnKey
<1>3. Rows' = Rows \cup {ReserveKey(c)}
  BY <1>2, RowsAfter
<1>4. WritesAccount(p)
  BY RowsComeWithTheAccount
<1>5. account' = Moved(op[p], account, R) /\ Blind(p)
  BY <1>4, WriterIsFresh DEF Apply, CostAfter
<1>6. account'.reserved = account.reserved + Estimate
  BY <1>5 DEF Moved, ReservedAfter, WritesRow
<1>7. SettleKey(c) \in Rows => SettledUnheld(c)
  <2>1. SettleKey(c) \notin R
    BY DEF WritesRow, Replayed
  <2>2. QED
    BY <1>5, <2>1 DEF Blind
<1>8. \A d \in Calls : SettleKey(d) \in Rows => (SettledUnheld(d)' <=> SettledUnheld(d))
  BY SettledUnheldStable DEF Rows, HasRow
<1>9. HeldIn(Rows)' = HeldIn(Rows) \cup {c} /\ c \notin HeldIn(Rows)
  BY <1>2, <1>3, <1>7, <1>8 DEF HeldIn
<1>10. Cardinality(HeldIn(Rows)') = Cardinality(HeldIn(Rows)) + 1
  BY <1>9, HeldFinite, FS_AddElement
<1>11. account.reserved = Estimate * Cardinality(HeldIn(Rows))
  BY HeldIsHeldIn DEF IInv, ReservedIsHeld
<1>12. QED
  BY <1>6, <1>10, <1>11, HeldFinite, Times

\* Grants and replayed requests leave the holds alone.
LEMMA OtherHeld ==
    ASSUME IInv, NEW p \in Procs, CanCommit(p), Apply(p),
           WritesRow(p) => op[p].kind = "grant"
    PROVE  account'.reserved = Estimate * Cardinality(HeldIn(Rows)')
<1>1. account.reserved = Estimate * Cardinality(HeldIn(Rows))
  BY HeldIsHeldIn DEF IInv, ReservedIsHeld
<1>2. account'.reserved = account.reserved
  <2>1. CASE WritesAccount(p)
    <3>1. account' = Moved(op[p], account, snapRows[p])
      BY <2>1, WriterIsFresh DEF Apply, CostAfter
    <3>2. account \in Account
      BY DEF IInv, TypeOK
    <3>3. CASE WritesRow(p)
      BY <3>1, <3>3 DEF Moved, ReservedAfter, WritesRow
    <3>4. CASE ~WritesRow(p)
      <4>1. CASE op[p].kind = "grant"
        BY <3>1, <3>4, <4>1 DEF Moved, WritesRow
      <4>2. CASE op[p].kind # "grant"
        <5>1. account' = [account EXCEPT !.exists = TRUE]
          BY <3>1, <3>4, <4>2 DEF Moved, WritesRow
        <5>2. QED
          BY <3>2, <5>1 DEF Account
      <4>3. QED
        BY <4>1, <4>2
    <3>5. QED
      BY <3>3, <3>4
  <2>2. CASE ~WritesAccount(p)
    BY <2>2 DEF Apply, CostAfter
  <2>3. QED
    BY <2>1, <2>2
<1>3. \A c \in Calls : /\ ReserveKey(c) \in Rows' <=> ReserveKey(c) \in Rows
                       /\ SettleKey(c) \in Rows' <=> SettleKey(c) \in Rows
  <2>1. CASE WritesRow(p)
    <3>1. OwnKey(op[p]) = GrantKey(op[p].key)
      BY <2>1 DEF OwnKey
    <3>2. QED
      BY <2>1, <3>1, RowsAfter
  <2>2. CASE ~WritesRow(p)
    BY <2>2, RowsAfter
  <2>3. QED
    BY <2>1, <2>2
<1>4. \A d \in Calls : SettleKey(d) \in Rows => (SettledUnheld(d)' <=> SettledUnheld(d))
  BY SettledUnheldStable DEF Rows, HasRow
<1>5. HeldIn(Rows)' = HeldIn(Rows)
  BY <1>3, <1>4 DEF HeldIn
<1>6. QED
  BY <1>1, <1>2, <1>5

LEMMA ApplyKeepsReserved ==
    ASSUME IInv, NEW p \in Procs, CanCommit(p), Apply(p), TypeOK'
    PROVE  ReservedIsHeld'
<1>1. account'.reserved = Estimate * Cardinality(HeldIn(Rows)')
  <2>1. op[p].kind \in {"reserve", "settle", "grant"}
    BY DEF IInv, SnapInv, CanCommit, Op
  <2>2. QED
    BY <2>1, SettleHeld, ReserveHeld, OtherHeld
<1>2. Held' = HeldIn(Rows)'
  BY KeysInRowKeys DEF Held, HeldIn, Rows, HasRow
<1>3. QED
  BY <1>1, <1>2 DEF ReservedIsHeld

LEMMA ApplyKeepsRowInv ==
    ASSUME IInv, NEW p \in Procs, CanCommit(p), Apply(p)
    PROVE  RowInv'
<1>1. op[p] \in Op
  BY DEF IInv, SnapInv, CanCommit
<1>2. SUFFICES ASSUME NEW c \in Calls
               PROVE  /\ HasRow(ReserveKey(c))' => ledger'[ReserveKey(c)].amount = Estimate
                      /\ HasRow(SettleKey(c))' => 0 - ledger'[SettleKey(c)].amount \in Usages
  BY DEF RowInv
<1>3. ASSUME NEW k \in RowKeys, WritesRow(p) => k # OwnKey(op[p])
      PROVE  ledger'[k] = ledger[k]
  BY <1>1, <1>3, OwnKeyInRowKeys DEF Apply, CostAfter, IInv, TypeOK
<1>4. ASSUME WritesRow(p), ReserveKey(c) = OwnKey(op[p])
      PROVE  ledger'[ReserveKey(c)].amount = Estimate
  <2>1. op[p].kind = "reserve"
    BY <1>1, <1>4 DEF OwnKey, Op
  <2>2. NewRow(op[p], snapAccount[p], snapRows[p]).amount = Estimate
    BY <2>1 DEF NewRow
  <2>3. ledger'[ReserveKey(c)] = NewRow(op[p], snapAccount[p], snapRows[p])
    BY <1>4, RowsAfter DEF ReserveKey
  <2>4. QED
    BY <2>2, <2>3
<1>5. ASSUME WritesRow(p), SettleKey(c) = OwnKey(op[p])
      PROVE  0 - ledger'[SettleKey(c)].amount \in Usages
  <2>1. op[p].kind = "settle" /\ op[p].usage \in Usages
    BY <1>1, <1>5 DEF OwnKey, Op
  <2>2. NewRow(op[p], snapAccount[p], snapRows[p]).amount = 0 - op[p].usage
    BY <2>1 DEF NewRow
  <2>3. ledger'[SettleKey(c)] = NewRow(op[p], snapAccount[p], snapRows[p])
    BY <1>5, RowsAfter
  <2>4. op[p].usage \in Nat /\ ledger'[SettleKey(c)].amount = 0 - op[p].usage
    BY <2>1, <2>2, <2>3, UsagesNatural
  <2>5. 0 - ledger'[SettleKey(c)].amount = op[p].usage
    BY <2>4
  <2>6. QED
    BY <2>1, <2>5
<1>6. QED
  BY <1>3, <1>4, <1>5, KeysInRowKeys DEF IInv, RowInv, HasRow

-----------------------------------------------------------------------------
(* Every step keeps the invariant.                                         *)

\* Both committing actions, acknowledged or not.
CommitStep(p) ==
    /\ CanCommit(p)
    /\ Apply(p)
    /\ EndTransaction(p)
    /\ Return(p) \/ RetryOrThrow(p)
    /\ UNCHANGED asked

LEMMA ProcessLeaves ==
    ASSUME TypeOK, NEW p \in Procs, Return(p) \/ RetryOrThrow(p)
    PROVE  /\ pc' \in [Procs -> {"idle", "open", "retry"}]
           /\ op' \in [Procs -> Op \cup {NoOp}]
           /\ attempt' \in [Procs -> 1..MaxAttempts]
           /\ pc'[p] \in {"idle", "retry"}
           /\ pc'[p] # "idle" => op'[p] = op[p]
           /\ \A q \in Procs \ {p} : pc'[q] = pc[q] /\ op'[q] = op[q]
<1>1. CASE Return(p)
  BY <1>1, AttemptsPositive DEF Return, TypeOK
<1>2. CASE attempt[p] < MaxAttempts /\ ~Return(p)
  <2>1. /\ pc' = [pc EXCEPT ![p] = "retry"]
        /\ attempt' = [attempt EXCEPT ![p] = attempt[p] + 1]
        /\ op' = op
    BY <1>2 DEF RetryOrThrow
  <2>2. attempt[p] + 1 \in 1..MaxAttempts
    BY <1>2, AttemptsPositive DEF TypeOK
  <2>3. QED
    BY <2>1, <2>2 DEF TypeOK
<1>3. QED
  BY <1>1, <1>2, AttemptsPositive DEF RetryOrThrow

LEMMA CommitKeepsTypeOK ==
    ASSUME IInv, NEW p \in Procs, CommitStep(p)
    PROVE  TypeOK'
<1> USE DEF CommitStep
<1>1. /\ op[p] \in Op /\ snapRows[p] \in SUBSET Rows /\ snapAccount[p] \in Account
      /\ TypeOK
  BY DEF IInv, SnapInv, TypeOK, CanCommit
<1>2. account' \in Account
  BY <1>1, MovedType DEF Apply, CostAfter, TypeOK
<1>3. ledger' \in [RowKeys -> Row \cup {NoRow}]
  BY RowsAfter
<1>4. cost' \in [Calls -> Nat]
  <2>1. CASE WritesRow(p) /\ op[p].kind = "settle"
    <3>1. op[p].usage \in Nat /\ op[p].call \in Calls
      BY <1>1, <2>1, UsagesNatural DEF Op
    <3>2. QED
      BY <2>1, <3>1 DEF Apply, CostAfter, IInv, TypeOK
  <2>2. CASE ~(WritesRow(p) /\ op[p].kind = "settle")
    BY <2>2 DEF Apply, CostAfter, IInv, TypeOK
  <2>3. QED
    BY <2>1, <2>2
<1>5. snapAccount' \in [Procs -> Account] /\ snapRows' \in [Procs -> SUBSET RowKeys]
  <2>1. NoAccount \in Account
    BY DEF NoAccount, Account
  <2>2. QED
    BY <1>1, <2>1 DEF EndTransaction, TypeOK
<1>6. stale' \in [Procs -> BOOLEAN]
  BY DEF Apply, CostAfter
<1>7. asked' \in 0..MaxRequests
  BY <1>1 DEF TypeOK
<1>8. QED
  BY <1>1, <1>2, <1>3, <1>4, <1>5, <1>6, <1>7, ProcessLeaves DEF TypeOK

\* A transaction that has just ended satisfies SnapInv trivially.
LEMMA EndedSnapInv ==
    ASSUME IInv, NEW p \in Procs, EndTransaction(p), Return(p) \/ RetryOrThrow(p), pc[p] # "idle"
    PROVE  SnapInv(p)'
<1>1. snapAccount'[p] = NoAccount /\ snapRows'[p] = {}
  BY DEF EndTransaction, IInv, TypeOK
<1>2. HeldIn(snapRows[p])' = {}
  BY <1>1 DEF HeldIn
<1>3. snapAccount'[p].reserved = Estimate * Cardinality(HeldIn(snapRows[p])')
  <2>1. Cardinality(HeldIn(snapRows[p])') = 0
    BY <1>2, FS_EmptySet
  <2>2. Estimate * 0 = 0
    BY Times
  <2>3. QED
    BY <1>1, <2>1, <2>2 DEF NoAccount
<1>4. /\ pc'[p] \in {"idle", "retry"}
      /\ pc'[p] # "idle" => op'[p] \in Op
  BY ProcessLeaves DEF IInv, SnapInv
<1>5. QED
  BY <1>1, <1>3, <1>4 DEF SnapInv

LEMMA CommitKeepsOtherSnapshots ==
    ASSUME IInv, NEW p \in Procs, CommitStep(p), NEW q \in Procs \ {p}
    PROVE  SnapInv(q)'
<1> USE DEF CommitStep
<1>1. /\ snapAccount'[q] = snapAccount[q] /\ snapRows'[q] = snapRows[q]
      /\ pc'[q] = pc[q] /\ op'[q] = op[q]
      /\ SnapInv(q)
  BY ProcessLeaves DEF EndTransaction, IInv, TypeOK
<1>2. PICK R \in SUBSET Rows : R = snapRows[q]
  BY <1>1 DEF SnapInv
<1>3. HeldIn(snapRows[q])' = HeldIn(snapRows[q])
  <2>1. HeldIn(R)' = HeldIn(R)
    BY HeldInStable
  <2>2. HeldIn(snapRows[q])' = HeldIn(R)'
    BY <1>1, <1>2 DEF HeldIn
  <2>3. QED
    BY <1>2, <2>1, <2>2
<1>4. snapRows'[q] \subseteq Rows'
  BY <1>1, RowsAfter DEF SnapInv
<1>5. ASSUME pc'[q] = "open", ~stale'[q]
      PROVE  snapAccount'[q] = account' /\ Blind(q)'
  <2>1. ~stale[q] /\ ~WritesAccount(p)
    BY <1>1, <1>5 DEF Apply, CostAfter
  <2>2. snapAccount[q] = account /\ account' = account /\ Blind(q)
    BY <1>1, <1>5, <2>1 DEF SnapInv, Apply, CostAfter
  <2>3. ASSUME NEW k \in Rows', k \notin snapRows'[q]
        PROVE  \E c \in Calls : k = SettleKey(c) /\ SettledUnheld(c)'
    <3>1. CASE k \in Rows
      <4>1. PICK c \in Calls : k = SettleKey(c) /\ SettledUnheld(c)
        BY <1>1, <2>2, <2>3, <3>1 DEF Blind
      <4>2. SettledUnheld(c)'
        BY <4>1, SettledUnheldStable DEF SettledUnheld
      <4>3. QED
        BY <4>1, <4>2
    <3>2. CASE k \notin Rows
      <4>1. WritesRow(p) /\ k = OwnKey(op[p])
        BY <2>3, <3>2, RowsAfter
      <4>2. /\ op[p].kind = "settle" /\ op[p].usage = 0
            /\ ReserveKey(op[p].call) \notin snapRows[p]
        BY <2>1, <4>1, RowsComeWithTheAccount
      <4>3. op[p].call \in Calls
        BY <4>2 DEF IInv, SnapInv, CanCommit, Op
      <4>4. PICK c \in Calls : c = op[p].call
        BY <4>3
      <4>5. k = SettleKey(c) /\ ledger'[k] = NewRow(op[p], snapAccount[p], snapRows[p])
        BY <4>1, <4>2, <4>4, RowsAfter DEF OwnKey
      <4>6. HoldSeen(op[p], snapRows[p]) = 0
        BY <4>2 DEF HoldSeen
      <4>7. ledger'[k].amount = 0 /\ ledger'[k].refund = 0
        <5>1. /\ NewRow(op[p], snapAccount[p], snapRows[p]).amount = 0 - op[p].usage
              /\ NewRow(op[p], snapAccount[p], snapRows[p]).refund
                    = Positive(HoldSeen(op[p], snapRows[p]) - op[p].usage)
          BY <4>2 DEF NewRow
        <5>2. 0 - op[p].usage = 0
          BY <4>2
        <5>3. Positive(HoldSeen(op[p], snapRows[p]) - op[p].usage) = 0
          BY <4>2, <4>6 DEF Positive
        <5>4. QED
          BY <4>5, <5>1, <5>2, <5>3
      <4>8. SettledUnheld(c)'
        BY <2>3, <4>5, <4>7 DEF SettledUnheld, HasRow, Rows
      <4>9. QED
        BY <4>5, <4>8
    <3>3. QED
      BY <3>1, <3>2
  <2>4. Blind(q)'
    BY <2>3 DEF Blind
  <2>5. QED
    BY <1>1, <2>2, <2>4
<1>6. QED
  BY <1>1, <1>3, <1>4, <1>5 DEF SnapInv

LEMMA CommitKeepsIInv ==
    ASSUME IInv, NEW p \in Procs, CommitStep(p)
    PROVE  IInv'
<1> USE DEF CommitStep
<1>1. TypeOK'
  BY CommitKeepsTypeOK
<1>2. RowInv' /\ ReservedIsHeld'
  BY <1>1, ApplyKeepsRowInv, ApplyKeepsReserved
<1>3. SnapInv(p)'
  BY EndedSnapInv DEF CanCommit
<1>4. \A q \in Procs : SnapInv(q)'
  BY <1>3, CommitKeepsOtherSnapshots
<1>5. QED
  BY <1>1, <1>2, <1>4 DEF IInv

\* Steps that leave the ledger alone keep what is said of it.
LEMMA SameLedger ==
    ASSUME IInv, ledger' = ledger, account'.reserved = account.reserved
    PROVE  /\ RowInv' /\ ReservedIsHeld' /\ Rows' = Rows
           /\ \A c \in Calls : SettledUnheld(c)' <=> SettledUnheld(c)
<1>1. \A c \in Calls : SettledUnheld(c)' <=> SettledUnheld(c)
  BY DEF SettledUnheld, HasRow
<1>2. Held' = Held
  BY DEF Held, SettledUnheld, HasRow
<1>3. QED
  BY <1>1, <1>2 DEF IInv, RowInv, ReservedIsHeld, Rows, HasRow

\* A transaction begins: its snapshot is the committed state.
LEMMA SnapshotKeepsIInv ==
    ASSUME IInv, NEW p \in Procs, TakeSnapshot(p), UNCHANGED <<account, ledger, cost, attempt>>,
           asked' \in 0..MaxRequests, op' \in [Procs -> Op \cup {NoOp}], op'[p] \in Op,
           \A q \in Procs \ {p} : op'[q] = op[q]
    PROVE  IInv'
<1>1. TypeOK'
  <2>1. Rows \in SUBSET RowKeys
    BY DEF Rows
  <2>2. QED
    BY <2>1 DEF TakeSnapshot, IInv, TypeOK
<1>2. /\ RowInv' /\ ReservedIsHeld' /\ Rows' = Rows
      /\ \A c \in Calls : SettledUnheld(c)' <=> SettledUnheld(c)
  BY SameLedger
<1>3. SnapInv(p)'
  <2>1. /\ snapAccount'[p] = account /\ snapRows'[p] = Rows /\ op'[p] \in Op
    BY DEF TakeSnapshot, IInv, TypeOK
  <2>2. HeldIn(snapRows[p])' = HeldIn(Rows)
    BY <1>2, <2>1 DEF HeldIn
  <2>3. account.reserved = Estimate * Cardinality(HeldIn(Rows))
    BY HeldIsHeldIn DEF IInv, ReservedIsHeld
  <2>4. QED
    BY <1>2, <2>1, <2>2, <2>3 DEF SnapInv, Blind
<1>4. ASSUME NEW q \in Procs \ {p}
      PROVE  SnapInv(q)'
  <2>1. /\ snapAccount'[q] = snapAccount[q] /\ snapRows'[q] = snapRows[q]
        /\ pc'[q] = pc[q] /\ op'[q] = op[q] /\ stale'[q] = stale[q]
        /\ SnapInv(q)
    BY DEF TakeSnapshot, IInv, TypeOK
  <2>2. HeldIn(snapRows[q])' = HeldIn(snapRows[q])
    BY <1>2, <2>1 DEF HeldIn
  <2>3. Blind(q) => Blind(q)'
    BY <1>2, <2>1 DEF Blind
  <2>4. QED
    BY <1>2, <2>1, <2>2, <2>3 DEF SnapInv
<1>5. QED
  BY <1>1, <1>2, <1>3, <1>4 DEF IInv

\* A transaction ends without having written anything.
LEMMA AbandonKeepsIInv ==
    ASSUME IInv, NEW p \in Procs, pc[p] # "idle", EndTransaction(p),
           stale' = [stale EXCEPT ![p] = FALSE], Return(p) \/ RetryOrThrow(p),
           UNCHANGED <<account, ledger, cost, asked>>
    PROVE  IInv'
<1>1. TypeOK'
  <2>1. NoAccount \in Account
    BY DEF NoAccount, Account
  <2>2. snapAccount' \in [Procs -> Account] /\ snapRows' \in [Procs -> SUBSET RowKeys]
    BY <2>1 DEF EndTransaction, IInv, TypeOK
  <2>3. QED
    BY <2>2, ProcessLeaves DEF IInv, TypeOK
<1>2. /\ RowInv' /\ ReservedIsHeld' /\ Rows' = Rows
      /\ \A c \in Calls : SettledUnheld(c)' <=> SettledUnheld(c)
  BY SameLedger
<1>3. SnapInv(p)'
  BY EndedSnapInv
<1>4. ASSUME NEW q \in Procs \ {p}
      PROVE  SnapInv(q)'
  <2>1. /\ snapAccount'[q] = snapAccount[q] /\ snapRows'[q] = snapRows[q]
        /\ pc'[q] = pc[q] /\ op'[q] = op[q] /\ stale'[q] = stale[q]
        /\ SnapInv(q)
    BY ProcessLeaves DEF EndTransaction, IInv, TypeOK
  <2>2. HeldIn(snapRows[q])' = HeldIn(snapRows[q])
    BY <1>2, <2>1 DEF HeldIn
  <2>3. Blind(q) => Blind(q)'
    BY <1>2, <2>1 DEF Blind
  <2>4. QED
    BY <1>2, <2>1, <2>2, <2>3 DEF SnapInv
<1>5. QED
  BY <1>1, <1>2, <1>3, <1>4 DEF IInv

LEMMA EnsureKeepsIInv ==
    ASSUME IInv, EnsureAccount
    PROVE  IInv'
<1>1. account' \in Account /\ account'.reserved = account.reserved
  BY DEF EnsureAccount, IInv, TypeOK, Account
<1>2. TypeOK'
  BY <1>1 DEF EnsureAccount, IInv, TypeOK
<1>3. /\ RowInv' /\ ReservedIsHeld' /\ Rows' = Rows
      /\ \A c \in Calls : SettledUnheld(c)' <=> SettledUnheld(c)
  BY <1>1, SameLedger DEF EnsureAccount
<1>4. ASSUME NEW q \in Procs
      PROVE  SnapInv(q)'
  <2>1. HeldIn(snapRows[q])' = HeldIn(snapRows[q])
    BY <1>3 DEF HeldIn, EnsureAccount
  <2>2. pc'[q] = "open" => stale'[q]
    BY DEF EnsureAccount
  <2>3. QED
    BY <1>3, <2>1, <2>2 DEF SnapInv, EnsureAccount, IInv
<1>5. QED
  BY <1>2, <1>3, <1>4 DEF IInv

LEMMA InitIInv == Init => IInv
<1> SUFFICES ASSUME Init PROVE IInv
  OBVIOUS
<1>1. Rows = {} /\ Held = {} /\ \A p \in Procs : HeldIn(snapRows[p]) = {}
  BY KeysInRowKeys DEF Init, Rows, Held, HasRow, HeldIn
<1>2. TypeOK
  BY AttemptsPositive, RequestsNatural DEF Init, TypeOK, NoAccount, Account
<1>3. Estimate * Cardinality({}) = 0
  BY FS_EmptySet, Times
<1>4. RowInv
  BY KeysInRowKeys DEF Init, RowInv, HasRow
<1>5. QED
  BY <1>1, <1>2, <1>3, <1>4 DEF Init, IInv, SnapInv, ReservedIsHeld, NoAccount

LEMMA NextIInv == IInv /\ [Next]_vars => IInv'
<1> SUFFICES ASSUME IInv, [Next]_vars PROVE IInv'
  OBVIOUS
<1>1. ASSUME NEW p \in Procs, NEW o \in Op, Request(p, o) PROVE IInv'
  <2>1. /\ asked' \in 0..MaxRequests /\ op' \in [Procs -> Op \cup {NoOp}] /\ op'[p] \in Op
        /\ \A q \in Procs \ {p} : op'[q] = op[q]
    BY <1>1, RequestsNatural DEF Request, IInv, TypeOK
  <2>2. QED
    BY <1>1, <2>1, SnapshotKeepsIInv DEF Request
<1>2. ASSUME NEW p \in Procs, Retry(p) PROVE IInv'
  <2>1. /\ asked' \in 0..MaxRequests /\ op' \in [Procs -> Op \cup {NoOp}] /\ op'[p] \in Op
        /\ \A q \in Procs \ {p} : op'[q] = op[q]
    BY <1>2 DEF Retry, IInv, TypeOK, SnapInv
  <2>2. QED
    BY <1>2, <2>1, SnapshotKeepsIInv DEF Retry
<1>3. ASSUME NEW p \in Procs, Commit(p) \/ CommitUnacknowledged(p) PROVE IInv'
  BY <1>3, CommitKeepsIInv DEF Commit, CommitUnacknowledged, CommitStep
<1>4. ASSUME NEW p \in Procs, AbortTransient(p) \/ Fail(p) PROVE IInv'
  BY <1>4, AbandonKeepsIInv DEF AbortTransient, Fail
<1>5. CASE EnsureAccount
  BY <1>5, EnsureKeepsIInv
<1>6. CASE UNCHANGED vars
  <2>1. /\ RowInv' /\ ReservedIsHeld' /\ Rows' = Rows
        /\ \A c \in Calls : SettledUnheld(c)' <=> SettledUnheld(c)
    BY <1>6, SameLedger DEF vars
  <2>2. TypeOK'
    BY <1>6 DEF IInv, TypeOK, vars
  <2>3. ASSUME NEW q \in Procs
        PROVE  SnapInv(q)'
    <3>1. HeldIn(snapRows[q])' = HeldIn(snapRows[q])
      BY <1>6, <2>1 DEF HeldIn, vars
    <3>2. Blind(q) => Blind(q)'
      BY <1>6, <2>1 DEF Blind, vars
    <3>3. QED
      BY <1>6, <2>1, <3>1, <3>2 DEF IInv, SnapInv, vars
  <2>4. QED
    BY <2>1, <2>2, <2>3 DEF IInv
<1>7. QED
  BY <1>1, <1>2, <1>3, <1>4, <1>5, <1>6 DEF Next

\* IInv is an invariant of the specification: the strengthening all the
\* theorems below rest on.
THEOREM InductiveInvariant == Spec => []IInv
BY InitIInv, NextIInv, PTL DEF Spec

\* Every variable keeps its type: no balance leaves the integers, no hold total
\* goes negative, no attempt counter passes maxRetries.
THEOREM TypeCorrect == Spec => []TypeOK
<1>1. IInv => TypeOK
  BY DEF IInv
<1>2. QED
  BY <1>1, InductiveInvariant, PTL

\* reservedCredits is exactly the estimate times the number of calls whose hold
\* no settlement has released, for any number of calls, concurrent requests,
\* retries and unacknowledged commits.
THEOREM ReservedIsHeldAlways == Spec => []ReservedIsHeld
<1>1. IInv => ReservedIsHeld
  BY DEF IInv
<1>2. QED
  BY <1>1, InductiveInvariant, PTL

-----------------------------------------------------------------------------
(* Money and rows.                                                         *)

\* A commit moves the CURRENT account by what the work computed from its
\* snapshot, even when the work did not write the account.
LEMMA CommitMoves ==
    ASSUME IInv, NEW p \in Procs, CanCommit(p), Apply(p)
    PROVE  /\ ~WritesRow(p) => /\ ledger' = ledger
                               /\ account'.balance = account.balance
                               /\ account'.reserved = account.reserved
           /\ WritesRow(p) =>
                /\ account'.balance = account.balance + BalanceChange(op[p], snapRows[p])
                /\ account'.reserved = ReservedAfter(op[p], account.reserved, snapRows[p])
<1>1. account \in Account /\ account.balance \in Int /\ account.reserved \in Nat
  BY DEF IInv, TypeOK, Account
<1>2. CASE WritesAccount(p)
  <2>1. account' = Moved(op[p], account, snapRows[p])
    BY <1>2, WriterIsFresh DEF Apply, CostAfter
  <2>2. CASE WritesRow(p)
    BY <2>1, <2>2 DEF Moved, WritesRow
  <2>3. CASE ~WritesRow(p) /\ op[p].kind = "grant"
    BY <2>1, <2>3 DEF Moved, WritesRow, Apply, CostAfter
  <2>4. CASE ~WritesRow(p) /\ op[p].kind # "grant"
    <3>1. account' = [account EXCEPT !.exists = TRUE]
      BY <2>1, <2>4 DEF Moved, WritesRow
    <3>2. QED
      BY <1>1, <2>4, <3>1 DEF Account, Apply, CostAfter
  <2>5. QED
    BY <2>2, <2>3, <2>4
<1>3. CASE ~WritesAccount(p) /\ WritesRow(p)
  <2>1. /\ op[p].kind = "settle" /\ op[p].usage = 0
        /\ HoldSeen(op[p], snapRows[p]) = 0
    BY <1>3, RowsComeWithTheAccount DEF HoldSeen
  <2>2. /\ BalanceChange(op[p], snapRows[p]) = 0
        /\ ReservedAfter(op[p], account.reserved, snapRows[p]) = account.reserved
    BY <1>1, <2>1 DEF BalanceChange, ReservedAfter, Positive
  <2>3. account' = account
    BY <1>3 DEF Apply, CostAfter
  <2>4. QED
    BY <1>1, <1>3, <2>2, <2>3
<1>4. CASE ~WritesAccount(p) /\ ~WritesRow(p)
  BY <1>4 DEF Apply, CostAfter
<1>5. QED
  BY <1>2, <1>3, <1>4

\* The clamp at zero in settleCallCredits never bites.
LEMMA ClampNeverBites ==
    ASSUME IInv, NEW p \in Procs, CanCommit(p), WritesRow(p), op[p].kind = "settle"
    PROVE  /\ HoldSeen(op[p], snapRows[p]) \in {0, Estimate}
           /\ HoldSeen(op[p], snapRows[p]) <= account.reserved
<1>0. op[p].call \in Calls
  BY DEF IInv, SnapInv, CanCommit, Op
<1> PICK c \in Calls : c = op[p].call
  BY <1>0
<1>1. account.reserved = Estimate * Cardinality(HeldIn(Rows)) /\ account.reserved \in Nat
  BY HeldIsHeldIn DEF IInv, ReservedIsHeld, TypeOK, Account
<1>2. CASE ReserveKey(c) \in snapRows[p]
  <2>1. ReserveKey(c) \in Rows /\ HoldSeen(op[p], snapRows[p]) = Estimate
    BY <1>2 DEF IInv, SnapInv, RowInv, Rows, HasRow, HoldSeen
  <2>2. SettleKey(c) \notin Rows
    BY InsertedKeyIsNew DEF OwnKey
  <2>3. c \in HeldIn(Rows)
    BY <2>1, <2>2 DEF HeldIn
  <2>4. Cardinality(HeldIn(Rows)) \in Nat /\ Cardinality(HeldIn(Rows)) > 0
    BY <2>3, HeldFinite, FS_EmptySet
  <2>5. QED
    BY <1>1, <2>1, <2>4, Times
<1>3. CASE ReserveKey(c) \notin snapRows[p]
  BY <1>1, <1>3 DEF HoldSeen
<1>4. QED
  BY <1>2, <1>3

LEMMA CommitMovesMoneyWithRows ==
    ASSUME IInv, NEW p \in Procs, CanCommit(p), Apply(p), WritesRow(p)
    PROVE  (account'.balance + account'.reserved) - (account.balance + account.reserved)
                = Effect(OwnKey(op[p]), ledger'[OwnKey(op[p])])
<1> DEFINE o == op[p]
           R == snapRows[p]
           row == NewRow(o, snapAccount[p], R)
<1>1. /\ account.balance \in Int /\ account.reserved \in Nat /\ o \in Op
      /\ ledger'[OwnKey(o)] = row
  BY RowsAfter DEF IInv, TypeOK, Account, SnapInv, CanCommit
<1>2. /\ account'.balance = account.balance + BalanceChange(o, R)
      /\ account'.reserved = ReservedAfter(o, account.reserved, R)
  BY CommitMoves
<1>3. CASE o.kind = "reserve"
  <2>1. OwnKey(o) \in {ReserveKey(c) : c \in Calls}
    BY <1>1, <1>3 DEF OwnKey, Op
  <2>2. Effect(OwnKey(o), row) = 0
    BY <2>1 DEF Effect
  <2>3. /\ account'.balance = account.balance + (0 - Estimate)
        /\ account'.reserved = account.reserved + Estimate
    BY <1>2, <1>3 DEF BalanceChange, ReservedAfter
  <2>4. QED
    BY <1>1, <2>2, <2>3, EstimatePositive
<1>4. CASE o.kind = "settle"
  <2>1. OwnKey(o) \notin {ReserveKey(c) : c \in Calls} /\ o.usage \in Nat
    BY <1>1, <1>4, UsagesNatural DEF OwnKey, Op
  <2>2. Effect(OwnKey(o), row) = 0 - o.usage
    <3>1. row.amount = 0 - o.usage
      BY <1>4 DEF NewRow
    <3>2. QED
      BY <2>1, <3>1 DEF Effect
  <2>3. /\ account'.balance = account.balance + (HoldSeen(o, R) - o.usage)
        /\ account'.reserved = Positive(account.reserved - HoldSeen(o, R))
    BY <1>2, <1>4 DEF BalanceChange, ReservedAfter
  <2>4. /\ HoldSeen(o, R) \in Nat
        /\ Positive(account.reserved - HoldSeen(o, R)) = account.reserved - HoldSeen(o, R)
    BY <1>1, <1>4, ClampNeverBites, EstimatePositive DEF Positive
  <2>5. QED
    BY <1>1, <2>1, <2>2, <2>3, <2>4
<1>5. CASE o.kind = "grant"
  <2>1. OwnKey(o) \notin {ReserveKey(c) : c \in Calls} /\ o.amount \in Int
    BY <1>1, <1>5, AmountsNonZero DEF OwnKey, Op
  <2>2. Effect(OwnKey(o), row) = o.amount
    <3>1. row.amount = o.amount
      BY <1>5 DEF NewRow
    <3>2. QED
      BY <2>1, <3>1 DEF Effect
  <2>3. /\ account'.balance = account.balance + o.amount
        /\ account'.reserved = account.reserved
    BY <1>2, <1>5 DEF BalanceChange, ReservedAfter
  <2>4. QED
    BY <1>1, <2>1, <2>2, <2>3
<1>6. QED
  BY <1>1, <1>3, <1>4, <1>5 DEF Op

\* No step creates or destroys credits: balance + reserved moves only with a
\* new ledger row, and by that row's amount (a hold's row by nothing).
THEOREM MoneyMoves == Spec => MoneyMovesWithRows
<1> DEFINE moved == (account'.balance + account'.reserved)
                        - (account.balance + account.reserved)
           Good == \/ ledger' = ledger /\ moved = 0
                   \/ \E k \in RowKeys :
                        /\ ~HasRow(k)
                        /\ ledger'[k] # NoRow
                        /\ \A j \in RowKeys \ {k} : ledger'[j] = ledger[j]
                        /\ moved = Effect(k, ledger'[k])
<1>1. ASSUME IInv, [Next]_vars PROVE [Good]_vars
  <2>0. account.balance \in Int /\ account.reserved \in Nat /\ IInv /\ [Next]_vars
    BY <1>1 DEF IInv, TypeOK, Account
  <2>1. ASSUME UNCHANGED <<account, ledger>> PROVE Good
    BY <2>0, <2>1
  <2>2. ASSUME NEW p \in Procs, CommitStep(p) PROVE Good
    <3>1. CanCommit(p) /\ Apply(p)
      BY <2>2 DEF CommitStep
    <3>2. CASE ~WritesRow(p)
      BY <2>0, <3>1, <3>2, CommitMoves
    <3>3. CASE WritesRow(p)
      <4>1. OwnKey(op[p]) \in RowKeys /\ OwnKey(op[p]) \notin Rows
        BY <2>0, <3>1, <3>3, InsertedKeyIsNew
      <4>2. PICK k \in RowKeys : k = OwnKey(op[p]) /\ k \notin Rows
        BY <4>1
      <4>3. ~HasRow(k) /\ ledger'[k] # NoRow
        BY <2>0, <3>1, <3>3, <4>2, RowsAfter DEF HasRow, Rows
      <4>4. \A j \in RowKeys \ {k} : ledger'[j] = ledger[j]
        BY <2>0, <3>1, <3>3, <4>2 DEF Apply, CostAfter, IInv, TypeOK
      <4>5. moved = Effect(k, ledger'[k])
        BY <2>0, <3>1, <3>3, <4>2, CommitMovesMoneyWithRows
      <4>6. QED
        BY <4>3, <4>4, <4>5
    <3>4. QED
      BY <3>2, <3>3
  <2>3. ASSUME EnsureAccount PROVE Good
    <3>1. /\ ledger' = ledger /\ account'.balance = account.balance
          /\ account'.reserved = account.reserved
      BY <2>0, <2>3 DEF EnsureAccount, IInv, TypeOK, Account
    <3>2. QED
      BY <2>0, <3>1
  <2>4. QED
    BY <2>0, <2>1, <2>2, <2>3
       DEF Next, Request, Retry, Commit, CommitUnacknowledged, CommitStep, AbortTransient, Fail
<1>2. QED
  BY <1>1, InductiveInvariant, PTL DEF Spec, MoneyMovesWithRows

\* A call's costCredits is the charge of its one settlement, in every state.
THEOREM CostIsChargeAlways == Spec => []CostIsCharge
<1>1. Init => CostIsCharge
  BY KeysInRowKeys DEF Init, CostIsCharge, HasRow
<1>2. ASSUME IInv, CostIsCharge, [Next]_vars PROVE CostIsCharge'
  <2>0. IInv /\ CostIsCharge /\ [Next]_vars
    BY <1>2
  <2>1. ASSUME UNCHANGED <<ledger, cost>> PROVE CostIsCharge'
    BY <2>0, <2>1 DEF CostIsCharge, HasRow
  <2>2. ASSUME NEW p \in Procs, CanCommit(p), Apply(p) PROVE CostIsCharge'
    <3>1. op[p] \in Op
      BY <2>0, <2>2 DEF IInv, SnapInv, CanCommit
    <3>2. SUFFICES ASSUME NEW c \in Calls
                   PROVE  cost'[c] = IF HasRow(SettleKey(c))'
                                     THEN 0 - ledger'[SettleKey(c)].amount ELSE 0
      BY DEF CostIsCharge
    <3>3. CASE WritesRow(p) /\ OwnKey(op[p]) = SettleKey(c)
      <4>1. op[p].kind = "settle" /\ op[p].call = c /\ op[p].usage \in Nat
        BY <3>1, <3>3, UsagesNatural DEF OwnKey, Op
      <4>2. cost'[c] = op[p].usage
        BY <2>0, <2>2, <3>3, <4>1 DEF Apply, CostAfter, IInv, TypeOK
      <4>3. ledger'[SettleKey(c)] = NewRow(op[p], snapAccount[p], snapRows[p])
        BY <2>0, <2>2, <3>3, RowsAfter
      <4>4. NewRow(op[p], snapAccount[p], snapRows[p]).amount = 0 - op[p].usage
        BY <4>1 DEF NewRow
      <4>5. HasRow(SettleKey(c))'
        BY <2>0, <2>2, <3>3, RowsAfter DEF Rows, HasRow
      <4>6. 0 - ledger'[SettleKey(c)].amount = op[p].usage
        BY <4>1, <4>3, <4>4
      <4>7. QED
        BY <4>2, <4>5, <4>6
    <3>4. CASE ~(WritesRow(p) /\ OwnKey(op[p]) = SettleKey(c))
      <4>1. ledger'[SettleKey(c)] = ledger[SettleKey(c)]
        BY <2>0, <2>2, <3>1, <3>4, OwnKeyInRowKeys, KeysInRowKeys DEF Apply, CostAfter, IInv, TypeOK
      <4>2. cost'[c] = cost[c]
        BY <2>0, <2>2, <3>1, <3>4 DEF Apply, CostAfter, IInv, TypeOK, OwnKey, Op
      <4>3. QED
        BY <2>0, <4>1, <4>2 DEF CostIsCharge, HasRow
    <3>5. QED
      BY <3>3, <3>4
  <2>3. QED
    BY <2>0, <2>1, <2>2
       DEF Next, vars, Request, Retry, Commit, CommitUnacknowledged, AbortTransient, Fail,
           EnsureAccount
<1>3. QED
  BY <1>1, <1>2, InductiveInvariant, PTL DEF Spec

-----------------------------------------------------------------------------
(* Refinement of the atomic account.                                       *)

\* The stage of a call none of whose rows a commit inserts stays what it was.
LEMMA OtherStages ==
    ASSUME IInv, NEW p \in Procs, CanCommit(p), Apply(p), NEW d \in Calls,
           WritesRow(p) => OwnKey(op[p]) \notin {ReserveKey(d), SettleKey(d)}
    PROVE  StageOf(d)' = StageOf(d)
<1>1. ReserveKey(d) \in RowKeys /\ SettleKey(d) \in RowKeys
  BY KeysInRowKeys
<1>2. /\ HasRow(SettleKey(d))' <=> HasRow(SettleKey(d))
      /\ HasRow(ReserveKey(d))' <=> HasRow(ReserveKey(d))
  BY <1>1, RowsAfter DEF Rows, HasRow
<1>3. SettledUnheld(d)' <=> SettledUnheld(d)
  <2>1. CASE HasRow(SettleKey(d))
    BY <2>1, SettledUnheldStable
  <2>2. CASE ~HasRow(SettleKey(d))
    BY <1>2, <2>2 DEF SettledUnheld
  <2>3. QED
    BY <2>1, <2>2
<1>4. QED
  BY <1>2, <1>3 DEF StageOf

\* So does a grant key.
LEMMA OtherGrants ==
    ASSUME IInv, NEW p \in Procs, CanCommit(p), Apply(p), NEW k \in GrantKeys \cup {NoKey},
           WritesRow(p) => OwnKey(op[p]) # GrantKey(k)
    PROVE  HasRow(GrantKey(k))' <=> HasRow(GrantKey(k))
<1>1. GrantKey(k) \in RowKeys
  BY KeysInRowKeys
<1>2. QED
  BY <1>1, RowsAfter DEF Rows, HasRow

\* A commit lets only the requests of its own call miss it.
LEMMA MeetingAfterCommit ==
    ASSUME IInv, NEW p \in Procs, CommitStep(p)
    PROVE  /\ WritesRow(p) /\ op[p].kind # "grant" => Meeting' \subseteq Meeting \cup {op[p].call}
           /\ ~WritesRow(p) \/ op[p].kind = "grant" => Meeting' \subseteq Meeting
<1>1. op[p] \in Op
  BY DEF IInv, SnapInv, CommitStep, CanCommit
<1>2. ASSUME NEW c \in Calls, c \in Meeting', c \notin Meeting
      PROVE  WritesRow(p) /\ op[p].kind # "grant" /\ c = op[p].call
  <2>1. PICK q \in Procs : Missed(q, c)'
    BY <1>2 DEF Meeting
  <2>2. q # p
    BY <2>1, ProcessLeaves DEF Missed, IInv, CommitStep
  <2>3. pc'[q] = pc[q] /\ op'[q] = op[q] /\ snapRows'[q] = snapRows[q]
    BY <2>2, ProcessLeaves DEF IInv, TypeOK, CommitStep, EndTransaction
  <2>4. PICK k \in {ReserveKey(c), SettleKey(c)} : k \in Rows' /\ k \notin snapRows[q]
    BY <2>1, <2>3 DEF Missed
  <2>5. ~Missed(q, c)
    BY <1>2 DEF Meeting
  <2>6. pc[q] = "open" /\ op[q].kind \in {"reserve", "settle"} /\ op[q].call = c
    BY <2>1, <2>3 DEF Missed
  <2>7. k \notin Rows
    BY <2>4, <2>5, <2>6 DEF Missed
  <2>8. WritesRow(p) /\ k = OwnKey(op[p])
    BY <2>4, <2>7, RowsAfter DEF CommitStep
  <2>9. QED
    BY <1>1, <2>4, <2>8 DEF OwnKey, Op
<1>3. Meeting' \subseteq Calls
  BY DEF Meeting
<1>4. QED
  BY <1>2, <1>3

\* A step that adds no row and takes only fresh snapshots lets nothing be missed.
LEMMA MeetingShrinks ==
    ASSUME ledger' = ledger,
           \A q \in Procs : pc'[q] = "open" =>
                \/ pc[q] = "open" /\ op'[q] = op[q] /\ snapRows'[q] = snapRows[q]
                \/ snapRows'[q] = Rows
    PROVE  Meeting' \subseteq Meeting
<1>1. Rows' = Rows
  BY DEF Rows
<1>2. ASSUME NEW c \in Calls, NEW q \in Procs, Missed(q, c)'
      PROVE  Missed(q, c)
  BY <1>1, <1>2 DEF Missed
<1>3. QED
  BY <1>2 DEF Meeting

LEMMA ReserveRefines ==
    ASSUME IInv, NEW p \in Procs, CommitStep(p), WritesRow(p), op[p].kind = "reserve"
    PROVE  Atomic!Next
<1> DEFINE o == op[p]
           R == snapRows[p]
           stage == [d \in Calls |-> StageOf(d)]
           granted == {k \in GrantKeys \cup {NoKey} : HasRow(GrantKey(k))}
<1>1. /\ o \in Op /\ CanCommit(p) /\ Apply(p)
      /\ account.balance \in Int
      /\ account'.balance = account.balance + BalanceChange(o, R)
  BY CommitMoves DEF IInv, SnapInv, CommitStep, CanCommit, TypeOK, Account
<1>2. PICK c \in Calls : c = o.call
  BY <1>1 DEF Op
<1>3. /\ OwnKey(o) = ReserveKey(c) /\ ReserveKey(c) \in RowKeys /\ SettleKey(c) \in RowKeys
      /\ ReserveKey(c) \notin Rows /\ Rows' = Rows \cup {ReserveKey(c)}
      /\ SettleKey(c) \notin R
  BY <1>1, <1>2, InsertedKeyIsNew, RowsAfter, KeysInRowKeys DEF OwnKey, WritesRow, Replayed
<1>4. ~HasRow(ReserveKey(c)) /\ HasRow(ReserveKey(c))' /\ (HasRow(SettleKey(c))' <=> HasRow(SettleKey(c)))
  BY <1>3 DEF HasRow, Rows
<1>5. \A d \in Calls \ {c} : StageOf(d)' = StageOf(d)
  BY <1>1, <1>3, OtherStages
<1>6. granted' = granted
  <2>1. ASSUME NEW k \in GrantKeys \cup {NoKey}
        PROVE  HasRow(GrantKey(k))' <=> HasRow(GrantKey(k))
    <3>1. OwnKey(o) # GrantKey(k)
      BY <1>3
    <3>2. QED
      BY <1>1, <3>1, OtherGrants
  <2>2. QED
    BY <2>1
<1>7. account'.balance = account.balance - Estimate
  BY <1>1, EstimatePositive DEF BalanceChange
<1>8. Meeting' \subseteq Meeting \cup {c}
  BY <1>2, MeetingAfterCommit
<1>9. CASE ~HasRow(SettleKey(c))
  <2>1. StageOf(c) = "open" /\ StageOf(c)' = "held"
    BY <1>4, <1>9 DEF StageOf, SettledUnheld
  <2>2. stage' = [stage EXCEPT ![c] = "held"]
    BY <1>5, <2>1
  <2>3. Atomic!Hold(c)
    BY <1>6, <1>7, <1>8, <2>1, <2>2 DEF Atomic!Hold
  <2>4. QED
    BY <1>8, <2>3 DEF Atomic!Next, Atomic!Request
<1>10. CASE HasRow(SettleKey(c))
  <2>1. SettledUnheld(c)
    <3>1. WritesAccount(p)
      BY <1>1, RowsComeWithTheAccount
    <3>2. Blind(p) /\ SettleKey(c) \in Rows \ R
      BY <1>1, <1>3, <1>10, <3>1, WriterIsFresh DEF Rows, HasRow
    <3>3. QED
      BY <3>2 DEF Blind
  <2>2. SettledUnheld(c)'
    BY <1>1, <1>10, <2>1, SettledUnheldStable
  <2>3. StageOf(c) = "void" /\ StageOf(c)' = "stranded"
    BY <1>4, <1>10, <2>1, <2>2 DEF StageOf
  <2>4. stage' = [stage EXCEPT ![c] = "stranded"]
    BY <1>5, <2>3
  <2>5. c \in Meeting
    BY <1>1, <1>2, <1>3, <1>10 DEF Meeting, Missed, CanCommit, Rows, HasRow
  <2>6. Atomic!HoldLate(c)
    BY <1>6, <1>7, <1>8, <2>3, <2>4, <2>5 DEF Atomic!HoldLate
  <2>7. QED
    BY <1>8, <2>6 DEF Atomic!Next, Atomic!Request
<1>11. QED
  BY <1>9, <1>10

LEMMA SettleRefines ==
    ASSUME IInv, NEW p \in Procs, CommitStep(p), WritesRow(p), op[p].kind = "settle"
    PROVE  Atomic!Next
<1> DEFINE o == op[p]
           R == snapRows[p]
           row == NewRow(o, snapAccount[p], R)
           stage == [d \in Calls |-> StageOf(d)]
           granted == {k \in GrantKeys \cup {NoKey} : HasRow(GrantKey(k))}
<1>1. /\ o \in Op /\ CanCommit(p) /\ Apply(p)
      /\ account.balance \in Int
      /\ account'.balance = account.balance + BalanceChange(o, R)
      /\ R \subseteq Rows
  BY CommitMoves DEF IInv, SnapInv, CommitStep, CanCommit, TypeOK, Account
<1>2. PICK c \in Calls : c = o.call
  BY <1>1 DEF Op
<1>3. PICK usage \in Usages : usage = o.usage
  BY <1>1 DEF Op
<1>4. /\ OwnKey(o) = SettleKey(c) /\ ReserveKey(c) \in RowKeys /\ SettleKey(c) \in RowKeys
      /\ SettleKey(c) \notin Rows /\ Rows' = Rows \cup {SettleKey(c)}
      /\ ledger'[SettleKey(c)] = row
  BY <1>1, <1>2, InsertedKeyIsNew, RowsAfter, KeysInRowKeys DEF OwnKey
<1>5. ~HasRow(SettleKey(c)) /\ HasRow(SettleKey(c))' /\ (HasRow(ReserveKey(c))' <=> HasRow(ReserveKey(c)))
  BY <1>4 DEF HasRow, Rows
<1>6. \A d \in Calls \ {c} : StageOf(d)' = StageOf(d)
  BY <1>1, <1>4, OtherStages
<1>7. granted' = granted
  <2>1. ASSUME NEW k \in GrantKeys \cup {NoKey}
        PROVE  HasRow(GrantKey(k))' <=> HasRow(GrantKey(k))
    <3>1. OwnKey(o) # GrantKey(k)
      BY <1>4
    <3>2. QED
      BY <1>1, <3>1, OtherGrants
  <2>2. QED
    BY <2>1
<1>8. Meeting' \subseteq Meeting \cup {c}
  BY <1>2, MeetingAfterCommit
<1>9. /\ usage \in Nat
      /\ account'.balance = account.balance + (HoldSeen(o, R) - usage)
      /\ SettledUnheld(c)' <=> 0 - usage = 0 /\ Positive(HoldSeen(o, R) - usage) = 0
  <2>1. usage \in Nat
    BY UsagesNatural
  <2>2. row.amount = 0 - usage /\ row.refund = Positive(HoldSeen(o, R) - usage)
    BY <1>3 DEF NewRow
  <2>3. QED
    BY <1>1, <1>3, <1>4, <1>5, <2>1, <2>2 DEF BalanceChange, SettledUnheld
<1>10. CASE ReserveKey(c) \in R
  <2>1. HoldSeen(o, R) = Estimate
    BY <1>1, <1>2, <1>10 DEF HoldSeen, IInv, RowInv, Rows, HasRow
  <2>2. ~SettledUnheld(c)'
    BY <1>9, <2>1, EstimatePositive DEF Positive
  <2>3. HasRow(ReserveKey(c))
    BY <1>1, <1>10 DEF Rows, HasRow
  <2>4. StageOf(c) = "held" /\ StageOf(c)' = "settled"
    BY <1>5, <2>2, <2>3 DEF StageOf, SettledUnheld
  <2>5. stage' = [stage EXCEPT ![c] = "settled"]
    BY <1>6, <2>4
  <2>6. account'.balance = account.balance - usage + Estimate
    BY <1>1, <1>9, <2>1, EstimatePositive
  <2>7. Atomic!Charge(c, usage)
    BY <1>7, <1>8, <2>4, <2>5, <2>6 DEF Atomic!Charge
  <2>8. QED
    BY <1>8, <2>7 DEF Atomic!Next, Atomic!Request
<1>11. CASE ReserveKey(c) \notin Rows
  <2>1. HoldSeen(o, R) = 0
    BY <1>1, <1>2, <1>11 DEF HoldSeen
  <2>2. SettledUnheld(c)' <=> usage = 0
    BY <1>9, <2>1 DEF Positive
  <2>3. ~HasRow(ReserveKey(c))
    BY <1>4, <1>11 DEF Rows, HasRow
  <2>4. StageOf(c) = "open" /\ StageOf(c)' = IF usage = 0 THEN "void" ELSE "settled"
    BY <1>5, <2>2, <2>3 DEF StageOf, SettledUnheld
  <2>5. stage' = [stage EXCEPT ![c] = IF usage = 0 THEN "void" ELSE "settled"]
    BY <1>6, <2>4
  <2>6. account'.balance = account.balance - usage + 0
    BY <1>1, <1>9, <2>1
  <2>7. Atomic!Charge(c, usage)
    BY <1>7, <1>8, <2>4, <2>5, <2>6 DEF Atomic!Charge
  <2>8. QED
    BY <1>8, <2>7 DEF Atomic!Next, Atomic!Request
<1>12. CASE ReserveKey(c) \in Rows \ R
  <2>1. ~WritesAccount(p)
    BY <1>1, <1>12, WriterIsFresh DEF Blind
  <2>2. usage = 0 /\ HoldSeen(o, R) = 0
    BY <1>1, <1>2, <1>3, <1>12, <2>1, RowsComeWithTheAccount DEF HoldSeen
  <2>3. SettledUnheld(c)'
    BY <1>9, <2>2 DEF Positive
  <2>4. HasRow(ReserveKey(c))
    BY <1>12 DEF Rows, HasRow
  <2>5. StageOf(c) = "held" /\ StageOf(c)' = "stranded"
    BY <1>5, <2>3, <2>4 DEF StageOf, SettledUnheld
  <2>6. stage' = [stage EXCEPT ![c] = "stranded"]
    BY <1>6, <2>5
  <2>7. account'.balance = account.balance
    BY <1>1, <1>9, <2>2
  <2>8. c \in Meeting
    BY <1>1, <1>2, <1>12 DEF Meeting, Missed, CanCommit
  <2>9. Atomic!ChargeBlind(c)
    BY <1>7, <1>8, <2>2, <2>5, <2>6, <2>7, <2>8 DEF Atomic!ChargeBlind
  <2>10. QED
    BY <1>8, <2>9 DEF Atomic!Next, Atomic!Request
<1>13. QED
  BY <1>1, <1>10, <1>11, <1>12

LEMMA GrantRefines ==
    ASSUME IInv, NEW p \in Procs, CommitStep(p), WritesRow(p), op[p].kind = "grant"
    PROVE  Atomic!Next
<1> DEFINE o == op[p]
           R == snapRows[p]
           stage == [d \in Calls |-> StageOf(d)]
           granted == {k \in GrantKeys \cup {NoKey} : HasRow(GrantKey(k))}
<1>1. /\ o \in Op /\ CanCommit(p) /\ Apply(p)
      /\ account'.balance = account.balance + BalanceChange(o, R)
  BY CommitMoves DEF IInv, SnapInv, CommitStep, CanCommit
<1>2. PICK k \in GrantKeys \cup {NoKey} : k = o.key
  BY <1>1 DEF Op
<1>3. PICK amount \in Amounts : amount = o.amount
  BY <1>1 DEF Op
<1>4. OwnKey(o) = GrantKey(k) /\ GrantKey(k) \notin Rows /\ Rows' = Rows \cup {GrantKey(k)}
  BY <1>1, <1>2, InsertedKeyIsNew, RowsAfter DEF OwnKey
<1>5. stage' = stage
  <2>1. \A d \in Calls : StageOf(d)' = StageOf(d)
    BY <1>1, <1>4, OtherStages
  <2>2. QED
    BY <2>1
<1>6. k \notin granted /\ granted' = granted \cup {k}
  <2>1. \A j \in GrantKeys \cup {NoKey} : /\ HasRow(GrantKey(j)) <=> GrantKey(j) \in Rows
                                          /\ HasRow(GrantKey(j))' <=> GrantKey(j) \in Rows'
    BY KeysInRowKeys DEF HasRow, Rows
  <2>2. QED
    BY <1>4, <2>1
<1>7. account'.balance = account.balance + amount
  BY <1>1, <1>3 DEF BalanceChange
<1>8. Meeting' \subseteq Meeting
  BY MeetingAfterCommit
<1>9. Atomic!Grant(k, amount)
  BY <1>5, <1>6, <1>7 DEF Atomic!Grant
<1>10. QED
  BY <1>8, <1>9 DEF Atomic!Next

\* Steps that move neither rows nor credits: a request ends or begins.
LEMMA QuietRefines ==
    ASSUME ledger' = ledger, account'.balance = account.balance, Meeting' \subseteq Meeting
    PROVE  Atomic!Next
<1>1. /\ [c \in Calls |-> StageOf(c)]' = [c \in Calls |-> StageOf(c)]
      /\ {k \in GrantKeys \cup {NoKey} : HasRow(GrantKey(k))}'
            = {k \in GrantKeys \cup {NoKey} : HasRow(GrantKey(k))}
  BY DEF StageOf, SettledUnheld, HasRow
<1>2. QED
  BY <1>1 DEF Atomic!Next

LEMMA CommitRefines ==
    ASSUME IInv, NEW p \in Procs, CommitStep(p)
    PROVE  Atomic!Next
<1>1. CASE WritesRow(p)
  <2>1. op[p].kind \in {"reserve", "settle", "grant"}
    BY DEF IInv, SnapInv, CommitStep, CanCommit, Op
  <2>2. QED
    BY <1>1, <2>1, ReserveRefines, SettleRefines, GrantRefines
<1>2. CASE ~WritesRow(p)
  BY <1>2, CommitMoves, MeetingAfterCommit, QuietRefines DEF CommitStep
<1>3. QED
  BY <1>1, <1>2

LEMMA StepRefines ==
    ASSUME IInv, Next
    PROVE  Atomic!Next
<1>1. account.balance \in Int /\ TypeOK
  BY DEF IInv, TypeOK, Account
<1>2. ASSUME NEW p \in Procs, Commit(p) \/ CommitUnacknowledged(p) PROVE Atomic!Next
  BY <1>2, CommitRefines DEF Commit, CommitUnacknowledged, CommitStep
<1>3. ASSUME NEW p \in Procs, NEW o \in Op, Request(p, o) PROVE Atomic!Next
  <2>1. \A q \in Procs : pc'[q] = "open" =>
            \/ pc[q] = "open" /\ op'[q] = op[q] /\ snapRows'[q] = snapRows[q]
            \/ snapRows'[q] = Rows
    BY <1>1, <1>3 DEF Request, TakeSnapshot, TypeOK
  <2>2. QED
    BY <1>3, <2>1, MeetingShrinks, QuietRefines DEF Request
<1>4. ASSUME NEW p \in Procs, Retry(p) PROVE Atomic!Next
  <2>1. \A q \in Procs : pc'[q] = "open" =>
            \/ pc[q] = "open" /\ op'[q] = op[q] /\ snapRows'[q] = snapRows[q]
            \/ snapRows'[q] = Rows
    BY <1>1, <1>4 DEF Retry, TakeSnapshot, TypeOK
  <2>2. QED
    BY <1>4, <2>1, MeetingShrinks, QuietRefines DEF Retry
<1>5. ASSUME NEW p \in Procs, AbortTransient(p) \/ Fail(p) PROVE Atomic!Next
  <2>1. /\ Return(p) \/ RetryOrThrow(p)
        /\ EndTransaction(p) /\ UNCHANGED <<account, ledger>>
    BY <1>5 DEF AbortTransient, Fail
  <2>2. \A q \in Procs : pc'[q] = "open" =>
            pc[q] = "open" /\ op'[q] = op[q] /\ snapRows'[q] = snapRows[q]
    BY <1>1, <2>1, ProcessLeaves DEF EndTransaction, TypeOK
  <2>3. QED
    BY <2>1, <2>2, MeetingShrinks, QuietRefines
<1>6. CASE EnsureAccount
  <2>1. ledger' = ledger /\ account'.balance = account.balance
    BY <1>1, <1>6 DEF EnsureAccount, TypeOK, Account
  <2>2. Meeting' \subseteq Meeting
    BY <1>6, MeetingShrinks DEF EnsureAccount
  <2>3. QED
    BY <2>1, <2>2, QuietRefines
<1>7. QED
  BY <1>2, <1>3, <1>4, <1>5, <1>6 DEF Next

LEMMA StutterRefines ==
    ASSUME UNCHANGED vars
    PROVE  UNCHANGED Atomic!vars
<1>1. UNCHANGED <<account, ledger, pc, op, snapRows>>
  BY DEF vars
<1>2. Meeting' = Meeting
  BY <1>1 DEF Meeting, Missed, Rows
<1>3. QED
  BY <1>1, <1>2 DEF Atomic!vars, StageOf, SettledUnheld, HasRow

\* The repository's concurrent transactions, with their conflicts, retries and
\* unacknowledged commits, implement the account whose requests take effect in
\* one step, a settlement that charges nothing included.
THEOREM LedgerImplementsAtomicAccount == Spec => ImplementsAtomicAccount
<1>1. Init => Atomic!Init
  <2> SUFFICES ASSUME Init PROVE Atomic!Init
    OBVIOUS
  <2>1. \A k \in RowKeys : ~HasRow(k)
    BY DEF Init, HasRow
  <2>2. /\ \A c \in Calls : StageOf(c) = "open"
        /\ \A k \in GrantKeys \cup {NoKey} : ~HasRow(GrantKey(k))
    BY <2>1, KeysInRowKeys DEF StageOf
  <2>3. account.balance = 0 /\ Meeting = {}
    BY DEF Init, NoAccount, Meeting, Missed
  <2>4. QED
    BY <2>2, <2>3 DEF Atomic!Init
<1>2. ASSUME IInv, [Next]_vars PROVE [Atomic!Next]_(Atomic!vars)
  BY <1>2, StepRefines, StutterRefines
<1>3. QED
  BY <1>1, <1>2, InductiveInvariant, PTL DEF Spec, Atomic!Spec, ImplementsAtomicAccount

\* What the barrier of reserveCallCredits achieves: a hold stays behind its
\* settlement only when the settlement charged nothing and the later of the two
\* to commit had begun before the earlier committed.
THEOREM BarrierHolds == Spec => BarrierUnlessTheyMeet
<1>1. ASSUME IInv, Next PROVE StrandsOnlyByMeeting
  <2>1. SUFFICES ASSUME NEW c \in Calls, StageOf(c)' = "stranded", StageOf(c) # "stranded"
                 PROVE  c \in Meeting /\ ledger'[SettleKey(c)].amount = 0
    BY DEF StrandsOnlyByMeeting
  <2>2. ledger'[SettleKey(c)].amount = 0
    BY <2>1 DEF StageOf, SettledUnheld
  <2>3. Atomic!Next
    BY <1>1, StepRefines
  <2>4. c \in Meeting
    BY <2>1, <2>3 DEF Atomic!Next, Atomic!Request, Atomic!Hold, Atomic!HoldLate,
         Atomic!Charge, Atomic!ChargeBlind, Atomic!Grant
  <2>5. QED
    BY <2>2, <2>4
<1>2. QED
  BY <1>1, InductiveInvariant, PTL DEF Spec, BarrierUnlessTheyMeet
=============================================================================
