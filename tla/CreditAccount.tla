--------------------------- MODULE CreditAccount ---------------------------
(***************************************************************************)
(* What the billing component promises an organisation, with no database   *)
(* in sight: a call is held at most once and charged at most once, the     *)
(* spendable balance moves by exactly the hold, the release and the        *)
(* charge, and nothing stays held for a settled call, with one exception.  *)
(* A settlement that charges nothing writes no account, so it and the      *)
(* call's hold can pass each other unseen when the two requests meet; the  *)
(* hold then stays for good ("stranded").  CreditLedger implements this    *)
(* over concurrent snapshot-isolation transactions.                        *)
(*                                                                         *)
(* Credits are counted in hundredths, the unit the code rounds to.         *)
(***************************************************************************)
EXTENDS Integers

CONSTANTS
    Calls,      \* calls of one organisation
    GrantKeys,  \* idempotency keys a grant may carry
    Estimate,   \* the hold of one call: reserveEstimateCredits()
    Usages,     \* what a settlement may charge: computeUsageCredits() or 0
    Amounts     \* what one grant may add (an adjustment may be negative)

VARIABLES
    balance,    \* spendable credits, holds already taken out
    stage,      \* "open", "held", "settled"; "void": settled for nothing before any
                \* hold; "stranded": settled for nothing, the hold still taken out
    granted,    \* grant keys that have been paid out
    meeting     \* calls with a request under way that has missed one just applied

vars == <<balance, stage, granted, meeting>>

Stages == {"open", "held", "settled", "void", "stranded"}

Init ==
    /\ balance = 0
    /\ stage = [c \in Calls |-> "open"]
    /\ granted = {}
    /\ meeting = {}

Hold(c) ==
    /\ stage[c] = "open"
    /\ stage' = [stage EXCEPT ![c] = "held"]
    /\ balance' = balance - Estimate
    /\ UNCHANGED granted

\* A hold that missed the settlement for nothing.
HoldLate(c) ==
    /\ c \in meeting
    /\ stage[c] = "void"
    /\ stage' = [stage EXCEPT ![c] = "stranded"]
    /\ balance' = balance - Estimate
    /\ UNCHANGED granted

Charge(c, usage) ==
    /\ stage[c] \in {"open", "held"}
    /\ stage' = [stage EXCEPT ![c] =
                    IF stage[c] = "open" /\ usage = 0 THEN "void" ELSE "settled"]
    /\ balance' = balance - usage + (IF stage[c] = "held" THEN Estimate ELSE 0)
    /\ UNCHANGED granted

\* A settlement for nothing that missed the hold.
ChargeBlind(c) ==
    /\ c \in meeting
    /\ 0 \in Usages
    /\ stage[c] = "held"
    /\ stage' = [stage EXCEPT ![c] = "stranded"]
    /\ UNCHANGED <<balance, granted>>

Grant(k, amount) ==
    /\ k \notin granted
    /\ granted' = granted \cup {k}
    /\ balance' = balance + amount
    /\ UNCHANGED stage

\* A request of c takes effect: others of c under way may have missed it.
Request(c) ==
    /\ Hold(c) \/ HoldLate(c) \/ ChargeBlind(c) \/ \E usage \in Usages : Charge(c, usage)
    /\ meeting' \subseteq meeting \cup {c}

\* Requests end without effect (they failed, or found their work done), or credits
\* are granted.
Next ==
    \/ UNCHANGED <<balance, stage, granted>> /\ meeting' \subseteq meeting
    \/ \E c \in Calls : Request(c)
    \/ \E k \in GrantKeys, amount \in Amounts :
          Grant(k, amount) /\ meeting' \subseteq meeting

Spec == Init /\ [][Next]_vars
=============================================================================
