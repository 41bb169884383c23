------------------------------ MODULE Governors ------------------------------
(***************************************************************************)
(* The worker's dial governors: counters in Redis, one per layer (the      *)
(* whole platform, the organisation, the campaign, the caller's number),   *)
(* each with a limit and a TTL.  A dial takes a slot in all its layers or  *)
(* in none.  Only a dial that does not come about gives its slots back;    *)
(* those of a call that is placed stay until the counter's TTL ends, which *)
(* every admission starts again.                                           *)
(***************************************************************************)
EXTENDS Integers, FiniteSets

CONSTANTS
    Layers,
    LayerLimit,   \* the limit of each layer
    Dials,        \* jobs that dial
    LayersOf,     \* the layers of each
    MaxDialFaults, MaxTries   \* bounds

ASSUME GovernorAssumption ==
    /\ LayerLimit \in [Layers -> Nat]
    /\ IsFiniteSet(Dials) /\ LayersOf \in [Dials -> SUBSET Layers]
    /\ MaxDialFaults \in Nat /\ MaxTries \in Nat

VARIABLES
    count,      \* the counter of each layer; 0 also stands for no key
    ttl,        \* layers whose key has a TTL
    dial,       \* dial[d]: "due" -> "admitted" -> "placed", or "failed" -> "due"
    tries,      \* how often each dial was admitted
    riding,     \* slots per layer that are left to the TTL (history)
    overdue,    \* layers that expired under a dial since they were last idle (history)
    dialFaults

governors == <<count, ttl, dial, tries, riding, overdue, dialFaults>>

GovernorsInit ==
    /\ count = [l \in Layers |-> 0] /\ ttl = {}
    /\ dial = [d \in Dials |-> "due"] /\ tries = [d \in Dials |-> 0]
    /\ riding = [l \in Layers |-> 0] /\ overdue = {} /\ dialFaults = 0

DialFault == dialFaults < MaxDialFaults /\ dialFaults' = dialFaults + 1
DialTo(d, at) == dial' = [dial EXCEPT ![d] = at]

Shift(d, n) == [l \in Layers |-> IF l \in LayersOf[d] THEN n ELSE 0]
Plus(f, g) == [l \in Layers |-> f[l] + g[l]]

\* a mutant: each layer counts as soon as it has admitted
AcquireLayersOneByOne(d) ==
    /\ dial[d] = "due" /\ tries[d] < MaxTries
    /\ \E admitted \in (SUBSET LayersOf[d]) \ {{}} :
          /\ \A l \in admitted : count[l] < LayerLimit[l]
          /\ count' = [l \in Layers |-> IF l \in admitted THEN count[l] + 1 ELSE count[l]]
          /\ ttl' = ttl \cup admitted
          /\ IF admitted = LayersOf[d]
             THEN DialTo(d, "admitted") /\ tries' = [tries EXCEPT ![d] = @ + 1]
             ELSE UNCHANGED <<dial, tries>>
    /\ UNCHANGED <<riding, overdue, dialFaults>>

\* ACQUIRE_SCRIPT: check all layers, then count and set the TTL of all.  A dial that
\* is refused comes back later.
AcquireLayers(d) ==
    /\ dial[d] = "due" /\ tries[d] < MaxTries
    /\ \A l \in LayersOf[d] : count[l] < LayerLimit[l]
    /\ count' = Plus(count, Shift(d, 1))
    /\ ttl' = ttl \cup LayersOf[d]
    /\ DialTo(d, "admitted")
    /\ tries' = [tries EXCEPT ![d] = @ + 1]
    /\ UNCHANGED <<riding, overdue, dialFaults>>

\* The contact is not claimed, no row is minted, or LiveKit does not take the call.
FailToPlace(d) ==
    /\ dial[d] = "admitted"
    /\ DialTo(d, "failed")
    /\ UNCHANGED <<count, ttl, tries, riding, overdue, dialFaults>>

\* release_layers: a DECR per layer in one pipeline, also of a key that is gone, which
\* then counts below zero and has no TTL.  An error is only logged.
ReleaseLayers(d) ==
    /\ dial[d] = "failed"
    /\ \/ count' = Plus(count, Shift(d, -1)) /\ UNCHANGED <<riding, dialFaults>>
       \/ DialFault /\ riding' = Plus(riding, Shift(d, 1)) /\ UNCHANGED count
    /\ DialTo(d, "due")
    /\ UNCHANGED <<ttl, tries, overdue>>

LeaveToTTL(d) ==
    /\ DialTo(d, "placed")
    /\ riding' = Plus(riding, Shift(d, 1))
    /\ UNCHANGED <<count, ttl, tries, overdue>>

\* "Success rides the TTL."
Place(d) == dial[d] = "admitted" /\ LeaveToTTL(d) /\ UNCHANGED dialFaults

\* The worker is killed: nobody gives the slots back.
KillDial(d) == dial[d] \in {"admitted", "failed"} /\ DialFault /\ LeaveToTTL(d)

Pending(l) == {d \in Dials : l \in LayersOf[d] /\ dial[d] \in {"admitted", "failed"}}

\* The shortest TTL is a minute and a dial is given up after fifteen seconds: only a
\* dial that is held up outlasts its slots.
Lapse(l) ==
    /\ l \in ttl
    /\ IF Pending(l) = {} THEN overdue' = overdue \ {l} /\ UNCHANGED dialFaults
                          ELSE overdue' = overdue \cup {l} /\ DialFault
    /\ count' = [count EXCEPT ![l] = 0] /\ ttl' = ttl \ {l}
    /\ riding' = [riding EXCEPT ![l] = 0]
    /\ UNCHANGED <<dial, tries>>

GovernorsNext ==
    \/ \E d \in Dials :
          AcquireLayers(d) \/ FailToPlace(d) \/ ReleaseLayers(d) \/ Place(d) \/ KillDial(d)
    \/ \E l \in Layers : Lapse(l)

-----------------------------------------------------------------------------
\* As long as no layer expires under a dial, each counts exactly the dials under way
\* and those left to its TTL, admits no more than its limit, and has a TTL whenever it
\* counts anything: refusals, retries and failures leave nothing behind, and a slot
\* that leaks is leaked to the TTL ("TTLs bound crash leaks by construction",
\* services/campaign-worker/README.md:55-56).
DialsGoverned ==
    \A l \in Layers \ overdue :
        /\ count[l] = Cardinality(Pending(l)) + riding[l]
        /\ count[l] <= LayerLimit[l]
        /\ count[l] > 0 => l \in ttl
==============================================================================
