---------------------------- MODULE CampaignDesk ----------------------------
(***************************************************************************)
(* How a campaign is made.  The page of new campaigns sends what its form  *)
(* says, always without contacts; the wizard sends the rows of a sheet and *)
(* then starts the campaign it was given.  The server looks at the rows,   *)
(* stores the contacts one by one and makes the campaign in a transaction. *)
(***************************************************************************)
EXTENDS Integers, Sequences

CONSTANTS
    Phones,
    NoPhone,     \* a row without a number that can be called
    MaxOrders    \* bound

ASSUME DeskAssumption == NoPhone \notin Phones /\ MaxOrders \in Nat

VARIABLES
    form,       \* the page: [step, agents, busy]
    wizard,     \* the wizard: [step, sheet, rows, busy]
    orders,     \* orders[i]: the i-th request to make a campaign and what follows it
    stored,     \* the numbers that are contacts
    staffed,    \* whether the agent of the campaigns is there
    campaigns,  \* campaigns[i]: [rows, sheet, staffed, running]
    sheets,     \* sheets read so far
    untold      \* sheets whose wizard was not told that a campaign of theirs runs, or is
                \* about to: the answer was lost, or was an error (history)

desk == <<form, wizard, orders, stored, staffed, campaigns, sheets, untold>>
books == <<stored, staffed, campaigns>>

DeskInit ==
    /\ form = [step |-> "form", agents |-> FALSE, busy |-> FALSE]
    /\ wizard = [step |-> "details", sheet |-> 0, rows |-> {}, busy |-> FALSE]
    /\ orders = <<>> /\ stored = {} /\ staffed = TRUE /\ campaigns = <<>>
    /\ sheets = 0 /\ untold = {}

OrderTo(i, at) == orders' = [orders EXCEPT ![i].at = at]
Order(by, sheet, rows) ==
    /\ Len(orders) < MaxOrders
    /\ orders' = Append(orders, [by |-> by, sheet |-> sheet, rows |-> rows, at |-> "sent", id |-> 0])

(***************************************************************************)
(* The page.                                                               *)
(***************************************************************************)

\* The agents arrive, and the first is chosen; without any the page cannot launch.
AgentsLoaded ==
    /\ ~form.agents
    /\ form' = [form EXCEPT !.agents = TRUE]
    /\ UNCHANGED <<wizard, orders, books, sheets, untold>>

\* Every step can be gone to from every other.
GoTo(step) ==
    /\ form.step # step
    /\ form' = [form EXCEPT !.step = step]
    /\ UNCHANGED <<wizard, orders, books, sheets, untold>>

\* handleLaunch, and createCampaign, which sends no contacts.
Launch ==
    /\ form.step = "review" /\ form.agents /\ ~form.busy
    /\ form' = [form EXCEPT !.busy = TRUE]
    /\ Order("page", 0, {})
    /\ UNCHANGED <<wizard, books, sheets, untold>>

(***************************************************************************)
(* The wizard.                                                             *)
(***************************************************************************)

NameCampaign ==
    /\ wizard.step = "details"
    /\ wizard' = [wizard EXCEPT !.step = "upload"]
    /\ UNCHANGED <<form, orders, books, sheets, untold>>

\* A sheet is read: rows with a number, of whatever kind, and at least one.
ReadSheet ==
    /\ wizard.step = "upload" /\ sheets < MaxOrders /\ sheets' = sheets + 1
    /\ \E rows \in SUBSET (Phones \cup {NoPhone}) \ {{}} :
          wizard' = [wizard EXCEPT !.step = "review", !.sheet = sheets', !.rows = rows]
    /\ UNCHANGED <<form, orders, books, untold>>

Back ==
    /\ wizard.step # "details" /\ ~wizard.busy
    /\ wizard' = [wizard EXCEPT !.step = IF @ = "review" THEN "upload" ELSE "details"]
    /\ UNCHANGED <<form, orders, books, sheets, untold>>

CreateAndLaunch ==
    /\ wizard.step = "review" /\ ~wizard.busy
    /\ wizard' = [wizard EXCEPT !.busy = TRUE]
    /\ Order("wizard", wizard.sheet, wizard.rows)
    /\ UNCHANGED <<form, books, sheets, untold>>

(***************************************************************************)
(* The server.                                                             *)
(***************************************************************************)

\* POST: an unknown agent and a sheet without a number to call are refused.
CheckOrder(i) ==
    /\ orders[i].at = "sent"
    /\ OrderTo(i, IF staffed /\ orders[i].rows \cap Phones # {} THEN "checked" ELSE "refused")
    /\ UNCHANGED <<form, wizard, books, sheets, untold>>

\* bulkUpsert: an error leaves those stored that came before it.
StoreContacts(i) ==
    /\ orders[i].at = "checked"
    /\ \/ stored' = stored \cup (orders[i].rows \cap Phones) /\ OrderTo(i, "stored")
       \/ \E some \in SUBSET (orders[i].rows \cap Phones) :
             stored' = stored \cup some /\ OrderTo(i, "refused")
    /\ UNCHANGED <<form, wizard, staffed, campaigns, sheets, untold>>

\* a mutant: the agent is not looked for again
CreateUnchecked(i) ==
    /\ orders[i].at = "stored"
    /\ campaigns' = Append(campaigns, [rows |-> orders[i].rows \cap Phones,
           sheet |-> orders[i].sheet, staffed |-> staffed, running |-> FALSE])
    /\ orders' = [orders EXCEPT ![i].at = "made", ![i].id = Len(campaigns')]
    /\ UNCHANGED <<form, wizard, stored, staffed, sheets, untold>>

\* createCampaignWithContacts: the agent must still be there.
CreateCampaign(i) ==
    /\ orders[i].at = "stored"
    /\ \/ /\ staffed
          /\ campaigns' = Append(campaigns, [rows |-> orders[i].rows \cap Phones,
                 sheet |-> orders[i].sheet, staffed |-> staffed, running |-> FALSE])
          /\ orders' = [orders EXCEPT ![i].at = "made", ![i].id = Len(campaigns')]
       \/ OrderTo(i, "refused") /\ UNCHANGED campaigns
    /\ UNCHANGED <<form, wizard, stored, staffed, sheets, untold>>

\* POST start, of which only the outcome matters here.  It sets the campaign running
\* before it fills the dial queue; what fails after that (the reply to the update, the
\* restoring of the status, the check for completion) is answered like what failed
\* before, and the campaign runs.
StartCampaign(i) ==
    /\ orders[i].at = "starting"
    /\ \/ /\ campaigns' = [campaigns EXCEPT ![orders[i].id].running = TRUE]
          /\ OrderTo(i, "started") /\ UNCHANGED untold
       \/ /\ campaigns' = [campaigns EXCEPT ![orders[i].id].running = TRUE]
          /\ OrderTo(i, "unstarted") /\ untold' = untold \cup {orders[i].sheet}
       \/ OrderTo(i, "unstarted") /\ UNCHANGED <<campaigns, untold>>
    /\ UNCHANGED <<form, wizard, stored, staffed, sheets>>

DismissAgent ==
    /\ staffed /\ staffed' = FALSE
    /\ UNCHANGED <<form, wizard, orders, stored, campaigns, sheets, untold>>

(***************************************************************************)
(* The answers.                                                            *)
(***************************************************************************)

\* The page shows the list of campaigns, or stays without a word.
PageAnswered(i) ==
    /\ orders[i].by = "page" /\ orders[i].at \in {"made", "refused"}
    /\ form' = [form EXCEPT !.busy = FALSE]
    /\ OrderTo(i, "answered")
    /\ UNCHANGED <<wizard, books, sheets, untold>>

\* The wizard starts what was made; what was not is an error to try again after.
WizardAnswered(i) ==
    /\ orders[i].by = "wizard"
    /\ \/ /\ orders[i].at = "made"
          /\ OrderTo(i, "starting") /\ UNCHANGED wizard
       \/ /\ orders[i].at = "refused"
          /\ wizard' = [wizard EXCEPT !.busy = FALSE]
          /\ OrderTo(i, "answered")
    /\ UNCHANGED <<form, books, sheets, untold>>

\* It is emptied once the campaign is started; else it stays, and the campaign too.
StartAnswered(i) ==
    /\ orders[i].by = "wizard" /\ orders[i].at \in {"started", "unstarted"}
    /\ wizard' = IF orders[i].at = "started"
                 THEN [wizard EXCEPT !.step = "details", !.rows = {}, !.busy = FALSE]
                 ELSE [wizard EXCEPT !.busy = FALSE]
    /\ OrderTo(i, "answered")
    /\ UNCHANGED <<form, books, sheets, untold>>

\* No answer comes, whatever the server has done or will do.
OrderLost(i) ==
    /\ orders[i].by # "nobody" /\ orders[i].at # "answered"
    /\ orders' = [orders EXCEPT ![i].by = "nobody"]
    /\ form' = [form EXCEPT !.busy = @ /\ orders[i].by # "page"]
    /\ wizard' = [wizard EXCEPT !.busy = @ /\ orders[i].by # "wizard"]
    /\ untold' = IF orders[i].at \in {"starting", "started"}
                 THEN untold \cup {orders[i].sheet} ELSE untold
    /\ UNCHANGED <<books, sheets>>

DeskNext ==
    \/ AgentsLoaded \/ \E step \in {"form", "review"} : GoTo(step)
    \/ Launch \/ NameCampaign \/ ReadSheet \/ Back \/ CreateAndLaunch \/ DismissAgent
    \/ \E i \in DOMAIN orders :
          \/ CheckOrder(i) \/ StoreContacts(i) \/ CreateCampaign(i) \/ StartCampaign(i)
          \/ PageAnswered(i) \/ WizardAnswered(i) \/ StartAnswered(i) \/ OrderLost(i)

-----------------------------------------------------------------------------
\* "Never create an undiallable campaign" (api/campaigns/route.ts:124): what is made has
\* numbers, all of them contacts, and an agent that was there, even if the agent is
\* deleted or storing fails while the request is served.
Diallable ==
    \A i \in DOMAIN campaigns :
        campaigns[i].rows # {} /\ campaigns[i].rows \subseteq stored /\ campaigns[i].staffed

\* Of the campaigns made from one sheet at most one is started, however often the wizard
\* tries, unless it was not told of one: the answer of a start was lost, or the start
\* failed after it had set its campaign running.  An attempt that was lost or refused
\* earlier than that, and a start that was refused, never make a second one run.
SheetStartedOnce ==
    \A i, j \in DOMAIN campaigns :
        i # j /\ campaigns[i].running /\ campaigns[j].running
        /\ campaigns[i].sheet = campaigns[j].sheet => campaigns[i].sheet \in untold
=============================================================================
