------------------------------ MODULE Listings ------------------------------
(***************************************************************************)
(* A page of the dashboard that lists rows of the workspace: its agents,   *)
(* calls, leads or campaigns, or one agent alone.  The page asks again     *)
(* whenever a filter changes, after what its reader does, and, for calls,  *)
(* every few seconds.  Nothing ties an answer to the newest question: the  *)
(* answer that comes last is shown.  A handler that waits goes on with the *)
(* filter it was clicked under.                                            *)
(***************************************************************************)
EXTENDS Integers

CONSTANTS
    Rows, Gone,
    Links,      \* rows whose address somebody has
    People,     \* rows of the page of leads that are contacts; the others are calls
    MaxSent, MaxMoves, MaxClicks, MaxTurns   \* bounds, the last of questions
                                              \* times clicks and changes

VARIABLES
    view,       \* the page that is open, or "none"
    filter,     \* the filter its reader chose last
    asking,     \* questions under way
    list,       \* the answer shown
    loading,    \* whether the page shows that it loads
    drawer,     \* the call or lead whose details are open, or Gone
    linked,     \* the lead the page's address names, or Gone
    doing,      \* clicks whose handlers wait
    row,        \* row[r]: a row on the server [status, recorded], or Gone
    moves,      \* changes of the rows so far
    wrote,      \* the last that a handler of the page made (history)
    chosen,     \* the row the reader opened last, Gone when closed (history)
    heard,      \* the open details have shown a recording (history)
    outdone,    \* an answer was shown after that to a newer question (history)
    strayed,    \* a question was asked under a filter no longer chosen (history)
    unheard,    \* a change was made and its answer lost (history)
    sent, clicks

listing == <<view, filter, asking, list, loading, drawer, linked, doing, row, moves, wrote,
             chosen, heard, outdone, strayed, unheard, sent, clicks>>
opened == <<view, linked>>
details == <<drawer, chosen, heard>>
records == <<row, moves, wrote>>

RowStatuses == {"ready", "paused", "qualified", "completed", "contacted", "invalid",
                "running", "hot"}
RowRecords == [status : RowStatuses, recorded : BOOLEAN]
ASSUME ListingsAssumption ==
    /\ Gone \notin Rows \cup RowRecords /\ Gone \notin [of : Rows, row : RowRecords]
    /\ People \subseteq Rows /\ Links \subseteq Rows
    /\ MaxSent \in Nat /\ MaxMoves \in Nat /\ MaxClicks \in Nat /\ MaxTurns \in Nat

NoRows == [r \in {} |-> Gone]

ListingsInit ==
    /\ view = "none" /\ filter = "all" /\ asking = {} /\ loading = TRUE
    /\ list = [no |-> 0, filter |-> "all", asOf |-> 0, rows |-> NoRows]
    /\ drawer = Gone /\ linked = Gone /\ doing = {}
    /\ row = [r \in Rows |-> Gone] /\ moves = 0
    /\ wrote = 0 /\ chosen = Gone /\ heard = FALSE
    /\ outdone = FALSE /\ strayed = FALSE /\ unheard = FALSE
    /\ sent = 0 /\ clicks = 0

(***************************************************************************)
(* What a question may be answered.  One that fails brings nothing.        *)
(***************************************************************************)

Those(S) == [r \in {s \in Rows : row[s] # Gone /\ row[s].status \in S} |-> row[r]]
Under(f) == IF f = "all" THEN RowStatuses ELSE {f}

AgentsFor(f) == {Those(Under(f)), NoRows}

\* The route compares the outcome it keeps, of which "completed" is shown as qualified,
\* and takes no direction.
CallsFor(f) == {Those(Under(IF f = "outbound" THEN "all" ELSE f)), NoRows}

\* Contacts and calls are asked for at once, and each may fail.
LeadsFor(f) == {[r \in S \cap DOMAIN Those(Under(f)) |-> row[r]] :
                   S \in {Rows, People, Rows \ People, {}}}

CampaignsFor(f) == {Those(Under(f)), NoRows}

Answers(f) == CASE view \in {"agents", "agent"} -> AgentsFor(f)
                [] view = "calls" -> CallsFor(f)
                [] view = "results" -> LeadsFor(f)
                [] view = "campaigns" -> CampaignsFor(f)

(***************************************************************************)
(* Questions and answers.                                                  *)
(***************************************************************************)

Send(f, poll) ==
    /\ sent < MaxSent /\ (sent + 1) * (clicks + moves) <= MaxTurns /\ sent' = sent + 1
    /\ asking' = asking \cup
          {[no |-> sent', poll |-> poll, at |-> "sent", filter |-> f, asOf |-> 0,
            rows |-> NoRows]}
    /\ strayed' = (strayed \/ f # filter')
    /\ loading' = IF poll THEN loading ELSE TRUE

\* A page opens with whatever rows there are.
Mount(p) ==
    /\ view = "none" /\ view' = p
    /\ UNCHANGED filter /\ Send("all", FALSE)
    /\ UNCHANGED <<list, details, doing, moves, wrote, outdone, unheard, clicks>>

Fresh(S) == row' \in [Rows -> {Gone} \cup [status : S, recorded : {FALSE}]]

MountAgents == Mount("agents") /\ Fresh({"ready", "paused"}) /\ UNCHANGED linked
MountAgent ==
    /\ Mount("agent") /\ Fresh({"ready"}) /\ UNCHANGED linked
    /\ \E r \in Rows : \A s \in Rows \ {r} : row'[s] = Gone
MountCalls == Mount("calls") /\ Fresh({"qualified"}) /\ UNCHANGED linked
MountCampaigns == Mount("campaigns") /\ Fresh({"running"}) /\ UNCHANGED linked
MountLeads == Mount("results") /\ Fresh({"contacted"}) /\ linked' \in Links \cup {Gone}

Choose(p, filters) ==
    /\ view = p /\ filter' \in filters \ {filter}
    /\ Send(filter', FALSE)
    /\ UNCHANGED <<opened, list, details, doing, records, outdone, unheard, clicks>>

ChooseAgents == Choose("agents", {"all", "ready"})
ChooseCalls == Choose("calls", {"all", "qualified", "outbound"})
ChooseLeads == Choose("results", {"all", "contacted"})
ChooseCampaigns == Choose("campaigns", {"all", "running"})

\* The interval of the page of calls, which is set anew with each filter.
Poll ==
    /\ view = "calls" /\ UNCHANGED filter /\ Send(filter, TRUE)
    /\ UNCHANGED <<opened, list, details, doing, records, outdone, unheard, clicks>>

\* The server reads the rows.
Serve(q) ==
    /\ q \in asking /\ q.at = "sent"
    /\ \E rows \in Answers(q.filter) :
          asking' = (asking \ {q}) \cup
              {[q EXCEPT !.at = "served", !.asOf = moves, !.rows = rows]}
    /\ UNCHANGED <<opened, filter, list, loading, details, doing, records, outdone, strayed,
                   unheard, sent, clicks>>

Show(q) ==
    /\ q \in asking /\ q.at = "served"
    /\ asking' = asking \ {q}
    /\ list' = [no |-> q.no, filter |-> q.filter, asOf |-> q.asOf, rows |-> q.rows]
    /\ loading' = (loading /\ q.poll)
    /\ outdone' = (outdone \/ q.no < list.no)
    /\ UNCHANGED <<opened, filter, doing, records, strayed, unheard, sent, clicks>>

Loaded(q) == view # "results" /\ ~q.poll /\ Show(q) /\ UNCHANGED details

\* The lead of the page's address is opened, whatever is open by now.
LeadsLoaded(q) ==
    /\ view = "results" /\ Show(q)
    /\ drawer' = IF linked \in DOMAIN q.rows
                 THEN [of |-> linked, row |-> q.rows[linked]] ELSE drawer
    /\ UNCHANGED <<chosen, heard>>

\* a mutant: the newest copy takes the place of the open one
PolledAnew(q) ==
    /\ q.poll /\ Show(q)
    /\ drawer' = IF drawer # Gone /\ drawer.of \in DOMAIN q.rows
                 THEN [of |-> drawer.of, row |-> q.rows[drawer.of]] ELSE drawer
    /\ heard' = (heard \/ (drawer' # Gone /\ drawer'.row.recorded))
    /\ UNCHANGED chosen

\* The open details, if there are still any, are brought up to date and keep a recording.
Polled(q) ==
    /\ q.poll /\ Show(q)
    /\ drawer' = IF drawer # Gone /\ drawer.of \in DOMAIN q.rows
                 THEN [of |-> drawer.of,
                       row |-> [status |-> q.rows[drawer.of].status,
                                recorded |-> drawer.row.recorded \/ q.rows[drawer.of].recorded]]
                 ELSE drawer
    /\ heard' = (heard \/ (drawer' # Gone /\ drawer'.row.recorded))
    /\ UNCHANGED chosen

(***************************************************************************)
(* The reader.                                                             *)
(***************************************************************************)

Select(r) ==
    /\ r \in DOMAIN list.rows
    /\ drawer' = [of |-> r, row |-> list.rows[r]]
    /\ chosen' = r /\ heard' = list.rows[r].recorded
    /\ UNCHANGED <<opened, filter, asking, list, loading, doing, records, outdone, strayed,
                   unheard, sent, clicks>>

SelectCall(r) == view = "calls" /\ Select(r)
SelectLead(r) == view = "results" /\ ~loading /\ Select(r)

CloseDetails ==
    /\ drawer # Gone /\ drawer' = Gone
    /\ chosen' = Gone /\ heard' = FALSE
    /\ UNCHANGED <<opened, filter, asking, list, loading, doing, records, outdone, strayed,
                   unheard, sent, clicks>>

Click(what, r) ==
    /\ clicks < MaxClicks /\ sent * (clicks + 1 + moves) <= MaxTurns /\ clicks' = clicks + 1
    /\ doing' = doing \cup {[no |-> clicks', what |-> what, of |-> r, under |-> filter,
                             at |-> "clicked", status |-> "ready", asOf |-> 0]}
    /\ UNCHANGED <<opened, filter, asking, list, loading, details, records, outdone, strayed,
                   unheard, sent>>

ToggleAgent(r) ==
    /\ view = "agents" /\ ~loading /\ r \in DOMAIN list.rows
    /\ Click("toggle", r)
DuplicateAgent(r) ==
    /\ view = "agents" /\ ~loading /\ r \in DOMAIN list.rows
    /\ Click("duplicate", r)
ToggleThis(r) == view = "agent" /\ r \in DOMAIN list.rows /\ Click("toggle", r)
SaveThis(r) == view = "agent" /\ r \in DOMAIN list.rows /\ Click("save", r)
MarkHot(r) == view = "results" /\ drawer # Gone /\ drawer.of = r /\ Click("hot", r)
ToggleCampaign(r) ==
    /\ view = "campaigns" /\ r \in DOMAIN list.rows /\ list.rows[r].status = "running"
    /\ Click("campaign", r)

\* A handler is over: on the pages that list, it asks again.
Over(c, anew) ==
    /\ doing' = doing \ {c}
    /\ UNCHANGED filter
    /\ IF anew THEN Send(c.under, FALSE) ELSE UNCHANGED <<asking, loading, strayed, sent>>

\* The agent is read first, to know what its status becomes or what the copy is of.
ReadAgent(c) ==
    /\ c.what \in {"toggle", "duplicate"} /\ c.at = "clicked"
    /\ \/ /\ row[c.of] # Gone
          /\ \E status \in IF c.what = "duplicate" THEN {row[c.of].status}
                           ELSE IF row[c.of].status = "ready" THEN {"paused"} ELSE {"ready"} :
                doing' = (doing \ {c}) \cup {[c EXCEPT !.at = "read", !.status = status]}
          /\ UNCHANGED <<filter, asking, loading, strayed, sent>>
       \/ Over(c, view = "agents")
    /\ UNCHANGED <<opened, list, details, records, outdone, unheard, clicks>>

\* A change is made; its answer arrives, or not.
Written(c, status) ==
    /\ moves' = moves + 1 /\ wrote' = moves'
    /\ \/ /\ doing' = (doing \ {c}) \cup
                {[c EXCEPT !.at = "written", !.status = status, !.asOf = moves']}
          /\ UNCHANGED unheard
       \/ doing' = doing \ {c} /\ unheard' = TRUE
    /\ UNCHANGED <<filter, asking, loading, strayed, sent>>

\* PATCH: the status, or what else the form holds.
PatchAgent(c) ==
    /\ c.what \in {"toggle", "save"} /\ c.at = (IF c.what = "save" THEN "clicked" ELSE "read")
    /\ \/ /\ row[c.of] # Gone
          /\ \E status \in {IF c.what = "save" THEN row[c.of].status ELSE c.status} :
                /\ row' = [row EXCEPT ![c.of].status = status]
                /\ Written(c, status)
       \/ /\ \E anew \in {FALSE, view = "agents"} : Over(c, anew)
          /\ UNCHANGED <<records, unheard>>
    /\ UNCHANGED <<opened, list, details, outdone, clicks>>

\* POST: an exception leaves the handler without its last line.
CreateCopy(c) ==
    /\ c.what = "duplicate" /\ c.at = "read"
    /\ \/ \E r \in Rows :
             /\ row[r] = Gone
             /\ row' = [row EXCEPT ![r] = [status |-> c.status, recorded |-> FALSE]]
             /\ Written(c, c.status)
       \/ Over(c, FALSE) /\ UNCHANGED <<records, unheard>>
    /\ UNCHANGED <<opened, list, details, outdone, clicks>>

\* The page of agents asks again ...
Finish(c) ==
    /\ view = "agents" /\ c.at = "written"
    /\ Over(c, TRUE)
    /\ UNCHANGED <<opened, list, details, records, outdone, unheard, clicks>>

\* ... and the agent's own page shows what the answer says.
FinishThis(c) ==
    /\ view = "agent" /\ c.at = "written"
    /\ Over(c, FALSE)
    /\ list' = [list EXCEPT !.asOf = c.asOf, !.rows[c.of].status = c.status]
    /\ outdone' = (outdone \/ c.asOf < list.asOf)
    /\ UNCHANGED <<opened, details, records, unheard, clicks>>

\* updateLead: the lead is looked up and shown as hot; nothing is saved.
ShowHot(c) ==
    /\ c.what = "hot"
    /\ \E leads \in LeadsFor("all") :
          \/ /\ c.of \in DOMAIN leads
             /\ drawer' = [of |-> c.of, row |-> [leads[c.of] EXCEPT !.status = "hot"]]
             /\ Over(c, TRUE)
          \/ c.of \notin DOMAIN leads /\ Over(c, FALSE) /\ UNCHANGED drawer
    /\ UNCHANGED <<opened, list, chosen, heard, records, outdone, unheard, clicks>>

\* toggleCampaignStatus changes its own copy of the campaign and nothing else.
PauseCampaign(c) ==
    /\ c.what = "campaign"
    /\ Over(c, TRUE)
    /\ UNCHANGED <<opened, list, details, records, outdone, unheard, clicks>>

(***************************************************************************)
(* Everybody else.                                                         *)
(***************************************************************************)

\* Calls end and get their recording, campaigns run dry, contacts and agents are edited.
Change(r) ==
    /\ view # "none" /\ row[r] # Gone /\ moves < MaxMoves /\ moves' = moves + 1
    /\ sent * (clicks + 1 + moves) <= MaxTurns
    /\ row' \in CASE view \in {"agents", "agent"} ->
                       {[row EXCEPT ![r] = Gone]} \cup
                       {[row EXCEPT ![r].status = s] : s \in {"ready", "paused"}}
                 [] view = "calls" -> {[row EXCEPT ![r].status = "completed"],
                                       [row EXCEPT ![r].recorded = TRUE]}
                 [] view = "results" -> {[row EXCEPT ![r].status = s] :
                                            s \in {"contacted", "invalid"}}
                 [] view = "campaigns" -> {[row EXCEPT ![r].status = "completed"]}
    /\ row' # row
    /\ UNCHANGED <<opened, filter, asking, list, loading, details, doing, wrote, outdone,
                   strayed, unheard, sent, clicks>>

ListingsNext ==
    \/ MountAgents \/ MountAgent \/ MountCalls \/ MountCampaigns \/ MountLeads
    \/ ChooseAgents \/ ChooseCalls \/ ChooseLeads \/ ChooseCampaigns
    \/ Poll \/ CloseDetails
    \/ \E q \in asking : Serve(q) \/ Loaded(q) \/ LeadsLoaded(q) \/ Polled(q)
    \/ \E r \in Rows :
          \/ SelectCall(r) \/ SelectLead(r) \/ ToggleAgent(r) \/ DuplicateAgent(r)
          \/ ToggleThis(r) \/ SaveThis(r) \/ MarkHot(r) \/ ToggleCampaign(r) \/ Change(r)
    \/ \E c \in doing :
          \/ ReadAgent(c) \/ PatchAgent(c) \/ CreateCopy(c) \/ Finish(c) \/ FinishThis(c)
          \/ ShowHot(c) \/ PauseCampaign(c)

-----------------------------------------------------------------------------
\* When all is answered a page lists what its reader asked for last, and nothing older
\* than what its own handlers changed, unless an older answer came later, a handler
\* asked under a filter that was no longer chosen, or the answer to a change was lost.
ListIsNewest ==
    asking = {} /\ doing = {} /\ ~outdone =>
        /\ ~strayed => list.filter = filter
        /\ ~unheard => list.asOf >= wrote

\* The details open on the page of calls are those of the call its reader opened last,
\* and a recording once heard there stays, whichever answers arrive in which order.
DetailsKept ==
    view = "calls" =>
        IF chosen = Gone THEN drawer = Gone
        ELSE drawer # Gone /\ drawer.of = chosen /\ (heard => drawer.row.recorded)
=============================================================================
