--------------------------- MODULE CampaignProps ---------------------------
(***************************************************************************)
(* What the campaign pipeline promises: properties of CampaignDial.        *)
(***************************************************************************)
EXTENDS CampaignDial

Jobs(c) ==
    {<<"queue", i>> : i \in {k \in DOMAIN queue : queue[k].contact = c}}
    \cup {<<"retries", j>> : j \in {k \in retries : k.contact = c}}
    \cup UNION {{<<w, j>> : j \in {k \in InHand(w) : k.contact = c}} : w \in Workers}

\* A contact has one job at a time, wherever it is: in the list, on the retry set, or in
\* a worker's hands (worker.py:414-418: a queued job is not requeued).
OneJobPerContact == \A c \in Contacts : Cardinality(Jobs(c)) <= 1

LiveRooms(c) == {i \in DOMAIN calls[c] : calls[c][i].room = "live"}

\* A contact is never in two calls at once (worker.py:232-234).
NoDoubleDial == \A c \in Contacts : Cardinality(LiveRooms(c)) <= 1

\* One job and one call at a time: starts, refills, sweeps, retries and late webhooks,
\* on any replica, neither make a second job of a contact nor let two dial it.
OneAtATime == OneJobPerContact /\ NoDoubleDial

\* The retry set holds one entry per contact and attempt, even when two paths
\* encode it differently, and the entry's dedupe key is set: no claim, crash or
\* expiry frees the key of a job that is parked (queueing.py:188-193, 231-236).
RetriesDeduped ==
    /\ Keys(retries) \subseteq parked
    /\ \A i, j \in retries : DedupeKey(i) = DedupeKey(j) => i = j

\* A contact is dialled at most as often as its campaign allows.
DialsWithinMax == \A c \in Contacts : Len(calls[c]) <= MaxAttempts

\* A campaign that is marked completed has no contact left to call.
CompletedIsDrained ==
    campaign = "completed" => \A c \in Contacts : contact[c].status \in TerminalContact

\* A contact that is done with is never opened again: no step of a webhook, a
\* sweep or a late job makes a terminal contact one that may be dialled.
NeverReopened ==
    [][\A c \in Contacts : contact[c].status \in TerminalContact =>
          contact'[c].status \in TerminalContact]_vars

\* Every campaign that runs is driven to completion with no operator input.
Converges == campaign = "running" ~> campaign = "completed"
=============================================================================
