------------------------------ MODULE SingleDial ------------------------------
(***************************************************************************)
(* A member calls the number of Contacts from the page of instant calls.   *)
(* The route looks at the do-not-call list and at the contact at the same  *)
(* time, then at the agent and the caller's number, makes a contact of a   *)
(* number that was none, and rings.  The answer to the page waits until    *)
(* the callee has picked up.  The page's End Call ends nothing but itself. *)
(***************************************************************************)
EXTENDS Contacts, Sequences

CONSTANT MaxDials   \* bound
ASSUME DialAssumption == MaxDials \in Nat

VARIABLES
    callStatus,  \* of the page: "idle", "connecting", "talking", "completed"
    closing,      \* whether the lead of a call that the page ended is being saved
    dials        \* dials[i]: the i-th request to call and the page that waits for it
dialling == <<callStatus, closing, dials>>

DialInit == callStatus = "idle" /\ closing = FALSE /\ dials = <<>>

Barred == listed \/ (contact # NoContact /\ contact.doNotCall)
Screening == {i \in DOMAIN dials : dials[i].at = "screening"}

\* Histories of a request until its check: whether the number could be called at some
\* moment since the click, and how many requests have been half through setting its flag.
Watched(d) ==
    IF d.at = "screening"
    THEN [d EXCEPT !.clear = @ \/ ~Barred', 
                        !.flags = @ + Cardinality(Flagging' \ Flagging)]
    ELSE d
BooksStep ==
    /\ ContactsNext
    /\ dials' = [i \in DOMAIN dials |-> Watched(dials[i])]
    /\ UNCHANGED <<callStatus, closing>>

DialTo(i, at) == dials' = [dials EXCEPT ![i].at = at]

\* handleStartCall, with a key of its own for each click.
CallNow ==
    /\ callStatus = "idle" /\ Len(dials) < MaxDials
    /\ callStatus' = "connecting"
    /\ dials' = Append(dials, [at |-> "screening", read |-> {}, barred |-> FALSE,
           found |-> FALSE, page |-> "waiting", clear |-> ~Barred,
           flags |-> Cardinality(Flagging)])
    /\ UNCHANGED <<contacts, closing>>

ReadList(i) ==
    /\ i \in Screening /\ "list" \notin dials[i].read
    /\ dials' = [dials EXCEPT ![i].read = @ \cup {"list"}, ![i].barred = @ \/ listed]
    /\ UNCHANGED <<contacts, callStatus, closing>>

ReadContact(i) ==
    /\ i \in Screening /\ "contact" \notin dials[i].read
    /\ dials' = [dials EXCEPT ![i].read = @ \cup {"contact"},
           ![i].barred = @ \/ (contact # NoContact /\ contact.doNotCall),
           ![i].found = contact # NoContact]
    /\ UNCHANGED <<contacts, callStatus, closing>>

\* a mutant: the contact's own flag is not looked at
ScreenList(i) ==
    /\ i \in Screening /\ "list" \in dials[i].read
    /\ \/ ~dials[i].barred /\ DialTo(i, "routed")
       \/ DialTo(i, "refused")
    /\ UNCHANGED <<contacts, callStatus, closing>>

\* Both answers are there.  Agent, caller's number and trunk may be refused as well.
Screen(i) ==
    /\ i \in Screening /\ dials[i].read = {"list", "contact"}
    /\ \/ ~dials[i].barred /\ DialTo(i, "routed")
       \/ DialTo(i, "refused")
    /\ UNCHANGED <<contacts, callStatus, closing>>

\* A contact that has appeared since is an error.
Meet(i) ==
    /\ dials[i].at = "routed"
    /\ \/ dials[i].found /\ DialTo(i, "met") /\ UNCHANGED contact
       \/ /\ ~dials[i].found /\ contact = NoContact
          /\ contact' = [doNotCall |-> FALSE, notes |-> {}]
          /\ DialTo(i, "met")
       \/ ~dials[i].found /\ contact # NoContact /\ DialTo(i, "refused") /\ UNCHANGED contact
    /\ UNCHANGED <<listed, job, saved, torn, blind, jobs, notes, callStatus, closing>>

\* The call is recorded, an agent sent to its room and the callee rung; each may fail.
Ring(i) ==
    /\ dials[i].at = "met"
    /\ DialTo(i, "ringing") \/ DialTo(i, "refused")
    /\ UNCHANGED <<contacts, callStatus, closing>>

PickUp(i) ==
    /\ dials[i].at = "ringing"
    /\ DialTo(i, "live") \/ DialTo(i, "refused")
    /\ UNCHANGED <<contacts, callStatus, closing>>

\* One of the two ends the call, or the agent does.
HangUp(i) ==
    /\ dials[i].at = "live"
    /\ DialTo(i, "over")
    /\ UNCHANGED <<contacts, callStatus, closing>>

\* The page learns of the call ...
Answered(i) ==
    /\ dials[i].page = "waiting" /\ dials[i].at \in {"live", "over"}
    /\ callStatus' = "talking"
    /\ dials' = [dials EXCEPT ![i].page = "told"]
    /\ UNCHANGED <<contacts, closing>>

\* ... or gets an error, its own if the call was refused, any at any time else.
Unanswered(i) ==
    /\ dials[i].page = "waiting"
    /\ callStatus' = "idle"
    /\ dials' = [dials EXCEPT ![i].page = IF dials[i].at = "refused" THEN "told" ELSE "lost"]
    /\ UNCHANGED <<contacts, closing>>

\* handleEndCall: the page says that call and outcome are done, and saves a lead ...
EndOnPage ==
    /\ callStatus = "talking" /\ callStatus' = "completed"
    /\ dials' = [dials EXCEPT ![Len(dials)].page = "ended"]
    /\ closing' = TRUE
    /\ UNCHANGED contacts

\* ... which is refused to a number that has a contact.
SaveOutcome ==
    /\ closing /\ closing' = FALSE
    /\ contact' = IF contact = NoContact THEN [doNotCall |-> FALSE, notes |-> {}] ELSE contact
    /\ UNCHANGED <<listed, job, saved, torn, blind, jobs, notes, callStatus, dials>>

DialAnother ==
    /\ callStatus = "completed" /\ callStatus' = "idle"
    /\ UNCHANGED <<contacts, closing, dials>>

DialNext ==
    \/ BooksStep \/ CallNow \/ EndOnPage \/ SaveOutcome \/ DialAnother
    \/ \E i \in DOMAIN dials :
          \/ ReadList(i) \/ ReadContact(i) \/ Screen(i) \/ Meet(i) \/ Ring(i) \/ PickUp(i)
          \/ HangUp(i) \/ Answered(i) \/ Unanswered(i)

-----------------------------------------------------------------------------
\* A number that was barred from the click on is never called, though its list and its
\* contact are read separately while both are written: some time between the click and
\* the check neither barred it, unless two requests that set the flag were half through
\* meanwhile.
BarredNotCalled ==
    \A i \in DOMAIN dials :
        dials[i].at \in {"routed", "met", "ringing", "live", "over"} =>
            dials[i].clear \/ dials[i].flags > 1

\* A call that goes on is the one the page shows or waits for, unless its reader ended it
\* there or its answer was lost.
CallShown ==
    \A i \in DOMAIN dials :
        dials[i].at = "live" =>
            \/ dials[i].page \in {"lost", "ended"}
            \/ /\ i = Len(dials)
               /\ callStatus = IF dials[i].page = "told" THEN "talking" ELSE "connecting"
=============================================================================
