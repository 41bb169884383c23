------------------------------ MODULE Workspace ------------------------------
(***************************************************************************)
(* The books of one workspace: its team, its appointments, its contacts    *)
(* and the calls to one of them, its telephone numbers, the two pages on   *)
(* which a member makes an agent and tries it out, the pages that list     *)
(* what there is, and the making of campaigns.  They share no state and no *)
(* request writes two of them, so a behaviour uses one and leaves the      *)
(* others blank; nothing that they could do together is missing.           *)
(***************************************************************************)
EXTENDS TeamProps, Calendar, SingleDial, Numbers, AgentCreation, BrowserCall, Listings,
        CampaignDesk

vars == <<team, calendar, contacts, dialling, numbers, creation, calling, listing, desk>>

Init ==
    /\ TeamInit /\ CalendarInit /\ ContactsInit /\ DialInit /\ NumbersInit
    /\ CreationInit /\ BrowserInit /\ ListingsInit /\ DeskInit

TeamBlank == asks = 0 /\ signups = 0
CalendarBlank == appointments = {} /\ \A q \in Bookers : booking[q] = NoBooking
ContactsBlank == contact = NoContact /\ jobs = 0 /\ dials = <<>>
NumbersBlank == registrations = 0
CreationBlank == asked = 0 /\ ~failed
CallingBlank == shown /\ \A s \in Sessions : start[s] = "none"
ListingBlank == view = "none"
DeskBlank ==
    /\ ~form.agents /\ form.step = "form" /\ wizard.step = "details" /\ orders = <<>>
    /\ sheets = 0 /\ staffed

Next ==
    \/ /\ CalendarBlank /\ ContactsBlank /\ NumbersBlank /\ CreationBlank
       /\ CallingBlank /\ ListingBlank /\ DeskBlank
       /\ TeamNext
       /\ UNCHANGED <<calendar, contacts, dialling, numbers, creation, calling, listing, desk>>
    \/ /\ TeamBlank /\ ContactsBlank /\ NumbersBlank /\ CreationBlank
       /\ CallingBlank /\ ListingBlank /\ DeskBlank
       /\ CalendarNext
       /\ UNCHANGED <<team, contacts, dialling, numbers, creation, calling, listing, desk>>
    \/ /\ TeamBlank /\ CalendarBlank /\ NumbersBlank /\ CreationBlank
       /\ CallingBlank /\ ListingBlank /\ DeskBlank
       /\ DialNext
       /\ UNCHANGED <<team, calendar, numbers, creation, calling, listing, desk>>
    \/ /\ TeamBlank /\ CalendarBlank /\ ContactsBlank /\ CreationBlank
       /\ CallingBlank /\ ListingBlank /\ DeskBlank
       /\ NumbersNext
       /\ UNCHANGED <<team, calendar, contacts, dialling, creation, calling, listing, desk>>
    \/ /\ TeamBlank /\ CalendarBlank /\ ContactsBlank /\ NumbersBlank
       /\ CallingBlank /\ ListingBlank /\ DeskBlank
       /\ CreationNext
       /\ UNCHANGED <<team, calendar, contacts, dialling, numbers, calling, listing, desk>>
    \/ /\ TeamBlank /\ CalendarBlank /\ ContactsBlank /\ NumbersBlank
       /\ CreationBlank /\ ListingBlank /\ DeskBlank
       /\ BrowserNext
       /\ UNCHANGED <<team, calendar, contacts, dialling, numbers, creation, listing, desk>>
    \/ /\ TeamBlank /\ CalendarBlank /\ ContactsBlank /\ NumbersBlank
       /\ CreationBlank /\ CallingBlank /\ DeskBlank
       /\ ListingsNext
       /\ UNCHANGED <<team, calendar, contacts, dialling, numbers, creation, calling, desk>>
    \/ /\ TeamBlank /\ CalendarBlank /\ ContactsBlank /\ NumbersBlank
       /\ CreationBlank /\ CallingBlank /\ ListingBlank
       /\ DeskNext
       /\ UNCHANGED <<team, calendar, contacts, dialling, numbers, creation, calling, listing>>

Spec == Init /\ [][Next]_vars

\* Two appointments that both take up their time overlap only if the later one was
\* booked while the earlier was, or one of them was closed and opened again, or the
\* tool booked over one that starts on another day.  The form and the tool ask
\* different questions of the calendar, and each must also see what the other booked.
OverlapsExplained ==
    \A a, b \in appointments :
        a.id < b.id /\ a.status \in Active /\ b.status \in Active /\ Overlap(a, b) =>
            \/ a.id \notin b.seen
            \/ {a.id, b.id} \cap reopened # {}
            \/ b.by = "tool" /\ Day(a.from) # Day(b.from)

\* The contact and the do-not-call list agree about the number when no request is
\* between the two, unless one was cut there or two met, and none has been made alone
\* since: leads and uploads that write the contact meanwhile leave its flag as it is.
FlagMatchesList ==
    Flagging = {} /\ ~torn /\ contact # NoContact => contact.doNotCall = listed

\* "Notes appended, never overwritten" (leads.py:5), as far as the code keeps it: a note
\* the caller was told is saved stays with the contact, unless a lead was written over
\* one it had not read.
NotesKept == ~blind /\ saved # {} => contact # NoContact /\ saved \subseteq contact.notes

\* What is written to a contact by one request stays when others write to it.
ContactAgrees == FlagMatchesList /\ NotesKept

\* A number is active for one workspace at most, unless two registered it at the same
\* time or a row was set active by hand.
NumberOwned == ~overtaken /\ ~reactivated => Cardinality(ActiveRows) <= 1

\* What the page of new agents and the wizard of campaigns report as made is made, once,
\* and can be called.
MadeAsAsked == CreationAnswered /\ Diallable /\ SheetStartedOnce

\* The pages that call show the calls there are: the agent's test call in the browser
\* and the instant call to a lead.
CallsShown == CallAccounted /\ CallShown

\* Pages that list show what their reader asked for last, and the details opened last.
PagesTold == ListIsNewest /\ DetailsKept
==============================================================================
