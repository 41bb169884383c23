------------------------------ MODULE Contacts ------------------------------
(***************************************************************************)
(* One phone number in a workspace's contacts.  It may not be called if    *)
(* the contact says so or if it is on the do-not-call list, and the two    *)
(* are written one after the other.  The voice agent's tool adds notes to  *)
(* the contact by reading it and writing it back.                          *)
(***************************************************************************)
EXTENDS Integers, FiniteSets

CONSTANTS
    Writers,     \* requests served at a time
    NoContact,
    MaxJobs, MaxNotes   \* bounds

ASSUME ContactsAssumption ==
    /\ IsFiniteSet(Writers) /\ MaxJobs \in Nat /\ MaxNotes \in Nat
    /\ NoContact \notin [doNotCall : BOOLEAN, notes : SUBSET Nat]

VARIABLES
    contact,   \* the row: [doNotCall, notes], or NoContact
    listed,    \* whether the number is on the do-not-call list
    job,       \* job[q]: the request q is serving
    saved,     \* notes the caller was told are saved (a history variable)
    torn,      \* a flag was half written and none has been set alone since (history)
    blind,     \* a lead was written over a note it had not read (history)
    jobs, notes

contacts == <<contact, listed, job, saved, torn, blind, jobs, notes>>

NoJob == [at |-> "idle"]
Flagging == {q \in Writers : job[q].at = "flagged"}

ContactsInit ==
    /\ contact = NoContact /\ listed = FALSE
    /\ job = [q \in Writers |-> NoJob]
    /\ saved = {} /\ torn = FALSE /\ blind = FALSE
    /\ jobs = 0 /\ notes = 0

Start(q) == job[q] = NoJob /\ jobs < MaxJobs /\ jobs' = jobs + 1
Done(q) == job' = [job EXCEPT ![q] = NoJob]
Flagged(q, on) ==
    /\ job' = [job EXCEPT ![q] = [at |-> "flagged", on |-> on]]
    /\ torn' = (Flagging # {})

\* POST: a second contact of the number is refused by the index.
Create(q) ==
    /\ Start(q) /\ contact = NoContact
    /\ \E on \in BOOLEAN :
          /\ contact' = [doNotCall |-> on, notes |-> {}]
          /\ IF on THEN Flagged(q, TRUE) ELSE UNCHANGED <<job, torn>>
    /\ UNCHANGED <<listed, saved, blind, notes>>

\* PATCH: the contact first ...
SetFlag(q) ==
    /\ Start(q) /\ contact # NoContact
    /\ \E on \in BOOLEAN :
          /\ contact' = [contact EXCEPT !.doNotCall = on]
          /\ Flagged(q, on)
    /\ UNCHANGED <<listed, saved, blind, notes>>

\* ... and then the list.
SetList(q) ==
    /\ q \in Flagging
    /\ listed' = job[q].on
    /\ Done(q)
    /\ UNCHANGED <<contact, saved, torn, blind, jobs, notes>>

\* The request ends between the two.
CutFlag(q) ==
    /\ q \in Flagging
    /\ torn' = TRUE
    /\ Done(q)
    /\ UNCHANGED <<contact, listed, saved, blind, jobs, notes>>

\* create_lead: the contact is looked up ...
FindLead(q) ==
    /\ Start(q) /\ notes < MaxNotes /\ notes' = notes + 1
    /\ job' = [job EXCEPT ![q] =
          [at |-> "lead", note |-> notes', found |-> contact # NoContact,
           notes |-> IF contact = NoContact THEN {} ELSE contact.notes]]
    /\ UNCHANGED <<contact, listed, saved, torn, blind>>

\* a mutant: a lead is written back whole, its flag included
SaveLeadWhole(q) ==
    /\ job[q].at = "lead"
    /\ contact' = [doNotCall |-> FALSE, notes |-> job[q].notes \cup {job[q].note}]
    /\ saved' = saved \cup {job[q].note}
    /\ Done(q)
    /\ UNCHANGED <<listed, torn, blind, jobs, notes>>

\* ... and written back with one note more, or inserted if there was none: then one
\* that has appeared since is an error.
SaveLead(q) ==
    LET lead == job[q]
        all == lead.notes \cup {lead.note}
    IN  /\ lead.at = "lead"
        /\ \/ /\ lead.found
              /\ contact' = [contact EXCEPT !.notes = all]
              /\ blind' = (blind \/ contact.notes # lead.notes)
              /\ saved' = saved \cup {lead.note}
           \/ /\ ~lead.found /\ contact = NoContact
              /\ contact' = [doNotCall |-> FALSE, notes |-> all]
              /\ saved' = saved \cup {lead.note}
              /\ UNCHANGED blind
           \/ /\ ~lead.found /\ contact # NoContact
              /\ UNCHANGED <<contact, saved, blind>>
        /\ Done(q)
        /\ UNCHANGED <<listed, torn, jobs, notes>>

\* A campaign is created from a sheet: contacts that exist keep all but the phone.
Upload(q) ==
    /\ Start(q)
    /\ contact' = IF contact = NoContact THEN [doNotCall |-> FALSE, notes |-> {}] ELSE contact
    /\ UNCHANGED <<listed, job, saved, torn, blind, notes>>

ContactsNext ==
    \E q \in Writers :
        \/ Create(q) \/ SetFlag(q) \/ SetList(q) \/ CutFlag(q)
        \/ FindLead(q) \/ SaveLead(q) \/ Upload(q)
=============================================================================
