------------------------------ MODULE Calendar ------------------------------
(***************************************************************************)
(* One workspace's appointments.  The web form and the voice agent's tool  *)
(* book by different rules, each in two steps: look whether the time is    *)
(* free, then insert.  Nothing in the database keeps two apart.            *)
(***************************************************************************)
EXTENDS Integers, FiniteSets

CONSTANTS
    Bookers,     \* requests served at a time
    Windows,     \* times asked for: [from, to]
    DayLength,   \* midnight is at the multiples of it
    MaxBookings, MaxChanges   \* bounds

ASSUME CalendarAssumption ==
    /\ \A w \in Windows : w.from \in Nat /\ w.to \in Nat
    /\ DayLength \in Nat \ {0} /\ MaxBookings \in Nat /\ MaxChanges \in Nat

VARIABLES
    appointments,  \* [id, from, to, status, by, seen]; the last two record, for the
                   \* properties, who booked it and the appointments there were when
                   \* it was checked
    reopened,      \* appointments that were set active again (a history variable)
    booking,       \* booking[q]: the request q is serving
    changes

calendar == <<appointments, reopened, booking, changes>>

Statuses == {"scheduled", "confirmed", "completed", "cancelled", "no_show"}
Active == {"scheduled", "confirmed"}
NoBooking == [at |-> "idle"]

Day(t) == t \div DayLength
Overlap(a, b) == a.from < b.to /\ b.from < a.to

CalendarInit ==
    /\ appointments = {} /\ reopened = {}
    /\ booking = [q \in Bookers |-> NoBooking]
    /\ changes = 0

\* a mutant: an appointment that is confirmed does not take up its time
AvailableUnlessScheduled(w) ==
    \A a \in appointments : a.status = "scheduled" => ~Overlap(a, w)

\* The web form asks whether an active appointment overlaps.
Available(w) == \A a \in appointments : a.status \in Active => ~Overlap(a, w)

\* The tool looks at those that start on the day the new one starts, unless cancelled.
FreeOnDay(w) ==
    \A a \in appointments :
        a.status # "cancelled" /\ Day(a.from) = Day(w.from) => ~Overlap(a, w)

\* Only the tool works out the end itself; the form takes any.
Check(q, by, w) ==
    /\ booking[q] = NoBooking
    /\ IF by = "form" THEN Available(w) ELSE w.from < w.to /\ FreeOnDay(w)
    /\ booking' = [booking EXCEPT ![q] = [at |-> "free", by |-> by, window |-> w,
                                          seen |-> {a.id : a \in appointments}]]
    /\ UNCHANGED <<appointments, reopened, changes>>

Book(q) ==
    LET b == booking[q] IN
    /\ b.at = "free" /\ Cardinality(appointments) < MaxBookings
    /\ appointments' = appointments \cup
          {[id |-> Cardinality(appointments) + 1, from |-> b.window.from, to |-> b.window.to,
            status |-> "scheduled", by |-> b.by, seen |-> b.seen]}
    /\ booking' = [booking EXCEPT ![q] = NoBooking]
    /\ UNCHANGED <<reopened, changes>>

\* Any status may be set to any other, also back to an active one.
SetStatus(a, status) ==
    /\ changes < MaxChanges /\ changes' = changes + 1
    /\ appointments' = (appointments \ {a}) \cup {[a EXCEPT !.status = status]}
    /\ reopened' = IF a.status \notin Active /\ status \in Active
                   THEN reopened \cup {a.id} ELSE reopened
    /\ UNCHANGED booking

CalendarNext ==
    \/ \E q \in Bookers :
          \/ \E by \in {"form", "tool"}, w \in Windows : Check(q, by, w)
          \/ Book(q)
    \/ \E a \in appointments, status \in Statuses : SetStatus(a, status)
=============================================================================
