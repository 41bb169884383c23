------------------------------- MODULE Numbers -------------------------------
(***************************************************************************)
(* One telephone number and the workspaces that may register it.  The      *)
(* database keeps one row per workspace; that a number belongs to one      *)
(* workspace only is for the routes to see to, by looking before they      *)
(* insert.  Inbound calls go to the agent of a row that is active.         *)
(***************************************************************************)
EXTENDS Integers, FiniteSets

CONSTANTS
    Clerks,      \* requests served at a time
    Orgs,
    Agents,      \* agents of each workspace
    NoRow, NoAgent,
    MaxRegistrations, MaxUpdates   \* bounds

ASSUME NumbersAssumption ==
    NoRow \notin Orgs /\ MaxRegistrations \in Nat /\ MaxUpdates \in Nat

VARIABLES
    number,        \* number[o]: o's row [key, status, agent], or NoRow
    agents,        \* agents[o]: the agents o has
    registering,   \* registering[q]: the request q is serving
    overtaken,     \* a row was inserted after another had become active (history)
    reactivated,   \* a row was set active by hand (history)
    registrations, updates

numbers == <<number, agents, registering, overtaken, reactivated, registrations, updates>>

NoRegistration == [at |-> "idle"]
NumberStatuses == {"active", "released", "pending"}
ActiveRows == {o \in Orgs : number[o] # NoRow /\ number[o].status = "active"}

Key(found) == IF found = NoRow THEN NoRow ELSE number[found].key

Revised(row, status, agent) == [key |-> row.key, status |-> status, agent |-> agent]

NumbersInit ==
    /\ number = [o \in Orgs |-> NoRow]
    /\ agents = [o \in Orgs |-> Agents]
    /\ registering = [q \in Clerks |-> NoRegistration]
    /\ overtaken = FALSE /\ reactivated = FALSE
    /\ registrations = 0 /\ updates = 0

\* a mutant: the number is looked for among one's own
RegisterOwn(q, o, agent) ==
    /\ registering[q] = NoRegistration
    /\ registrations < MaxRegistrations /\ registrations' = registrations + 1
    /\ agent \in agents[o] \cup {NoAgent}
    /\ \E found \in IF o \in ActiveRows THEN {o} ELSE {NoRow} :
          registering' = [registering EXCEPT ![q] =
              [at |-> "found", org |-> o, agent |-> agent, found |-> found,
               key |-> Key(found), seen |-> ActiveRows]]
    /\ UNCHANGED <<number, agents, overtaken, reactivated, updates>>

\* findByNumber: some active row of the number, whose ever it is.
Register(q, o, agent) ==
    /\ registering[q] = NoRegistration
    /\ registrations < MaxRegistrations /\ registrations' = registrations + 1
    /\ agent \in agents[o] \cup {NoAgent}
    /\ \E found \in IF ActiveRows # {} THEN ActiveRows ELSE {NoRow} :
          registering' = [registering EXCEPT ![q] =
              [at |-> "found", org |-> o, agent |-> agent, found |-> found,
               key |-> Key(found), seen |-> ActiveRows]]
    /\ UNCHANGED <<number, agents, overtaken, reactivated, updates>>

\* One's own row gets the agent, if it is still there; another's is refused; and without
\* any a row is inserted, unless one's own is there: the index refuses a second.
Answer(q) ==
    LET r == registering[q]
        mine == number[r.org]
    IN  /\ r.at = "found"
        /\ \/ /\ r.found = r.org
              /\ number' = IF mine # NoRow /\ mine.key = r.key
                           THEN [number EXCEPT ![r.org] = Revised(mine, mine.status, r.agent)]
                           ELSE number
              /\ UNCHANGED overtaken
           \/ /\ r.found \in Orgs \ {r.org} \/ (r.found = NoRow /\ mine # NoRow)
              /\ UNCHANGED <<number, overtaken>>
           \/ /\ r.found = NoRow /\ mine = NoRow
              /\ number' = [number EXCEPT ![r.org] =
                     [key |-> updates, status |-> "active", agent |-> r.agent]]
              /\ overtaken' = (overtaken \/ ActiveRows # r.seen)
        /\ registering' = [registering EXCEPT ![q] = NoRegistration]
        /\ UNCHANGED <<agents, reactivated, registrations, updates>>

Updates(o) ==
    /\ number[o] # NoRow
    /\ updates < MaxUpdates /\ updates' = updates + 1
    /\ UNCHANGED <<registering, overtaken, registrations>>

\* PATCH sets the status, whoever else has the number, and the agent.
Update(o) ==
    /\ Updates(o)
    /\ \E status \in NumberStatuses, agent \in agents[o] \cup {NoAgent} :
          /\ number' = [number EXCEPT ![o] = Revised(number[o], status, agent)]
          /\ reactivated' = (reactivated \/ (status = "active" /\ o \notin ActiveRows))
    /\ UNCHANGED agents

Delete(o) ==
    /\ Updates(o)
    /\ number' = [number EXCEPT ![o] = NoRow]
    /\ UNCHANGED <<agents, reactivated>>

\* An agent is deleted and its numbers still name it.
DeleteAgent(o, agent) ==
    /\ agent \in agents[o] /\ Updates(o)
    /\ agents' = [agents EXCEPT ![o] = @ \ {agent}]
    /\ UNCHANGED <<number, reactivated>>

NumbersNext ==
    \/ \E q \in Clerks :
          \/ \E o \in Orgs, agent \in Agents \cup {NoAgent} : Register(q, o, agent)
          \/ Answer(q)
    \/ \E o \in Orgs :
          \/ Update(o) \/ Delete(o)
          \/ \E agent \in Agents : DeleteAgent(o, agent)
=============================================================================
