--------------------------- MODULE WorkspaceProofs ---------------------------
(***************************************************************************)
(* What holds of a workspace's team, appointments, numbers, contacts and   *)
(* the calls to them, agent creation, test call, campaign making and       *)
(* listing pages, for every number of people, requests, tabs, rows and     *)
(* sessions: each part has an inductive invariant, and no step of one part *)
(* moves another.                                                          *)
(*                                                                         *)
(* The heart of TeamInv is that a token stands for one pending row or for  *)
(* none (TokensOnce), and that whatever is mailed, or about to be, names   *)
(* what the row of its token grants (TokenMeaning); a member with a        *)
(* pending invitation, and an owner counted out of date, take a race       *)
(* between two requests (InviteShape, RequestShape).  ContactsInv says     *)
(* what a request carries between its read and its write, CreationInv that *)
(* the saves which made an agent are those the server answered so, and     *)
(* BrowserInv what each handle of a session still stands for.  DialInv     *)
(* ties what a call has read of the list and of the contact to the         *)
(* requests that were between those two writes meanwhile (Watch), DeskInv  *)
(* each campaign to the order that made it, and ListingsInv a page to the  *)
(* newest question whose answer it has not shown yet.                      *)
(***************************************************************************)
EXTENDS Workspace, FiniteSetTheorems, SequenceTheorems, TLAPS

TeamTypes ==
    /\ role \in [Users -> Roles \cup {"none"}]
    /\ signup \in [Users -> {"no", "account", "done", "cut"}]
    /\ request = [q \in Requests |-> request[q]] /\ tab = [t \in Tabs |-> tab[t]]
    /\ invite = [u \in Users |-> invite[u]]
    /\ account \subseteq Users /\ tokens \in Nat
    /\ mailed \subseteq [user : Users, token : Nat, role : NewRoles]
    /\ granted \in Seq([user : Users, token : Nat, role : NewRoles])

\* What a request and a tab carry from one query to the next.
RequestShape == \A q \in Requests :
    /\ request[q].at # "idle" => request[q].user \in Users
    /\ request[q].at \in {"asked", "read", "judged"} /\ request[q].kind # "remove" =>
          request[q].new \in NewRoles
    /\ request[q].at \in {"checked", "stored"} => request[q].new \in NewRoles
    /\ request[q].at = "checked" => request[q].was = "none"
    /\ request[q].at = "judged" => request[q].owners \in Nat
    /\ request[q].at \in {"read", "judged"} => request[q].was # "none"
    /\ request[q].at = "judged" /\ request[q].was = "owner"
          /\ (request[q].kind = "remove" \/ request[q].new # "owner") =>
          request[q].owners > 1

\* Whoever has a pending invitation is no member, unless requests raced.
InviteShape == \A u \in Users : invite[u] # NoInvite =>
    /\ invite[u].role \in NewRoles
    /\ ~raced => role[u] = "none"

\* A token stands for one pending row or for none, and none that was used.
TokensOnce ==
    /\ \A u \in Users : invite[u] # NoInvite =>
          /\ invite[u].token \in 1..tokens
          /\ \A i \in DOMAIN granted : granted[i].token # invite[u].token
          /\ \A v \in Users : invite[v] # NoInvite /\ invite[v].token = invite[u].token => v = u
    /\ \A i \in DOMAIN granted : granted[i].token \in 1..tokens
    /\ \A m \in mailed : m.token \in 1..tokens
    /\ \A q \in Requests : request[q].at = "stored" => request[q].token \in 1..tokens

\* The mail and the request that sends it name what the token's row grants.
TokenMeaning ==
    /\ \A u \in Users : invite[u] # NoInvite =>
          /\ \A m \in mailed : m.token = invite[u].token =>
                 m.user = u /\ m.role = invite[u].role
          /\ \A q \in Requests :
                request[q].at = "stored" /\ request[q].token = invite[u].token =>
                    request[q].user = u /\ request[q].new = invite[u].role
    /\ \A t \in Tabs : tab[t].at = "found" =>
          \E m \in mailed : m.user = tab[t].user /\ m.token = tab[t].token

TeamInv ==
    /\ TeamTypes /\ RequestShape /\ InviteShape /\ TokensOnce /\ TokenMeaning
    /\ GrantedAsMailed /\ OwnerRemains /\ Housed

\* A new workspace has its founder and nothing in the mail.
LEMMA TeamStart == TeamInit => TeamInv
<1> SUFFICES ASSUME TeamInit PROVE TeamInv
  OBVIOUS
<1> USE TeamAssumption DEF TeamInit
<1>1. TeamTypes
  BY DEF TeamTypes, Roles, RANK, Idle
<1>2. RequestShape /\ InviteShape
  BY DEF RequestShape, InviteShape, Idle
<1>3. TokensOnce /\ TokenMeaning
  BY DEF TokensOnce, TokenMeaning, Idle
<1>4. GrantedAsMailed
  BY DEF GrantedAsMailed, IsInjective
<1>5. OwnerRemains /\ Housed
  BY DEF OwnerRemains, Owners, Housed
<1> QED
  BY <1>1, <1>2, <1>3, <1>4, <1>5 DEF TeamInv

\* A step of one request leaves the others alone.
LEMMA RequestTo ==
    ASSUME TeamTypes, NEW q \in Requests, NEW r, request' = [request EXCEPT ![q] = r]
    PROVE  /\ request' = [p \in Requests |-> request'[p]] /\ request'[q] = r
           /\ \A p \in Requests \ {q} : request'[p] = request[p]
BY DEF TeamTypes

\* A step of one tab leaves the others alone.
LEMMA TabTo ==
    ASSUME TeamTypes, NEW t \in Tabs, NEW r, tab' = [tab EXCEPT ![t] = r]
    PROVE  /\ tab' = [o \in Tabs |-> tab'[o]] /\ tab'[t] = r
           /\ \A o \in Tabs \ {t} : tab'[o] = tab[o]
BY DEF TeamTypes

\* A step on one invitation leaves the others alone.
LEMMA InviteTo ==
    ASSUME TeamTypes, NEW u \in Users, NEW entry, invite' = [invite EXCEPT ![u] = entry]
    PROVE  /\ invite' = [v \in Users |-> invite'[v]] /\ invite'[u] = entry
           /\ \A v \in Users \ {u} : invite'[v] = invite[v]
BY DEF TeamTypes

\* Of more than one owner, one is left without any of them.
LEMMA AnotherOne ==
    ASSUME NEW S \in SUBSET Users, IsFiniteSet(S), Cardinality(S) > 1, NEW x \in Users
    PROVE  \E y \in S : y # x
<1>1. Cardinality({}) = 0 /\ Cardinality({x}) = 1
  BY FS_EmptySet, FS_Singleton
<1>2. S # {} /\ S # {x}
  BY <1>1
<1> QED
  BY <1>2

\* Every request of the team page, of a signup and of an acceptance keeps it.
LEMMA TeamStep == ASSUME TeamInv, [TeamNext]_team PROVE TeamInv'
<1> USE TeamAssumption DEF TeamInv, To, Refuse, Idle, people, mail
<1>1. ASSUME NEW u \in Users, Signup(u)
      PROVE  TeamInv'
  <2>1. TeamTypes' /\ RequestShape' /\ InviteShape'
    BY <1>1 DEF Signup, TeamTypes, RequestShape, InviteShape
  <2>2. TokensOnce' /\ TokenMeaning'
    BY <1>1 DEF Signup, TeamTypes, TokensOnce, TokenMeaning
  <2>3. GrantedAsMailed' /\ OwnerRemains' /\ Housed'
    BY <1>1 DEF Signup, TeamTypes, GrantedAsMailed, OwnerRemains, Owners, Housed, Members
  <2> QED
    BY <2>1, <2>2, <2>3
<1>2. ASSUME NEW u \in Users, Found(u)
      PROVE  TeamInv'
  <2>1. TeamTypes' /\ RequestShape' /\ InviteShape'
    BY <1>2 DEF Found, TeamTypes, RequestShape, InviteShape
  <2>2. TokensOnce' /\ TokenMeaning'
    BY <1>2 DEF Found, TeamTypes, TokensOnce, TokenMeaning
  <2>3. GrantedAsMailed' /\ OwnerRemains' /\ Housed'
    BY <1>2 DEF Found, TeamTypes, GrantedAsMailed, OwnerRemains, Owners, Housed, Members
  <2> QED
    BY <2>1, <2>2, <2>3
<1>3. ASSUME NEW u \in Users, CutSignup(u)
      PROVE  TeamInv'
  <2>1. TeamTypes' /\ RequestShape' /\ InviteShape'
    BY <1>3 DEF CutSignup, TeamTypes, RequestShape, InviteShape
  <2>2. TokensOnce' /\ TokenMeaning'
    BY <1>3 DEF CutSignup, TeamTypes, TokensOnce, TokenMeaning
  <2>3. GrantedAsMailed' /\ OwnerRemains' /\ Housed'
    BY <1>3 DEF CutSignup, TeamTypes, GrantedAsMailed, OwnerRemains, Owners, Housed, Members
  <2> QED
    BY <2>1, <2>2, <2>3
<1>4. ASSUME NEW u \in Users, FoundAnother(u)
      PROVE  TeamInv'
  <2>1. TeamTypes' /\ RequestShape' /\ InviteShape'
    BY <1>4 DEF FoundAnother, TeamTypes, RequestShape, InviteShape
  <2>2. TokensOnce' /\ TokenMeaning'
    BY <1>4 DEF FoundAnother, TeamTypes, TokensOnce, TokenMeaning
  <2>3. GrantedAsMailed' /\ OwnerRemains' /\ Housed'
    BY <1>4 DEF FoundAnother, TeamTypes, GrantedAsMailed, OwnerRemains, Owners, Housed, Members
  <2> QED
    BY <2>1, <2>2, <2>3
<1>5. ASSUME NEW u \in Users, Expire(u)
      PROVE  TeamInv'
  <2>1. TeamTypes' /\ RequestShape'
    BY <1>5 DEF Expire, TeamTypes, RequestShape
  <2>4. InviteShape'
    BY <1>5 DEF Expire, TeamTypes, InviteShape
  <2>2. TokensOnce' /\ TokenMeaning'
    BY <1>5 DEF Expire, TeamTypes, TokensOnce, TokenMeaning
  <2>3. GrantedAsMailed' /\ OwnerRemains' /\ Housed'
    BY <1>5 DEF Expire, TeamTypes, GrantedAsMailed, OwnerRemains, Owners, Housed, Members
  <2> QED
    BY <2>1, <2>2, <2>3, <2>4
<1>6. ASSUME NEW q \in Requests, NEW actor \in Users, NEW u \in Users,
             NEW kind \in {"invite", "change", "remove"}, NEW new,
             kind # "remove" => new \in NewRoles,
             Ask(q, kind, actor, u, new)
      PROVE  TeamInv'
  <2>1. TeamTypes' /\ RequestShape' /\ InviteShape'
    BY <1>6 DEF Ask, TeamTypes, RequestShape, InviteShape
  <2>2. TokensOnce' /\ TokenMeaning'
    BY <1>6 DEF Ask, TeamTypes, TokensOnce, TokenMeaning
  <2>3. GrantedAsMailed' /\ OwnerRemains' /\ Housed'
    BY <1>6 DEF Ask, TeamTypes, GrantedAsMailed, OwnerRemains, Owners, Housed, Members
  <2> QED
    BY <2>1, <2>2, <2>3
<1>7. ASSUME NEW q \in Requests, CheckInvite(q)
      PROVE  TeamInv'
  <2>0. /\ UNCHANGED <<role, people, mail, removed, raced, tab>>
        /\ request' = [p \in Requests |-> request'[p]]
        /\ \A p \in Requests \ {q} : request'[p] = request[p]
        /\ request'[q].at \in {"checked", "idle"}
        /\ request'[q].at = "checked" =>
              /\ request'[q].user = request[q].user /\ request[q].user \in Users
              /\ request'[q].new \in NewRoles /\ request'[q].was = "none"
    BY <1>7 DEF CheckInvite, Checked, TeamTypes, RequestShape, Members
  <2>1. TeamTypes' /\ RequestShape' /\ InviteShape'
    BY <2>0 DEF TeamTypes, RequestShape, InviteShape
  <2>2. TokensOnce' /\ TokenMeaning'
    BY <2>0 DEF TokensOnce, TokenMeaning
  <2>3. GrantedAsMailed' /\ OwnerRemains' /\ Housed'
    BY <2>0 DEF GrantedAsMailed, OwnerRemains, Owners, Housed, Members
  <2> QED
    BY <2>1, <2>2, <2>3
<1>8. ASSUME NEW q \in Requests, Store(q)
      PROVE  TeamInv'
  <2> DEFINE r == request[q]
             entry == [id |-> IF invite[r.user] = NoInvite THEN tokens + 1 ELSE invite[r.user].id,
                     token |-> tokens + 1, role |-> r.new, live |-> TRUE]
             waiting == [at |-> "stored", kind |-> "invite", user |-> r.user, new |-> r.new,
                        id |-> invite'[r.user].id, token |-> tokens + 1]
  <2>1. /\ r.at = "checked" /\ tokens' = tokens + 1
        /\ UNCHANGED <<role, people, mailed, granted, removed, tab>>
    BY <1>8 DEF Store
  <2>2. r.user \in Users /\ r.new \in NewRoles /\ r.was = "none"
    BY <2>1 DEF RequestShape
  <2>3. /\ entry.token = tokens + 1 /\ entry.role = r.new
        /\ waiting.at = "stored" /\ waiting.user = r.user /\ waiting.new = r.new
        /\ waiting.token = tokens + 1
    OBVIOUS
  <2>4. invite' = [invite EXCEPT ![r.user] = entry] /\ request' = [request EXCEPT ![q] = waiting]
    BY <1>8 DEF Store
  <2> HIDE DEF entry, waiting
  <2>5. /\ request' = [p \in Requests |-> request'[p]] /\ request'[q] = waiting
        /\ \A p \in Requests \ {q} : request'[p] = request[p]
        /\ invite' = [v \in Users |-> invite'[v]] /\ invite'[r.user] = entry
        /\ \A v \in Users \ {r.user} : invite'[v] = invite[v]
    BY <2>2, <2>4, RequestTo, InviteTo
  <2>6. ~raced' => ~raced /\ role[r.user] = r.was
    BY <1>8 DEF Store
  <2>7. TeamTypes'
    BY <2>1, <2>5 DEF TeamTypes
  <2>8. RequestShape' /\ InviteShape'
    BY <2>1, <2>2, <2>3, <2>5, <2>6 DEF RequestShape, InviteShape
  <2>9. TokensOnce'
    <3>1. \A v \in Users : invite'[v] # NoInvite =>
              \/ v = r.user /\ invite'[v].token = tokens + 1
              \/ v # r.user /\ invite'[v] = invite[v] /\ invite'[v].token \in 1..tokens
      BY <2>3, <2>5 DEF TokensOnce
    <3>2. tokens \in Nat /\ \A i \in DOMAIN granted : granted[i].token \in 1..tokens
      BY DEF TeamTypes, TokensOnce
    <3>3. \A v \in Users : invite'[v] # NoInvite =>
              /\ invite'[v].token \in 1..tokens'
              /\ \A i \in DOMAIN granted : granted[i].token # invite'[v].token
      BY <2>1, <3>1, <3>2 DEF TokensOnce
    <3>4. \A v, w \in Users : invite'[v] # NoInvite /\ invite'[w] # NoInvite
              /\ invite'[v].token = invite'[w].token => v = w
      BY <3>1, <3>2 DEF TokensOnce
    <3>5. /\ \A m \in mailed : m.token \in 1..tokens'
          /\ \A p \in Requests : request'[p].at = "stored" => request'[p].token \in 1..tokens'
      BY <2>1, <2>3, <2>5, <3>2 DEF TokensOnce
    <3> QED
      BY <2>1, <3>2, <3>3, <3>4, <3>5 DEF TokensOnce
  <2>10. TokenMeaning'
    <3>1. tokens \in Nat /\ tokens + 1 \notin 1..tokens
      BY DEF TeamTypes
    <3>2. \A v \in Users : invite'[v] # NoInvite =>
              \A m \in mailed : m.token = invite'[v].token =>
                  m.user = v /\ m.role = invite'[v].role
      BY <2>3, <2>5, <3>1 DEF TokensOnce, TokenMeaning
    <3>3. \A v \in Users : invite'[v] # NoInvite =>
              \A p \in Requests : request'[p].at = "stored"
                  /\ request'[p].token = invite'[v].token =>
                  request'[p].user = v /\ request'[p].new = invite'[v].role
      BY <2>2, <2>3, <2>5, <3>1 DEF TokensOnce, TokenMeaning
    <3> QED
      BY <2>1, <3>2, <3>3 DEF TokenMeaning
  <2>11. GrantedAsMailed' /\ OwnerRemains' /\ Housed'
    BY <2>1, <2>6 DEF GrantedAsMailed, OwnerRemains, Owners, Housed, Members
  <2> QED
    BY <2>7, <2>8, <2>9, <2>10, <2>11
<1>9. ASSUME NEW q \in Requests, Mail(q)
      PROVE  TeamInv'
  <2> DEFINE r == request[q]
             letter == [user |-> r.user, token |-> r.token, role |-> r.new]
  <2>0. /\ r.at = "stored" /\ request' = [request EXCEPT ![q] = [at |-> "idle"]]
        /\ mailed' = mailed \/ mailed' = mailed \cup {letter}
        /\ invite' = invite \/ invite' = [invite EXCEPT ![r.user] = NoInvite]
        /\ UNCHANGED <<role, people, tokens, granted, removed, raced, tab>>
    BY <1>9 DEF Mail
  <2>8. /\ request' = [p \in Requests |-> request'[p]] /\ request'[q].at = "idle"
        /\ \A p \in Requests \ {q} : request'[p] = request[p]
    BY <2>0, RequestTo
  <2>9. /\ r.user \in Users /\ invite' = [v \in Users |-> invite'[v]]
        /\ \A v \in Users : invite'[v] = invite[v] \/ invite'[v] = NoInvite
    BY <2>0, InviteTo DEF TeamTypes, RequestShape
  <2>1. /\ letter \in [user : Users, token : Nat, role : NewRoles]
        /\ letter.token \in 1..tokens
    BY <2>0 DEF TeamTypes, RequestShape, TokensOnce
  <2>2. TeamTypes'
    BY <2>0, <2>1, <2>8, <2>9 DEF TeamTypes
  <2>3. RequestShape'
    BY <2>8 DEF RequestShape
  <2>4. InviteShape'
    BY <2>0, <2>9 DEF InviteShape
  <2>5. TokensOnce'
    BY <2>0, <2>1, <2>8, <2>9 DEF TokensOnce
  <2>6. TokenMeaning'
    BY <2>0, <2>8, <2>9 DEF TokenMeaning
  <2>7. GrantedAsMailed' /\ OwnerRemains' /\ Housed'
    BY <2>0 DEF GrantedAsMailed, OwnerRemains, Owners, Housed, Members
  <2> QED
    BY <2>2, <2>3, <2>4, <2>5, <2>6, <2>7
<1>10. ASSUME NEW q \in Requests, ReadTarget(q)
       PROVE  TeamInv'
  <2>0. /\ UNCHANGED <<role, people, mail, removed, raced, tab>>
        /\ request' = [p \in Requests |-> request'[p]]
        /\ \A p \in Requests \ {q} : request'[p] = request[p]
        /\ request[q].at = "asked" /\ request'[q].at \in {"read", "idle"}
        /\ request'[q].at = "read" =>
              /\ request'[q].user = request[q].user /\ request'[q].kind = request[q].kind
              /\ request'[q].new = request[q].new /\ request'[q].was # "none"
    BY <1>10 DEF ReadTarget, TeamTypes, Members
  <2>1. TeamTypes' /\ RequestShape' /\ InviteShape'
    BY <2>0 DEF TeamTypes, RequestShape, InviteShape
  <2>2. TokensOnce' /\ TokenMeaning'
    BY <2>0 DEF TokensOnce, TokenMeaning
  <2>3. GrantedAsMailed' /\ OwnerRemains' /\ Housed'
    BY <2>0 DEF GrantedAsMailed, OwnerRemains, Owners, Housed, Members
  <2> QED
    BY <2>1, <2>2, <2>3
<1>11. ASSUME NEW q \in Requests, Judge(q)
       PROVE  TeamInv'
  <2>1. Cardinality(Owners) \in Nat
    BY FS_Subset, FS_CardinalityType DEF Owners
  <2>0. /\ UNCHANGED <<role, people, mail, removed, raced, tab>>
        /\ request' = [p \in Requests |-> request'[p]]
        /\ \A p \in Requests \ {q} : request'[p] = request[p]
        /\ request[q].at = "read" /\ request'[q].at \in {"judged", "idle"}
        /\ request'[q].at = "judged" =>
              /\ request'[q].user = request[q].user /\ request'[q].kind = request[q].kind
              /\ request'[q].new = request[q].new /\ request'[q].was = request[q].was
              /\ request'[q].owners \in Nat
              /\ request[q].was = "owner"
                    /\ (request[q].kind = "remove" \/ request[q].new # "owner") =>
                    request'[q].owners > 1
    BY <1>11, <2>1 DEF Judge, TeamTypes, MayChange, MayRemove
  <2>2. TeamTypes' /\ InviteShape'
    BY <2>0 DEF TeamTypes, InviteShape
  <2>5. RequestShape'
    BY <2>0 DEF RequestShape
  <2>3. TokensOnce' /\ TokenMeaning'
    BY <2>0 DEF TokensOnce, TokenMeaning
  <2>4. GrantedAsMailed' /\ OwnerRemains' /\ Housed'
    BY <2>0 DEF GrantedAsMailed, OwnerRemains, Owners, Housed, Members
  <2> QED
    BY <2>2, <2>3, <2>4, <2>5
<1>12. ASSUME NEW q \in Requests, Write(q)
       PROVE  TeamInv'
  <2> DEFINE r == request[q]
  <2>0. PICK new \in Roles \cup {"none"} :
           /\ r.at = "judged" /\ r.user \in Users /\ r.owners \in Nat
           /\ role' = [role EXCEPT ![r.user] = new]
           /\ request' = [request EXCEPT ![q] = [at |-> "idle"]]
           /\ new = "none" => removed' = removed \cup {r.user}
           /\ new # "none" => removed' = removed
           /\ r.was = "owner" /\ new # "owner" => r.owners > 1
           /\ r.was # "none"
           /\ UNCHANGED <<people, mail, tab>>
    BY <1>12 DEF Write, TeamTypes, RequestShape, Roles, RANK
  <2>1. ~raced' => ~raced /\ role[r.user] = r.was /\ ~(Cardinality(Owners) < r.owners)
    BY <1>12 DEF Write
  <2>7. /\ request' = [p \in Requests |-> request'[p]] /\ request'[q].at = "idle"
        /\ \A p \in Requests \ {q} : request'[p] = request[p]
    BY <2>0, RequestTo
  <2>2. TeamTypes'
    BY <2>0, <2>7 DEF TeamTypes
  <2>3. RequestShape' /\ InviteShape'
    BY <2>0, <2>1, <2>7 DEF TeamTypes, RequestShape, InviteShape
  <2>4. TokensOnce' /\ TokenMeaning'
    BY <2>0, <2>7 DEF TokensOnce, TokenMeaning
  <2>5. OwnerRemains'
    <3> SUFFICES ASSUME ~raced' PROVE Owners' # {}
      BY DEF OwnerRemains
    <3>1. Owners \ {r.user} \subseteq Owners'
      BY <2>0 DEF TeamTypes, Owners
    <3>2. CASE r.was = "owner" /\ new # "owner"
      <4>1. IsFiniteSet(Owners) /\ Cardinality(Owners) \in Nat
        BY FS_Subset, FS_CardinalityType DEF Owners
      <4> QED
        BY <2>0, <2>1, <3>1, <3>2, <4>1, AnotherOne
    <3>3. CASE r.was # "owner" \/ new = "owner"
      BY <2>0, <2>1, <3>1, <3>3 DEF TeamTypes, OwnerRemains, Owners
    <3> QED
      BY <3>2, <3>3
  <2>6. Housed' /\ GrantedAsMailed'
    BY <2>0 DEF TeamTypes, Housed, Members, GrantedAsMailed
  <2> QED
    BY <2>2, <2>3, <2>4, <2>5, <2>6
<1>13. ASSUME NEW t \in Tabs, NEW m \in mailed, Find(t, m)
       PROVE  TeamInv'
  <2>0. PICK found :
           /\ tab' = [tab EXCEPT ![t] = found]
           /\ found.user = m.user /\ found.token = m.token
    <3> DEFINE found == [at |-> "found", user |-> m.user, id |-> invite[m.user].id,
                         token |-> m.token, known |-> m.user \in account]
    <3>1. found.user = m.user /\ found.token = m.token
      OBVIOUS
    <3>2. tab' = [tab EXCEPT ![t] = found]
      BY <1>13 DEF Find
    <3> HIDE DEF found
    <3> QED
      BY <3>1, <3>2
  <2>1. UNCHANGED <<role, people, mail, removed, raced, request>>
    BY <1>13 DEF Find
  <2>6. /\ tab' = [o \in Tabs |-> tab'[o]] /\ tab'[t] = found
        /\ \A o \in Tabs \ {t} : tab'[o] = tab[o]
    BY <2>0, TabTo
  <2>2. TeamTypes'
    BY <2>1, <2>6 DEF TeamTypes
  <2>3. RequestShape' /\ InviteShape' /\ TokensOnce'
    BY <2>1 DEF RequestShape, InviteShape, TokensOnce
  <2>4. TokenMeaning'
    BY <2>0, <2>1, <2>6 DEF TokenMeaning
  <2>5. GrantedAsMailed' /\ OwnerRemains' /\ Housed'
    BY <2>1 DEF GrantedAsMailed, OwnerRemains, Owners, Housed, Members
  <2> QED
    BY <2>2, <2>3, <2>4, <2>5
<1>14. ASSUME NEW t \in Tabs, Claim(t)
       PROVE  TeamInv'
  <2> DEFINE a == tab[t]
             entry == invite[a.user]
             grant == [user |-> a.user, token |-> a.token, role |-> entry.role]
  <2>0. /\ a.at = "found" /\ tab' = [tab EXCEPT ![t] = [at |-> "idle"]]
        /\ UNCHANGED <<own, signup, tokens, mailed, removed, raced, request>>
    BY <1>14 DEF Claim
  <2>3. /\ tab' = [o \in Tabs |-> tab'[o]] /\ tab'[t].at = "idle"
        /\ \A o \in Tabs \ {t} : tab'[o] = tab[o]
    BY <2>0, TabTo
  <2>1. CASE UNCHANGED <<role, account, invite, granted>>
    <3>1. TeamTypes'
      BY <2>0, <2>1, <2>3 DEF TeamTypes
    <3>4. TokenMeaning'
      BY <2>0, <2>1, <2>3 DEF TokenMeaning
    <3>2. RequestShape' /\ InviteShape' /\ TokensOnce'
      BY <2>0, <2>1 DEF RequestShape, InviteShape, TokensOnce
    <3>3. GrantedAsMailed' /\ OwnerRemains' /\ Housed'
      BY <2>0, <2>1 DEF GrantedAsMailed, OwnerRemains, Owners, Housed, Members
    <3> QED
      BY <3>1, <3>2, <3>3, <3>4
  <2>2. CASE /\ entry # NoInvite /\ entry.token = a.token
             /\ invite' = [invite EXCEPT ![a.user] = NoInvite]
             /\ account' = account \cup {a.user}
             /\ role' = [role EXCEPT ![a.user] = entry.role]
             /\ granted' = Append(granted, grant)
    <3>1. PICK m \in mailed : m.user = a.user /\ m.token = a.token
      BY <2>0 DEF TokenMeaning
    <3>11. a.user \in Users /\ m = [user |-> m.user, token |-> m.token, role |-> m.role]
      BY <3>1 DEF TeamTypes
    <3>12. entry.role \in NewRoles /\ m.role = entry.role
      BY <2>2, <3>1, <3>11 DEF InviteShape, TokenMeaning
    <3>2. a.user \in Users /\ entry.role \in NewRoles /\ m.role = entry.role /\ grant = m
      BY <3>1, <3>11, <3>12
    <3>13. /\ invite' = [v \in Users |-> invite'[v]] /\ invite'[a.user] = NoInvite
           /\ \A v \in Users \ {a.user} : invite'[v] = invite[v]
      BY <2>2, <3>2, InviteTo
    <3>14. entry.role \in Roles
      BY <3>2 DEF Roles, RANK
    <3>3. /\ granted' \in Seq([user : Users, token : Nat, role : NewRoles])
          /\ DOMAIN granted' = DOMAIN granted \cup {Len(granted) + 1}
          /\ DOMAIN granted = 1..Len(granted) /\ Len(granted) \in Nat
          /\ granted'[Len(granted) + 1] = m
          /\ \A i \in DOMAIN granted : granted'[i] = granted[i]
      BY <2>2, <3>1, <3>2, AppendProperties DEF TeamTypes
    <3>4. TeamTypes'
      BY <2>0, <2>2, <2>3, <3>2, <3>3, <3>13, <3>14 DEF TeamTypes
    <3>5. RequestShape' /\ InviteShape'
      BY <2>0, <2>2, <3>2 DEF TeamTypes, RequestShape, InviteShape
    <3>6. TokensOnce'
      BY <2>0, <2>2, <3>1, <3>2, <3>3 DEF TeamTypes, TokensOnce
    <3>7. TokenMeaning'
      BY <2>0, <2>3, <3>2, <3>13 DEF TokenMeaning
    <3>8. GrantedAsMailed'
      BY <2>0, <2>2, <3>1, <3>2, <3>3 DEF TeamTypes, TokensOnce, GrantedAsMailed, IsInjective
    <3>9. OwnerRemains'
      BY <2>0, <2>2, <3>2 DEF TeamTypes, InviteShape, OwnerRemains, Owners
    <3>10. Housed'
      BY <2>0, <2>2, <3>2, <3>14 DEF TeamTypes, Housed, Members, Roles
    <3> QED
      BY <3>4, <3>5, <3>6, <3>7, <3>8, <3>9, <3>10
  <2> QED
    BY <1>14, <2>1, <2>2 DEF Claim
<1>15. CASE UNCHANGED team
  BY <1>15 DEF team, TeamTypes, RequestShape, InviteShape, TokensOnce, TokenMeaning,
               GrantedAsMailed, OwnerRemains, Owners, Housed, Members
<1> QED
  BY <1>1, <1>2, <1>3, <1>4, <1>5, <1>6, <1>7, <1>8, <1>9, <1>10, <1>11, <1>12, <1>13,
     <1>14, <1>15 DEF TeamNext, Manage

\* The invariant, of the six books together: the other five never write the team.
THEOREM TeamHolds == Spec => []TeamInv
<1>1. Init => TeamInv
  BY TeamStart DEF Init
<1>2. TeamInv /\ [Next]_vars => TeamInv'
  <2> SUFFICES ASSUME TeamInv, [Next]_vars PROVE TeamInv'
    OBVIOUS
  <2>1. [TeamNext]_team
    BY DEF Next, vars
  <2> QED
    BY <2>1, TeamStep
<1> QED
  BY <1>1, <1>2, PTL DEF Spec

\* A token grants access once at most, with the role its mail named
\* (accept/route.ts:64), however sending again, expiry and two tabs interleave.
THEOREM Granted == Spec => []GrantedAsMailed
BY TeamHolds, PTL DEF TeamInv

\* No sequence of changes of role and removals takes the last owner away, as long as no
\* request writes over a change it had not seen (roles.ts, organizations/members/route.ts).
THEOREM OwnerKept == Spec => []OwnerRemains
BY TeamHolds, PTL DEF TeamInv

\* Whoever has an account has a workspace to use it in, unless the signup was cut
\* between the two (signup/route.ts) or the person has been removed.
THEOREM HousedAlways == Spec => []Housed
BY TeamHolds, PTL DEF TeamInv

(***************************************************************************)
(* The appointments.                                                       *)
(***************************************************************************)

\* Why an appointment of this time may be booked or active over an earlier one that was
\* seen when it was checked.
Excused(a, by, from) == a.id \in reopened \/ (by = "tool" /\ Day(a.from) # Day(from))

CalendarTypes ==
    /\ IsFiniteSet(appointments)
    /\ appointments \subseteq [id : Nat, from : Nat, to : Nat, status : Statuses,
                               by : {"form", "tool"}, seen : SUBSET Nat]
    /\ booking = [q \in Bookers |-> booking[q]]
    /\ \A q \in Bookers : booking[q].at = "free" =>
          /\ booking[q].window \in Windows /\ booking[q].by \in {"form", "tool"}
          /\ booking[q].seen \in SUBSET Nat

\* Appointments are numbered in the order they are booked.
IdsInOrder ==
    /\ \A a \in appointments : a.id \in 1..Cardinality(appointments)
    /\ \A a, b \in appointments : a.id = b.id => a = b
    /\ \A q \in Bookers : booking[q].at = "free" =>
          booking[q].seen \subseteq 1..Cardinality(appointments)

\* What was free when it was checked is free, but for what has been reopened.
StillFree ==
    \A q \in Bookers : booking[q].at = "free" =>
        \A a \in appointments :
            a.id \in booking[q].seen /\ a.status \in Active /\ Overlap(a, booking[q].window) =>
                Excused(a, booking[q].by, booking[q].window.from)

CalendarInv == CalendarTypes /\ IdsInOrder /\ StillFree /\ OverlapsExplained

\* An empty calendar.
LEMMA CalendarStart == CalendarInit => CalendarInv
BY FS_EmptySet
DEF CalendarInit, CalendarInv, CalendarTypes, IdsInOrder, StillFree, OverlapsExplained,
    NoBooking

\* Looking, inserting and every change of status keep it.
LEMMA CalendarStep == ASSUME CalendarInv, [CalendarNext]_calendar PROVE CalendarInv'
<1> USE CalendarAssumption DEF CalendarInv
<1>0. Cardinality(appointments) \in Nat
  BY FS_CardinalityType DEF CalendarTypes
<1>1. ASSUME NEW q \in Bookers, NEW by \in {"form", "tool"}, NEW w \in Windows,
             Check(q, by, w)
      PROVE  CalendarInv'
  <2> DEFINE b == [at |-> "free", by |-> by, window |-> w,
                   seen |-> {a.id : a \in appointments}]
  <2>1. b.at = "free" /\ b.by = by /\ b.window = w /\ b.seen = {a.id : a \in appointments}
    OBVIOUS
  <2>2. booking' = [booking EXCEPT ![q] = b] /\ UNCHANGED <<appointments, reopened>>
    BY <1>1 DEF Check
  <2> HIDE DEF b
  <2>3. /\ booking' = [p \in Bookers |-> booking'[p]] /\ booking'[q] = b
        /\ \A p \in Bookers \ {q} : booking'[p] = booking[p]
    BY <2>2 DEF CalendarTypes
  <2>4. CalendarTypes'
    BY <2>1, <2>2, <2>3 DEF CalendarTypes
  <2>5. IdsInOrder'
    BY <2>1, <2>2, <2>3 DEF IdsInOrder
  <2>6. \A a \in appointments : a.status \in Active /\ Overlap(a, w) => Excused(a, by, w.from)
    <3>1. CASE by = "form"
      BY <1>1, <3>1 DEF Check, Available
    <3>2. CASE by = "tool"
      BY <1>1, <3>2 DEF Check, FreeOnDay, Excused, Active
    <3> QED
      BY <3>1, <3>2
  <2>7. StillFree'
    BY <2>1, <2>2, <2>3, <2>6 DEF StillFree, Excused
  <2>8. OverlapsExplained'
    BY <2>2 DEF OverlapsExplained
  <2> QED
    BY <2>4, <2>5, <2>7, <2>8
<1>2. ASSUME NEW q \in Bookers, Book(q)
      PROVE  CalendarInv'
  <2> DEFINE b == booking[q]
             new == [id |-> Cardinality(appointments) + 1, from |-> b.window.from,
                     to |-> b.window.to, status |-> "scheduled", by |-> b.by,
                     seen |-> b.seen]
  <2>1. /\ b.at = "free" /\ appointments' = appointments \cup {new}
        /\ booking' = [booking EXCEPT ![q] = NoBooking] /\ UNCHANGED reopened
    BY <1>2 DEF Book
  <2>2. /\ new.id = Cardinality(appointments) + 1 /\ new.from = b.window.from
        /\ new.to = b.window.to /\ new.by = b.by /\ new.seen = b.seen
    OBVIOUS
  <2>3. new \in [id : Nat, from : Nat, to : Nat, status : Statuses,
                 by : {"form", "tool"}, seen : SUBSET Nat]
    BY <1>0, <2>1 DEF CalendarTypes, Statuses
  <2> HIDE DEF new
  <2>4. /\ booking' = [p \in Bookers |-> booking'[p]] /\ booking'[q].at = "idle"
        /\ \A p \in Bookers \ {q} : booking'[p] = booking[p]
    BY <2>1 DEF CalendarTypes, NoBooking
  <2>5. new \notin appointments
    BY <1>0, <2>2 DEF IdsInOrder
  <2>6. /\ IsFiniteSet(appointments')
        /\ Cardinality(appointments') = Cardinality(appointments) + 1
    BY <2>1, <2>5, FS_AddElement DEF CalendarTypes
  <2>7. CalendarTypes'
    BY <2>1, <2>3, <2>4, <2>6 DEF CalendarTypes
  <2>8. IdsInOrder'
    <3>1. \A a \in appointments' : a.id \in 1..Cardinality(appointments)'
      BY <1>0, <2>1, <2>2, <2>6 DEF IdsInOrder
    <3>2. \A a, c \in appointments' : a.id = c.id => a = c
      BY <1>0, <2>1, <2>2 DEF IdsInOrder
    <3>3. \A p \in Bookers : booking'[p].at = "free" =>
              booking'[p].seen \subseteq 1..Cardinality(appointments)
      BY <2>4 DEF IdsInOrder
    <3>4. 1..Cardinality(appointments) \subseteq 1..Cardinality(appointments)'
      BY <1>0, <2>6
    <3> QED
      BY <3>1, <3>2, <3>3, <3>4 DEF IdsInOrder
  <2>9. b.seen \subseteq 1..Cardinality(appointments) /\ new.id \notin b.seen
    BY <1>0, <2>1, <2>2 DEF IdsInOrder
  <2>10. StillFree'
    <3> SUFFICES ASSUME NEW p \in Bookers, booking'[p].at = "free", NEW a \in appointments',
                        a.id \in booking'[p].seen, a.status \in Active,
                        Overlap(a, booking'[p].window)
                 PROVE  Excused(a, booking'[p].by, booking'[p].window.from)
      BY <2>1 DEF StillFree, Excused
    <3>1. p # q /\ booking'[p] = booking[p]
      BY <2>4
    <3>2. a \in appointments
      BY <1>0, <2>1, <2>2, <3>1 DEF IdsInOrder
    <3> QED
      BY <3>1, <3>2 DEF StillFree
  <2>11. OverlapsExplained'
    <3> SUFFICES ASSUME NEW a \in appointments', NEW c \in appointments', a.id < c.id,
                        a.status \in Active, c.status \in Active, Overlap(a, c),
                        a.id \in c.seen
                 PROVE  \/ {a.id, c.id} \cap reopened # {}
                        \/ c.by = "tool" /\ Day(a.from) # Day(c.from)
      BY <2>1 DEF OverlapsExplained
    <3>1. a \in appointments
      BY <1>0, <2>1, <2>2, <2>9 DEF IdsInOrder
    <3>2. CASE c \in appointments
      BY <3>1, <3>2 DEF OverlapsExplained
    <3>3. CASE c = new
      <4>1. Overlap(a, b.window) /\ a.id \in b.seen
        BY <2>2, <3>3 DEF Overlap
      <4>2. Excused(a, b.by, b.window.from)
        BY <2>1, <3>1, <4>1 DEF StillFree
      <4> QED
        BY <2>2, <3>3, <4>2 DEF Excused
    <3> QED
      BY <2>1, <3>2, <3>3
  <2> QED
    BY <2>7, <2>8, <2>10, <2>11
<1>3. ASSUME NEW a \in appointments, NEW status \in Statuses, SetStatus(a, status)
      PROVE  CalendarInv'
  <2> DEFINE new == [a EXCEPT !.status = status]
             others == appointments \ {a}
  <2>1. /\ appointments' = others \cup {new} /\ UNCHANGED booking
        /\ reopened \subseteq reopened'
        /\ status \in Active /\ a.status \notin Active => a.id \in reopened'
    BY <1>3 DEF SetStatus
  <2>2. /\ new \in [id : Nat, from : Nat, to : Nat, status : Statuses,
                    by : {"form", "tool"}, seen : SUBSET Nat]
        /\ new.id = a.id /\ new.from = a.from /\ new.to = a.to /\ new.by = a.by
        /\ new.seen = a.seen /\ new.status = status
    BY DEF CalendarTypes
  <2> HIDE DEF new
  <2>3. new \notin others
    BY <2>2 DEF IdsInOrder
  <2>4. IsFiniteSet(others) /\ Cardinality(others) = Cardinality(appointments) - 1
    BY FS_RemoveElement DEF CalendarTypes
  <2>5. /\ IsFiniteSet(appointments')
        /\ Cardinality(appointments') = Cardinality(appointments)
    <3> HIDE DEF others
    <3>1. /\ IsFiniteSet(others \cup {new})
          /\ Cardinality(others \cup {new}) = Cardinality(others) + 1
      BY <2>3, <2>4, FS_AddElement
    <3> QED
      BY <1>0, <2>1, <2>4, <3>1
  <2>6. CalendarTypes'
    BY <2>1, <2>2, <2>5 DEF CalendarTypes
  <2>7. IdsInOrder'
    <3>1. \A c \in appointments' : c.id \in 1..Cardinality(appointments)
      BY <2>1, <2>2 DEF IdsInOrder
    <3>2. \A c, d \in appointments' : c.id = d.id => c = d
      BY <2>1, <2>2 DEF IdsInOrder
    <3> QED
      BY <2>1, <2>5, <3>1, <3>2 DEF IdsInOrder
  \* Each appointment is what it was, but for the one that has the new status.
  <2>8. \A c \in appointments' : \E d \in appointments :
            /\ c.id = d.id /\ c.from = d.from /\ c.to = d.to /\ c.by = d.by
            /\ c.seen = d.seen
            /\ c.status \in Active => d.status \in Active \/ c.id \in reopened'
    BY <2>1, <2>2
  <2>9. StillFree'
    BY <2>1, <2>8 DEF StillFree, Excused, Overlap
  <2>10. OverlapsExplained'
    BY <2>1, <2>8 DEF OverlapsExplained, Overlap
  <2> QED
    BY <2>6, <2>7, <2>9, <2>10
<1>4. CASE UNCHANGED calendar
  BY <1>4 DEF calendar, CalendarTypes, IdsInOrder, StillFree, Excused, OverlapsExplained
<1> QED
  BY <1>1, <1>2, <1>3, <1>4 DEF CalendarNext

\* Two active appointments overlap only for one of the causes OverlapsExplained names:
\* although the form and the tool look by different rules, each sees what the other has
\* booked (appointments/route.ts, book_appointment.py).
THEOREM OverlapsAlways == Spec => []OverlapsExplained
<1>1. Init => CalendarInv
  BY CalendarStart DEF Init
<1>2. CalendarInv /\ [Next]_vars => CalendarInv'
  <2> SUFFICES ASSUME CalendarInv, [Next]_vars PROVE CalendarInv'
    OBVIOUS
  <2>1. [CalendarNext]_calendar
    BY DEF Next, vars
  <2> QED
    BY <2>1, CalendarStep
<1>3. CalendarInv => OverlapsExplained
  BY DEF CalendarInv
<1> QED
  BY <1>1, <1>2, <1>3, PTL DEF Spec

(***************************************************************************)
(* The numbers.                                                            *)
(***************************************************************************)

\* Before a row has overtaken another or been reactivated at most one row is active,
\* and a clerk who has found no row has seen no active one.
NumbersInv ==
    /\ number = [o \in Orgs |-> number[o]] /\ registering = [q \in Clerks |-> registering[q]]
    /\ \A q \in Clerks : registering[q].at = "found" =>
          /\ registering[q].org \in Orgs
          /\ registering[q].found = NoRow => registering[q].seen = {}
    /\ ~overtaken /\ ~reactivated => \A o, p \in ActiveRows : o = p

\* No workspace has the number.
LEMMA NumbersStart == NumbersInit => NumbersInv
BY DEF NumbersInit, NumbersInv, ActiveRows, NoRegistration

\* Registering, updating and deleting keep it.
LEMMA NumbersStep == ASSUME NumbersInv, [NumbersNext]_numbers PROVE NumbersInv'
<1> USE NumbersAssumption
<1>1. ASSUME NEW q \in Clerks, NEW o \in Orgs, NEW agent, Register(q, o, agent)
      PROVE  NumbersInv'
  <2>1. PICK found \in IF ActiveRows # {} THEN ActiveRows ELSE {NoRow} :
           registering' = [registering EXCEPT ![q] =
              [at |-> "found", org |-> o, agent |-> agent, found |-> found,
               key |-> Key(found), seen |-> ActiveRows]]
    BY <1>1 DEF Register
  <2> DEFINE r == [at |-> "found", org |-> o, agent |-> agent, found |-> found,
                   key |-> Key(found), seen |-> ActiveRows]
  <2>2. r.org = o /\ (r.found = NoRow => r.seen = {})
    BY <2>1 DEF ActiveRows
  <2>3. registering' = [registering EXCEPT ![q] = r]
    BY <2>1
  <2> HIDE DEF r
  <2>4. UNCHANGED <<number, overtaken, reactivated>>
    BY <1>1 DEF Register
  <2> QED
    BY <2>2, <2>3, <2>4 DEF NumbersInv, ActiveRows
<1>2. ASSUME NEW q \in Clerks, Answer(q)
      PROVE  NumbersInv'
  <2> DEFINE r == registering[q]
             mine == number[r.org]
  <2>1. /\ r.at = "found" /\ r.org \in Orgs
        /\ registering' = [registering EXCEPT ![q] = NoRegistration]
        /\ UNCHANGED reactivated
    BY <1>2 DEF Answer, NumbersInv
  <2>2. /\ registering' = [p \in Clerks |-> registering'[p]]
        /\ registering'[q].at = "idle"
        /\ \A p \in Clerks \ {q} : registering'[p] = registering[p]
    BY <2>1 DEF NumbersInv, NoRegistration
  <2>3. CASE UNCHANGED <<number, overtaken>>
    BY <2>1, <2>2, <2>3 DEF NumbersInv, ActiveRows
  <2>4. CASE /\ mine # NoRow /\ UNCHANGED overtaken
             /\ number' = [number EXCEPT ![r.org] = Revised(mine, mine.status, r.agent)]
    <3>1. Revised(mine, mine.status, r.agent).status = mine.status
      BY DEF Revised
    <3>2. number' = [o \in Orgs |-> number'[o]]
      BY <2>1, <2>4 DEF NumbersInv
    <3>3. ActiveRows' \subseteq ActiveRows
      BY <2>1, <2>4, <3>1 DEF NumbersInv, ActiveRows
    <3> QED
      BY <2>1, <2>2, <2>4, <3>2, <3>3 DEF NumbersInv
  <2>5. CASE /\ r.found = NoRow /\ mine = NoRow
             /\ number' = [number EXCEPT ![r.org] =
                     [key |-> updates, status |-> "active", agent |-> r.agent]]
             /\ overtaken' = (overtaken \/ ActiveRows # r.seen)
    <3>1. number' = [o \in Orgs |-> number'[o]]
      BY <2>1, <2>5 DEF NumbersInv
    <3>2. ActiveRows' \subseteq ActiveRows \cup {r.org}
      BY <2>1, <2>5 DEF NumbersInv, ActiveRows
    <3>3. ~overtaken' => ~overtaken /\ ActiveRows = {}
      BY <2>1, <2>5 DEF NumbersInv
    <3> QED
      BY <2>1, <2>2, <3>1, <3>2, <3>3 DEF NumbersInv
  <2> QED
    BY <1>2, <2>3, <2>4, <2>5 DEF Answer
<1>3. ASSUME NEW o \in Orgs, Update(o)
      PROVE  NumbersInv'
  <2>1. PICK status \in NumberStatuses, agent \in agents[o] \cup {NoAgent} :
           /\ number' = [number EXCEPT ![o] = Revised(number[o], status, agent)]
           /\ reactivated' = (reactivated \/ (status = "active" /\ o \notin ActiveRows))
    BY <1>3 DEF Update
  <2>2. UNCHANGED <<registering, overtaken>>
    BY <1>3 DEF Update, Updates
  <2>3. number' = [p \in Orgs |-> number'[p]]
    BY <2>1 DEF NumbersInv
  <2>4. ~reactivated' => ActiveRows' \subseteq ActiveRows /\ ~reactivated
    BY <2>1 DEF NumbersInv, ActiveRows, Revised
  <2> QED
    BY <2>2, <2>3, <2>4 DEF NumbersInv
<1>4. ASSUME NEW o \in Orgs, Delete(o)
      PROVE  NumbersInv'
  BY <1>4 DEF Delete, Updates, NumbersInv, ActiveRows
<1>5. ASSUME NEW o \in Orgs, NEW agent, DeleteAgent(o, agent)
      PROVE  NumbersInv'
  BY <1>5 DEF DeleteAgent, Updates, NumbersInv, ActiveRows
<1>6. CASE UNCHANGED numbers
  BY <1>6 DEF numbers, NumbersInv, ActiveRows
<1> QED
  BY <1>1, <1>2, <1>3, <1>4, <1>5, <1>6 DEF NumbersNext

\* A number is active for one workspace at most, unless two registered it between each
\* other's look and insert or a row was set active by hand (phone-numbers/route.ts).
THEOREM NumberOwnedAlways == Spec => []NumberOwned
<1>1. Init => NumbersInv
  BY NumbersStart DEF Init
<1>2. NumbersInv /\ [Next]_vars => NumbersInv'
  <2> SUFFICES ASSUME NumbersInv, [Next]_vars PROVE NumbersInv'
    OBVIOUS
  <2>1. [NumbersNext]_numbers
    BY DEF Next, vars
  <2> QED
    BY <2>1, NumbersStep
<1>3. ASSUME NumbersInv PROVE NumberOwned
  <2> SUFFICES ASSUME ~overtaken /\ ~reactivated PROVE Cardinality(ActiveRows) <= 1
    BY DEF NumberOwned
  <2>1. ActiveRows = {} \/ \E o \in ActiveRows : ActiveRows = {o}
    BY <1>3 DEF NumbersInv
  <2>2. Cardinality({}) = 0 /\ \A o : Cardinality({o}) = 1
    BY FS_EmptySet, FS_Singleton
  <2> QED
    BY <2>1, <2>2
<1> QED
  BY <1>1, <1>2, <1>3, PTL DEF Spec

(***************************************************************************)
(* The contacts.                                                           *)
(***************************************************************************)

ContactRows == [doNotCall : BOOLEAN, notes : SUBSET Nat]

\* What a request carries from one write, or read, to the next, and when: a lead that
\* found the contact still finds it, for a contact is never deleted.
JobShape ==
    /\ job = [q \in Writers |-> job[q]]
    /\ \A q \in Writers :
          \/ job[q] = NoJob
          \/ /\ job[q].at = "flagged" /\ job[q].on \in BOOLEAN /\ contact # NoContact
          \/ /\ job[q].at = "lead" /\ job[q].note \in Nat /\ job[q].notes \in SUBSET Nat
             /\ job[q].found => contact # NoContact
             /\ ~job[q].found => job[q].notes = {}

\* Between two writes of a flag that no other has met, the contact has the new flag and
\* the list the old one; before there is a contact its number is on no list.
FlagsInOrder ==
    /\ contact = NoContact => ~listed
    /\ ~torn => \A p, q \in Flagging : p = q /\ contact.doNotCall = job[q].on

ContactsInv ==
    /\ contact # NoContact => contact \in ContactRows
    /\ listed \in BOOLEAN /\ torn \in BOOLEAN /\ notes \in Nat
    /\ JobShape /\ FlagsInOrder /\ FlagMatchesList /\ NotesKept

\* There is no contact and no number is listed.
LEMMA ContactsStart == ContactsInit => ContactsInv
<1> SUFFICES ASSUME ContactsInit PROVE ContactsInv
  OBVIOUS
<1>1. JobShape /\ Flagging = {}
  BY DEF ContactsInit, JobShape, Flagging, NoJob
<1>2. FlagsInOrder /\ FlagMatchesList /\ NotesKept
  BY <1>1 DEF ContactsInit, FlagsInOrder, FlagMatchesList, NotesKept
<1> QED
  BY <1>1, <1>2 DEF ContactsInit, ContactsInv

\* A row that is inserted is a contact.
LEMMA NewContact ==
    ASSUME NEW b \in BOOLEAN, NEW all \in SUBSET Nat,
           contact' = [doNotCall |-> b, notes |-> all]
    PROVE  /\ contact' \in ContactRows /\ contact'.doNotCall = b /\ contact'.notes = all
           /\ contact' # NoContact
<1>1. contact'.doNotCall = b /\ contact'.notes = all
  OBVIOUS
<1>2. [doNotCall |-> b, notes |-> all] \in [doNotCall : BOOLEAN, notes : SUBSET Nat]
  OBVIOUS
<1> QED
  BY <1>1, <1>2, ContactsAssumption DEF ContactRows

\* A step of one request leaves the others alone.
LEMMA JobTo ==
    ASSUME JobShape, NEW q \in Writers, NEW r, job' = [job EXCEPT ![q] = r]
    PROVE  /\ job' = [p \in Writers |-> job'[p]] /\ job'[q] = r
           /\ \A p \in Writers \ {q} : job'[p] = job[p]
BY DEF JobShape

\* A contact that was none is made, and one that was stays as it is.
LEMMA ContactMade ==
    ASSUME ContactsInv, UNCHANGED <<listed, job, saved, torn, blind, notes>>,
           contact' = IF contact = NoContact THEN [doNotCall |-> FALSE, notes |-> {}]
                                             ELSE contact
    PROVE  ContactsInv'
<1> USE DEF ContactsInv
<1>1. CASE contact = NoContact
  <2>1. /\ contact' \in ContactRows /\ contact'.doNotCall = FALSE /\ contact' # NoContact
    BY <1>1, NewContact
  <2>2. JobShape' /\ Flagging = {} /\ Flagging' = {}
    BY <1>1, <2>1 DEF JobShape, Flagging, NoJob
  <2> QED
    BY <1>1, <2>1, <2>2 DEF FlagsInOrder, FlagMatchesList, NotesKept
<1>2. CASE contact # NoContact
  BY <1>2 DEF JobShape, FlagsInOrder, FlagMatchesList, NotesKept, Flagging
<1> QED
  BY <1>1, <1>2

\* Each half of a flag's change, each half of a lead's, an upload and a cut keep it.
LEMMA ContactsStep == ASSUME ContactsInv, [ContactsNext]_contacts PROVE ContactsInv'
<1> USE ContactsAssumption DEF ContactsInv
\* A request that sets the flag of a contact that is there, or makes one with it.
<1>0. ASSUME NEW q \in Writers, NEW on \in BOOLEAN, job[q] = NoJob,
             contact' \in ContactRows, contact'.doNotCall = on,
             contact # NoContact => contact'.notes = contact.notes,
             Flagged(q, on), UNCHANGED <<listed, saved, blind, notes>>
      PROVE  ContactsInv'
  <2> DEFINE r == [at |-> "flagged", on |-> on]
  <2>1. r.at = "flagged" /\ r.on = on /\ r # NoJob
    BY DEF NoJob
  <2>2. /\ job' = [p \in Writers |-> job'[p]] /\ job'[q] = r
        /\ \A p \in Writers \ {q} : job'[p] = job[p]
    BY <1>0, JobTo DEF Flagged
  <2> HIDE DEF r
  <2>3. contact' # NoContact
    BY <1>0 DEF ContactRows
  <2>4. JobShape'
    BY <1>0, <2>1, <2>2, <2>3 DEF JobShape
  <2>5. q \notin Flagging /\ Flagging' = Flagging \cup {q} /\ torn' = (Flagging # {})
    BY <1>0, <2>1, <2>2 DEF Flagging, NoJob, Flagged
  <2>6. FlagsInOrder' /\ FlagMatchesList'
    BY <1>0, <2>1, <2>2, <2>3, <2>5 DEF FlagsInOrder, FlagMatchesList
  <2>7. NotesKept'
    BY <1>0, <2>3 DEF NotesKept
  <2> QED
    BY <1>0, <2>3, <2>4, <2>5, <2>6, <2>7
<1>1. ASSUME NEW q \in Writers, Create(q)
      PROVE  ContactsInv'
  <2>1. PICK on \in BOOLEAN :
           /\ contact' = [doNotCall |-> on, notes |-> {}]
           /\ IF on THEN Flagged(q, TRUE) ELSE UNCHANGED <<job, torn>>
    BY <1>1 DEF Create
  <2>2. /\ contact = NoContact /\ job[q] = NoJob /\ UNCHANGED <<listed, saved, blind, notes>>
    BY <1>1 DEF Create, Start
  <2>3. contact' \in ContactRows /\ contact'.doNotCall = on /\ contact' # NoContact
    BY <2>1 DEF ContactRows
  <2>4. CASE on
    BY <1>0, <2>1, <2>2, <2>3, <2>4
  <2>5. CASE ~on
    <3>1. UNCHANGED <<job, torn>> /\ Flagging = {}
      BY <2>1, <2>2, <2>5 DEF JobShape, Flagging, NoJob
    <3>2. JobShape' /\ Flagging' = {}
      BY <2>2, <2>3, <3>1 DEF JobShape, Flagging
    <3> QED
      BY <2>2, <2>3, <2>5, <3>1, <3>2 DEF FlagsInOrder, FlagMatchesList, NotesKept
  <2> QED
    BY <2>4, <2>5
<1>2. ASSUME NEW q \in Writers, SetFlag(q)
      PROVE  ContactsInv'
  <2>1. PICK on \in BOOLEAN :
           contact' = [contact EXCEPT !.doNotCall = on] /\ Flagged(q, on)
    BY <1>2 DEF SetFlag
  <2>2. /\ contact # NoContact /\ job[q] = NoJob /\ UNCHANGED <<listed, saved, blind, notes>>
    BY <1>2 DEF SetFlag, Start
  <2>3. /\ contact' \in ContactRows /\ contact'.doNotCall = on
        /\ contact'.notes = contact.notes
    BY <2>1, <2>2 DEF ContactRows
  <2> QED
    BY <1>0, <2>1, <2>2, <2>3
<1>3. ASSUME NEW q \in Writers, SetList(q)
      PROVE  ContactsInv'
  <2>1. /\ q \in Flagging /\ listed' = job[q].on /\ job' = [job EXCEPT ![q] = NoJob]
        /\ UNCHANGED <<contact, saved, torn, blind, notes>>
    BY <1>3 DEF SetList, Done
  <2>2. /\ job' = [p \in Writers |-> job'[p]] /\ job'[q] = NoJob
        /\ \A p \in Writers \ {q} : job'[p] = job[p]
    BY <2>1, JobTo
  <2>3. job[q].on \in BOOLEAN /\ contact # NoContact
    BY <2>1 DEF JobShape, Flagging, NoJob
  <2>4. JobShape' /\ Flagging' = Flagging \ {q}
    BY <2>1, <2>2 DEF JobShape, Flagging, NoJob
  <2>5. FlagsInOrder'
    BY <2>1, <2>2, <2>3, <2>4 DEF FlagsInOrder
  <2>6. FlagMatchesList'
    BY <2>1, <2>4 DEF FlagsInOrder, FlagMatchesList
  <2> QED
    BY <2>1, <2>3, <2>4, <2>5, <2>6 DEF NotesKept
<1>4. ASSUME NEW q \in Writers, CutFlag(q)
      PROVE  ContactsInv'
  <2>1. /\ q \in Flagging /\ torn' = TRUE /\ job' = [job EXCEPT ![q] = NoJob]
        /\ UNCHANGED <<contact, listed, saved, blind, notes>>
    BY <1>4 DEF CutFlag, Done
  <2>2. /\ job' = [p \in Writers |-> job'[p]] /\ job'[q] = NoJob
        /\ \A p \in Writers \ {q} : job'[p] = job[p]
    BY <2>1, JobTo
  <2>3. JobShape'
    BY <2>1, <2>2 DEF JobShape
  <2> QED
    BY <2>1, <2>3 DEF FlagsInOrder, FlagMatchesList, NotesKept
<1>5. ASSUME NEW q \in Writers, FindLead(q)
      PROVE  ContactsInv'
  <2> DEFINE r == [at |-> "lead", note |-> notes', found |-> contact # NoContact,
                   notes |-> IF contact = NoContact THEN {} ELSE contact.notes]
  <2>1. /\ job[q] = NoJob /\ notes' = notes + 1 /\ job' = [job EXCEPT ![q] = r]
        /\ UNCHANGED <<contact, listed, saved, torn, blind>>
    BY <1>5 DEF FindLead, Start
  <2>2. /\ r.at = "lead" /\ r.note = notes' /\ (r.found <=> contact # NoContact)
        /\ r.notes = IF contact = NoContact THEN {} ELSE contact.notes
    OBVIOUS
  <2>3. r.notes \in SUBSET Nat
    BY <2>2 DEF ContactRows
  <2> HIDE DEF r
  <2>4. /\ job' = [p \in Writers |-> job'[p]] /\ job'[q] = r
        /\ \A p \in Writers \ {q} : job'[p] = job[p]
    BY <2>1, JobTo
  <2>5. JobShape' /\ Flagging' = Flagging
    BY <2>1, <2>2, <2>3, <2>4 DEF JobShape, Flagging, NoJob
  <2>6. \A p \in Flagging : job'[p] = job[p]
    BY <2>1, <2>4 DEF Flagging, NoJob
  <2> QED
    BY <2>1, <2>5, <2>6 DEF FlagsInOrder, FlagMatchesList, NotesKept
<1>6. ASSUME NEW q \in Writers, SaveLead(q)
      PROVE  ContactsInv'
  <2> DEFINE lead == job[q]
             all == lead.notes \cup {lead.note}
  <2>1. /\ lead.at = "lead" /\ job' = [job EXCEPT ![q] = NoJob]
        /\ UNCHANGED <<listed, torn, notes>>
    BY <1>6 DEF SaveLead, Done
  <2>2. /\ job' = [p \in Writers |-> job'[p]] /\ job'[q] = NoJob
        /\ \A p \in Writers \ {q} : job'[p] = job[p]
    BY <2>1, JobTo
  <2>3. /\ all \in SUBSET Nat /\ (lead.found => contact # NoContact)
        /\ ~lead.found => lead.notes = {}
    BY <2>1 DEF JobShape, NoJob
  <2>4. Flagging' = Flagging /\ \A p \in Flagging : job'[p] = job[p]
    BY <2>1, <2>2 DEF Flagging, NoJob
  <2>5. CASE lead.found
    <3>1. /\ contact' = [contact EXCEPT !.notes = all]
          /\ blind' = (blind \/ contact.notes # lead.notes)
          /\ saved' = saved \cup {lead.note}
      BY <1>6, <2>5 DEF SaveLead
    <3>2. /\ contact' \in ContactRows /\ contact'.notes = all
          /\ contact'.doNotCall = contact.doNotCall /\ contact' # NoContact
      BY <2>3, <2>5, <3>1 DEF ContactRows
    <3>3. JobShape'
      BY <2>1, <2>2, <3>2 DEF JobShape
    <3>4. NotesKept'
      BY <3>1, <3>2 DEF NotesKept
    <3> QED
      BY <2>1, <2>3, <2>4, <2>5, <3>2, <3>3, <3>4 DEF FlagsInOrder, FlagMatchesList
  <2>6. CASE ~lead.found /\ contact = NoContact
    <3>1. /\ contact' = [doNotCall |-> FALSE, notes |-> all]
          /\ blind' = blind /\ saved' = saved \cup {lead.note}
      BY <1>6, <2>6 DEF SaveLead
    <3>2. /\ contact' \in ContactRows /\ contact'.notes = all
          /\ contact'.doNotCall = FALSE /\ contact' # NoContact
      BY <2>3, <3>1, NewContact
    <3>3. JobShape' /\ Flagging = {}
      BY <2>1, <2>2, <2>6, <3>2 DEF JobShape, Flagging, NoJob
    <3>4. NotesKept'
      BY <2>6, <3>1, <3>2 DEF NotesKept
    <3> QED
      BY <2>1, <2>4, <2>6, <3>2, <3>3, <3>4 DEF FlagsInOrder, FlagMatchesList
  <2>7. CASE UNCHANGED <<contact, saved, blind>>
    <3>1. JobShape'
      BY <2>1, <2>2, <2>7 DEF JobShape
    <3> QED
      BY <2>1, <2>4, <2>7, <3>1 DEF FlagsInOrder, FlagMatchesList, NotesKept
  <2> QED
    BY <1>6, <2>5, <2>6, <2>7 DEF SaveLead
<1>7. ASSUME NEW q \in Writers, Upload(q)
      PROVE  ContactsInv'
  BY <1>7, ContactMade DEF Upload
<1>8. CASE UNCHANGED contacts
  BY <1>8 DEF contacts, JobShape, FlagsInOrder, FlagMatchesList, NotesKept, Flagging
<1> QED
  BY <1>1, <1>2, <1>3, <1>4, <1>5, <1>6, <1>7, <1>8 DEF ContactsNext

(***************************************************************************)
(* The instant call.                                                       *)
(***************************************************************************)

DialRows == [at : {"screening", "routed", "met", "ringing", "live", "over", "refused"},
             read : SUBSET {"list", "contact"}, barred : BOOLEAN, found : BOOLEAN,
             page : {"waiting", "told", "lost", "ended"}, clear : BOOLEAN, flags : Nat]

\* Whether the contact bars its number.
FlagSet == contact # NoContact /\ contact.doNotCall

\* What bars the number now has been seen by the request if it has looked.
ListSeen(d) == listed /\ "list" \in d.read => d.barred
FlagSeen(d) == FlagSet /\ "contact" \in d.read => d.barred

\* While a number has been barred since the click and at most one request has been half
\* through setting its flag, one of the two, the list or the flag, has barred it all the
\* time; and a flag that was set after the contact was read was set by that request.
Watch(d) ==
    /\ ~d.clear => Barred
    /\ d.flags = 0 => Flagging = {}
    /\ d.flags = 1 => \A p, q \in Flagging : p = q
    /\ ~d.clear /\ d.flags = 0 => ListSeen(d) /\ FlagSeen(d)
    /\ ~d.clear /\ d.flags = 1 =>
          /\ (listed /\ ListSeen(d)) \/ (FlagSet /\ FlagSeen(d))
          /\ FlagSeen(d) \/ \A q \in Flagging : job[q].on

\* The page waits for the last request or shows its call; those before are done with.
Shown(i) ==
    \/ dials[i].page \in {"lost", "ended"}
    \/ dials[i].page = "told" /\ dials[i].at = "refused"
    \/ /\ i = Len(dials)
       /\ \/ dials[i].page = "waiting" /\ callStatus = "connecting"
          \/ /\ dials[i].page = "told" /\ dials[i].at \in {"live", "over"}
             /\ callStatus = "talking"

DialInv ==
    /\ dials \in Seq(DialRows) /\ (callStatus = "talking" => dials # <<>>)
    /\ \A i \in Screening : Watch(dials[i])
    /\ \A i \in 1..Len(dials) : Shown(i)
    /\ BarredNotCalled

\* Nothing has been dialled.
LEMMA DialStart == DialInit => DialInv
BY DEF DialInit, DialInv, Screening, BarredNotCalled

\* How one step of a request changes the flag and the list: it sets the flag and is half
\* through, or it writes the list and is done, or it changes neither.
HalfDone(q, on) ==
    /\ q \notin Flagging /\ Flagging' = Flagging \cup {q} /\ job'[q].on = on
    /\ \A p \in Flagging : job'[p] = job[p]
    /\ (FlagSet' <=> on) /\ (listed' <=> listed)
AllDone(q) ==
    /\ q \in Flagging /\ Flagging' = Flagging \ {q} /\ (listed' <=> job[q].on)
    /\ \A p \in Flagging' : job'[p] = job[p]
    /\ (FlagSet' <=> FlagSet)
NeitherSet ==
    /\ Flagging' \subseteq Flagging /\ \A p \in Flagging' : job'[p] = job[p]
    /\ (FlagSet' <=> FlagSet) /\ (listed' <=> listed)

\* The flag of a row that is inserted is what was said.
LEMMA FlagOfRow ==
    ASSUME NEW b \in BOOLEAN, NEW all \in SUBSET Nat,
           contact' = [doNotCall |-> b, notes |-> all]
    PROVE  FlagSet' = b
<1>1. contact'.doNotCall = b
  OBVIOUS
<1>2. [doNotCall |-> b, notes |-> all] \in [doNotCall : BOOLEAN, notes : SUBSET Nat]
  OBVIOUS
<1>3. contact' # NoContact
  BY <1>2, ContactsAssumption
<1> QED
  BY <1>1, <1>3 DEF FlagSet

\* Every request on the contact does one of the three.
LEMMA BooksMove ==
    ASSUME ContactsInv, ContactsNext
    PROVE  \/ \E q \in Writers : AllDone(q) \/ \E on \in BOOLEAN : HalfDone(q, on)
           \/ NeitherSet
<1> USE DEF ContactsInv
<1>0. ASSUME NEW q \in Writers, NEW on \in BOOLEAN, job[q] = NoJob, Flagged(q, on),
             FlagSet' = on, listed' = listed
      PROVE  HalfDone(q, on)
  <2> DEFINE r == [at |-> "flagged", on |-> on]
  <2>1. r.at = "flagged" /\ r.on = on
    OBVIOUS
  <2>2. /\ job' = [p \in Writers |-> job'[p]] /\ job'[q] = r
        /\ \A p \in Writers \ {q} : job'[p] = job[p]
    BY <1>0, JobTo DEF Flagged
  <2> HIDE DEF r
  <2> QED
    BY <1>0, <2>1, <2>2 DEF HalfDone, Flagging, NoJob
<1>1. ASSUME NEW q \in Writers, Create(q)
      PROVE  NeitherSet \/ HalfDone(q, TRUE)
  <2>1. PICK on \in BOOLEAN :
           /\ contact' = [doNotCall |-> on, notes |-> {}]
           /\ IF on THEN Flagged(q, TRUE) ELSE UNCHANGED <<job, torn>>
    BY <1>1 DEF Create
  <2>2. /\ contact = NoContact /\ job[q] = NoJob /\ listed' = listed
    BY <1>1 DEF Create, Start
  <2>3. FlagSet' = on /\ ~FlagSet
    BY <2>1, <2>2, FlagOfRow DEF FlagSet
  <2>4. CASE on
    BY <1>0, <2>1, <2>2, <2>3, <2>4
  <2>5. CASE ~on
    <3>1. UNCHANGED <<job, torn>> /\ FlagSet' = FALSE /\ FlagSet = FALSE
      BY <2>1, <2>3, <2>5 DEF FlagSet
    <3> QED
      BY <2>2, <3>1 DEF NeitherSet, Flagging
  <2> QED
    BY <2>4, <2>5
<1>2. ASSUME NEW q \in Writers, SetFlag(q)
      PROVE  \E on \in BOOLEAN : HalfDone(q, on)
  <2>1. PICK on \in BOOLEAN :
           contact' = [contact EXCEPT !.doNotCall = on] /\ Flagged(q, on)
    BY <1>2 DEF SetFlag
  <2>2. contact # NoContact /\ job[q] = NoJob /\ listed' = listed
    BY <1>2 DEF SetFlag, Start
  <2>3. contact' = [doNotCall |-> on, notes |-> contact.notes]
    BY <2>1, <2>2 DEF ContactRows
  <2>4. FlagSet' = on
    BY <2>2, <2>3, FlagOfRow DEF ContactRows
  <2> QED
    BY <1>0, <2>1, <2>2, <2>4
<1>3. ASSUME NEW q \in Writers, SetList(q)
      PROVE  AllDone(q)
  <2>1. q \in Flagging /\ listed' = job[q].on /\ job' = [job EXCEPT ![q] = NoJob]
        /\ contact' = contact
    BY <1>3 DEF SetList, Done
  <2>2. /\ job'[q] = NoJob /\ \A p \in Writers \ {q} : job'[p] = job[p]
    BY <2>1, JobTo
  <2> QED
    BY <2>1, <2>2 DEF AllDone, Flagging, NoJob, FlagSet
<1>4. ASSUME NEW q \in Writers, CutFlag(q)
      PROVE  NeitherSet
  <2>1. job' = [job EXCEPT ![q] = NoJob] /\ UNCHANGED <<contact, listed>>
    BY <1>4 DEF CutFlag, Done
  <2>2. /\ job'[q] = NoJob /\ \A p \in Writers \ {q} : job'[p] = job[p]
    BY <2>1, JobTo
  <2> QED
    BY <2>1, <2>2 DEF NeitherSet, Flagging, NoJob, FlagSet
<1>5. ASSUME NEW q \in Writers, FindLead(q)
      PROVE  NeitherSet
  <2> DEFINE r == [at |-> "lead", note |-> notes', found |-> contact # NoContact,
                   notes |-> IF contact = NoContact THEN {} ELSE contact.notes]
  <2>1. job' = [job EXCEPT ![q] = r] /\ UNCHANGED <<contact, listed>>
    BY <1>5 DEF FindLead
  <2>2. r.at = "lead"
    OBVIOUS
  <2> HIDE DEF r
  <2>3. job'[q] = r /\ \A p \in Writers \ {q} : job'[p] = job[p]
    BY <2>1, JobTo
  <2> QED
    BY <2>1, <2>2, <2>3 DEF NeitherSet, Flagging, FlagSet
<1>6. ASSUME NEW q \in Writers, SaveLead(q)
      PROVE  NeitherSet
  <2> DEFINE lead == job[q]
             all == lead.notes \cup {lead.note}
  <2>1. lead.at = "lead" /\ job' = [job EXCEPT ![q] = NoJob] /\ listed' = listed
    BY <1>6 DEF SaveLead, Done
  <2>2. /\ job'[q] = NoJob /\ \A p \in Writers \ {q} : job'[p] = job[p]
    BY <2>1, JobTo
  <2>3. all \in SUBSET Nat /\ (lead.found => contact # NoContact)
    BY <2>1 DEF JobShape, NoJob
  <2>4. FlagSet' = FlagSet
    <3>1. CASE lead.found /\ contact' = [contact EXCEPT !.notes = all]
      <4>1. contact' = [doNotCall |-> contact.doNotCall, notes |-> all]
        BY <2>3, <3>1 DEF ContactRows
      <4>2. FlagSet' = contact.doNotCall
        BY <2>3, <3>1, <4>1, FlagOfRow DEF ContactRows
      <4> QED
        BY <2>3, <3>1, <4>2 DEF FlagSet
    <3>2. CASE contact = NoContact /\ contact' = [doNotCall |-> FALSE, notes |-> all]
      BY <2>3, <3>2, FlagOfRow DEF FlagSet
    <3>3. CASE contact' = contact
      BY <3>3 DEF FlagSet
    <3> QED
      BY <1>6, <3>1, <3>2, <3>3 DEF SaveLead
  <2> QED
    BY <2>1, <2>2, <2>4 DEF NeitherSet, Flagging, NoJob
<1>7. ASSUME NEW q \in Writers, Upload(q)
      PROVE  NeitherSet
  <2>1. /\ contact' = IF contact = NoContact THEN [doNotCall |-> FALSE, notes |-> {}]
                                             ELSE contact
        /\ UNCHANGED <<listed, job>>
    BY <1>7 DEF Upload
  <2>2. FlagSet' = FlagSet
    BY <2>1, FlagOfRow DEF FlagSet
  <2> QED
    BY <2>1, <2>2 DEF NeitherSet, Flagging
<1> QED
  BY <1>1, <1>2, <1>3, <1>4, <1>5, <1>6, <1>7 DEF ContactsNext

\* What is written down of a request that is watched.
LEMMA WatchedRow ==
    ASSUME NEW d \in DialRows, d.at = "screening", NEW n \in Nat,
           n = Cardinality(Flagging' \ Flagging)
    PROVE  /\ Watched(d) \in DialRows /\ Watched(d).at = d.at /\ Watched(d).flags = d.flags + n
           /\ Watched(d).clear <=> d.clear \/ ~Barred'
           /\ Watched(d).read = d.read /\ (Watched(d).barred <=> d.barred)
           /\ Watched(d).page = d.page
<1>0. d.flags + n \in Nat
  BY DEF DialRows
<1>1. PICK b \in BOOLEAN, m \in Nat : (b <=> d.clear \/ ~Barred') /\ m = d.flags + n
  BY <1>0
<1> DEFINE e == [d EXCEPT !.clear = b, !.flags = m]
<1>2. Watched(d) = e
  BY <1>1 DEF Watched
<1>3. /\ e \in DialRows /\ e.at = d.at /\ e.flags = m /\ e.clear = b
      /\ e.read = d.read /\ e.barred = d.barred /\ e.page = d.page
  BY DEF DialRows
<1> HIDE DEF e
<1> QED
  BY <1>1, <1>2, <1>3

\* A request that is watched goes on to be.
LEMMA WatchKept ==
    ASSUME ContactsInv, NEW d \in DialRows, d.at = "screening", Watch(d),
           \/ \E q \in Writers : AllDone(q) \/ \E on \in BOOLEAN : HalfDone(q, on)
           \/ NeitherSet,
           NEW w, w = Watched(d)
    PROVE  Watch(w)'
<1> DEFINE n == Cardinality(Flagging' \ Flagging)
<1>1. (Barred <=> listed \/ FlagSet) /\ (Barred' <=> listed' \/ FlagSet')
  BY DEF Barred, FlagSet
<1>2. d.flags \in Nat /\ d.barred \in BOOLEAN /\ d.clear \in BOOLEAN
  BY DEF DialRows
<1>0. ASSUME n \in Nat
      PROVE  /\ w.flags = d.flags + n /\ (w.clear <=> d.clear \/ ~Barred')
             /\ w.read = d.read /\ (w.barred <=> d.barred)
  BY <1>0, WatchedRow
<1> USE DEF Watch, ListSeen, FlagSeen
<1>3. CASE \E q \in Writers : \E on \in BOOLEAN : HalfDone(q, on)
  <2>1. PICK q \in Writers, on \in BOOLEAN : HalfDone(q, on)
    BY <1>3
  <2>2. n = 1
    <3>1. Flagging' \ Flagging = {q}
      BY <2>1 DEF HalfDone
    <3>2. Cardinality({q}) = 1
      BY FS_Singleton
    <3> QED
      BY <3>1, <3>2
  <2>3. /\ w.flags = d.flags + 1 /\ (w.clear <=> d.clear \/ ~Barred')
        /\ w.read = d.read /\ (w.barred <=> d.barred)
    BY <1>0, <2>2
  <2>4. CASE d.flags = 0
    <3>1. /\ Flagging = {} /\ Flagging' = {q} /\ job'[q].on = on /\ w.flags = 1
      BY <2>1, <2>3, <2>4 DEF HalfDone
    <3> QED
      BY <1>1, <1>2, <2>1, <2>3, <2>4, <3>1 DEF HalfDone
  <2>5. CASE d.flags # 0
    BY <1>1, <1>2, <2>3, <2>5
  <2> QED
    BY <2>4, <2>5
<1>4. CASE \E q \in Writers : AllDone(q)
  <2>1. PICK q \in Writers : AllDone(q)
    BY <1>4
  <2>2. n = 0
    BY <2>1, FS_EmptySet DEF AllDone
  <2>3. /\ w.flags = d.flags /\ (w.clear <=> d.clear \/ ~Barred')
        /\ w.read = d.read /\ (w.barred <=> d.barred)
    BY <1>2, <1>0, <2>2
  <2>4. d.flags # 0
    BY <2>1 DEF AllDone
  <2> QED
    BY <1>1, <1>2, <2>1, <2>3, <2>4 DEF AllDone
<1>5. CASE NeitherSet
  <2>1. n = 0
    BY <1>5, FS_EmptySet DEF NeitherSet
  <2>2. /\ w.flags = d.flags /\ (w.clear <=> d.clear \/ ~Barred')
        /\ w.read = d.read /\ (w.barred <=> d.barred)
    BY <1>2, <1>0, <2>1
  <2> QED
    BY <1>1, <1>2, <1>5, <2>2 DEF NeitherSet
<1> QED
  BY <1>3, <1>4, <1>5

\* A request is watched while nothing it looks at changes.
LEMMA WatchSame ==
    ASSUME NEW d, Watch(d), FlagSet' <=> FlagSet, listed' = listed, job' = job
    PROVE  Watch(d)'
BY DEF Watch, ListSeen, FlagSeen, Barred, FlagSet, Flagging

\* A contact that was none is made and changes nothing that bars the number.
LEMMA ContactArrives ==
    ASSUME contact' = IF contact = NoContact THEN [doNotCall |-> FALSE, notes |-> {}]
                                             ELSE contact
    PROVE  FlagSet' <=> FlagSet
BY FlagOfRow DEF FlagSet

\* One row of a sequence becomes another.
LEMMA RowBecomes ==
    ASSUME NEW S, NEW s \in Seq(S), NEW i \in 1..Len(s), NEW e \in S, NEW t,
           t = [s EXCEPT ![i] = e]
    PROVE  /\ t \in Seq(S) /\ Len(t) = Len(s) /\ t[i] = e /\ t # <<>>
           /\ \A j \in 1..Len(s) : j # i => t[j] = s[j]
OBVIOUS

\* One request to call becomes another.
LEMMA DialBecomes ==
    ASSUME dials \in Seq(DialRows), NEW i \in 1..Len(dials), NEW e \in DialRows,
           dials' = [dials EXCEPT ![i] = e]
    PROVE  /\ dials' \in Seq(DialRows) /\ Len(dials') = Len(dials) /\ dials'[i] = e
           /\ \A j \in 1..Len(dials) : j # i => dials'[j] = dials[j]
           /\ dials' # <<>> <=> dials # <<>>
OBVIOUS

Past == {"routed", "met", "ringing", "live", "over"}

\* A request gets on behind its check.
LEMMA DialGetsOn ==
    ASSUME DialInv, NEW i \in 1..Len(dials), NEW at \in Past \cup {"refused"}, DialTo(i, at),
           FlagSet' <=> FlagSet, UNCHANGED <<listed, job, callStatus>>,
           dials[i].at # "refused",
           at \in Past => dials[i].clear \/ dials[i].flags > 1,
           dials[i].at \in {"live", "over"} => at = "over"
    PROVE  DialInv'
<1> DEFINE e == [dials[i] EXCEPT !.at = at]
<1>1. dials \in Seq(DialRows) /\ dials[i] \in DialRows
  BY DEF DialInv
<1>2. /\ e \in DialRows /\ e.at = at /\ e.page = dials[i].page /\ e.clear = dials[i].clear
      /\ e.flags = dials[i].flags
  BY <1>1 DEF DialRows, Past
<1>3. dials' = [dials EXCEPT ![i] = e]
  BY <1>1 DEF DialTo
<1> HIDE DEF e
<1>4. /\ dials' \in Seq(DialRows) /\ Len(dials') = Len(dials) /\ dials'[i] = e
      /\ \A j \in 1..Len(dials) : j # i => dials'[j] = dials[j]
      /\ dials' # <<>> <=> dials # <<>>
  BY <1>1, <1>2, <1>3, DialBecomes
<1>5. Screening' \subseteq Screening \ {i}
  BY <1>1, <1>2, <1>4 DEF Screening, Past
<1>6. \A j \in Screening' : Watch(dials[j])'
  <2> TAKE j \in Screening'
  <2>1. j \in Screening /\ dials'[j] = dials[j]
    BY <1>1, <1>4, <1>5 DEF Screening
  <2>2. PICK d : d = dials[j]
    OBVIOUS
  <2>3. Watch(d)
    BY <2>1, <2>2 DEF DialInv
  <2>4. Watch(d)'
    BY <2>3, WatchSame
  <2> QED
    BY <2>1, <2>2, <2>4 DEF Watch, ListSeen, FlagSeen
<1>7. \A j \in 1..Len(dials') : Shown(j)'
  BY <1>1, <1>2, <1>4 DEF DialInv, Shown, Past
<1>8. BarredNotCalled'
  BY <1>1, <1>2, <1>4 DEF DialInv, BarredNotCalled, Past
<1> QED
  BY <1>4, <1>6, <1>7, <1>8 DEF DialInv

\* The list or the contact has been read: what it says now has been seen.
LEMMA DialReads ==
    ASSUME DialInv, NEW i \in Screening, NEW e \in DialRows, dials' = [dials EXCEPT ![i] = e],
           UNCHANGED <<contacts, callStatus>>,
           e.at = "screening", e.page = dials[i].page,
           e.flags = dials[i].flags, e.clear <=> dials[i].clear,
           ListSeen(dials[i]) => ListSeen(e), FlagSeen(dials[i]) => FlagSeen(e)
    PROVE  DialInv'
<1>1. /\ dials \in Seq(DialRows) /\ dials[i] \in DialRows /\ i \in 1..Len(dials)
      /\ dials[i].at = "screening"
  BY DEF DialInv, Screening
<1>2. /\ dials' \in Seq(DialRows) /\ Len(dials') = Len(dials) /\ dials'[i] = e
      /\ \A j \in 1..Len(dials) : j # i => dials'[j] = dials[j]
      /\ dials' # <<>> <=> dials # <<>>
  BY <1>1, DialBecomes
<1>3. (FlagSet' <=> FlagSet) /\ listed' = listed /\ job' = job
  BY DEF contacts, FlagSet
<1>4. \A j \in Screening' : Watch(dials[j])'
  <2> TAKE j \in Screening'
  <2>1. j \in Screening /\ j \in 1..Len(dials)
    BY <1>1, <1>2 DEF Screening
  <2>2. CASE j = i
    <3>1. Watch(dials[i])
      BY DEF DialInv
    <3>2. Watch(e)
      BY <3>1 DEF Watch
    <3>3. Watch(e)'
      BY <1>3, <3>2, WatchSame
    <3> QED
      BY <1>2, <2>2, <3>3 DEF Watch, ListSeen, FlagSeen
  <2>3. CASE j # i
    <3>1. PICK d : d = dials[j] /\ d = dials'[j]
      BY <1>2, <2>1, <2>3
    <3>2. Watch(d)
      BY <2>1, <3>1 DEF DialInv
    <3>3. Watch(d)'
      BY <1>3, <3>2, WatchSame
    <3> QED
      BY <3>1, <3>3 DEF Watch, ListSeen, FlagSeen
  <2> QED
    BY <2>2, <2>3
<1>5. \A j \in 1..Len(dials') : Shown(j)'
  <2>1. callStatus' = callStatus
    OBVIOUS
  <2> TAKE j \in 1..Len(dials')
  <2>2. dials'[j].page = dials[j].page /\ dials'[j].at = dials[j].at /\ j \in 1..Len(dials)
    BY <1>1, <1>2
  <2> QED
    BY <1>1, <1>2, <2>1, <2>2 DEF DialInv, Shown
<1>6. BarredNotCalled'
  BY <1>1, <1>2 DEF DialInv, BarredNotCalled
<1> QED
  BY <1>2, <1>4, <1>5, <1>6 DEF DialInv

\* What the page does to a request, or does alone, changes nothing that is watched.
LEMMA DialTurns ==
    ASSUME DialInv, NEW i \in 1..Len(dials), NEW p \in {"told", "lost", "ended"},
           dials' = [dials EXCEPT ![i].page = p], UNCHANGED contacts,
           callStatus' = "talking" => p = "told" /\ i = Len(dials) /\ dials[i].at \in {"live", "over"},
           p = "told" => callStatus' = "talking" \/ dials[i].at = "refused",
           i = Len(dials)
    PROVE  DialInv'
<1> DEFINE e == [dials[i] EXCEPT !.page = p]
<1>1. dials \in Seq(DialRows) /\ dials[i] \in DialRows
  BY DEF DialInv
<1>2. /\ e \in DialRows /\ e.page = p /\ e.at = dials[i].at /\ e.clear = dials[i].clear
      /\ e.flags = dials[i].flags /\ e.read = dials[i].read /\ e.barred = dials[i].barred
  BY <1>1 DEF DialRows
<1>3. dials' = [dials EXCEPT ![i] = e]
  BY <1>1
<1> HIDE DEF e
<1>4. /\ dials' \in Seq(DialRows) /\ Len(dials') = Len(dials) /\ dials'[i] = e
      /\ \A j \in 1..Len(dials) : j # i => dials'[j] = dials[j]
      /\ dials' # <<>> <=> dials # <<>>
  BY <1>1, <1>2, <1>3, DialBecomes
<1>5. (FlagSet' <=> FlagSet) /\ listed' = listed /\ job' = job
  BY DEF contacts, FlagSet
<1>6. \A j \in Screening' : Watch(dials[j])'
  <2> TAKE j \in Screening'
  <2>1. j \in Screening
    BY <1>1, <1>2, <1>4 DEF Screening
  <2>2. PICK d : d = dials'[j]
    OBVIOUS
  <2>3. /\ d.flags = dials[j].flags /\ d.clear = dials[j].clear /\ d.read = dials[j].read
        /\ d.barred = dials[j].barred
    BY <1>1, <1>2, <1>4, <2>1, <2>2 DEF Screening
  <2>4. Watch(d)
    BY <2>1, <2>3 DEF DialInv, Watch, ListSeen, FlagSeen
  <2>5. Watch(d)'
    BY <1>5, <2>4, WatchSame
  <2> QED
    BY <2>2, <2>5 DEF Watch, ListSeen, FlagSeen
<1>7. \A j \in 1..Len(dials') : Shown(j)'
  BY <1>1, <1>2, <1>4 DEF DialInv, Shown
<1>8. BarredNotCalled'
  BY <1>1, <1>2, <1>4 DEF DialInv, BarredNotCalled
<1>9. dials' # <<>>
  BY <1>4
<1> QED
  BY <1>4, <1>6, <1>7, <1>8, <1>9 DEF DialInv

\* Each step of the page, the route and the call keeps it, and so does each of the others'
\* requests on the contact.
LEMMA DialStep == ASSUME ContactsInv, DialInv, [DialNext]_<<contacts, dialling>> PROVE DialInv'
<1>1. dials \in Seq(DialRows) /\ DOMAIN dials = 1..Len(dials) /\ Len(dials) \in Nat
  BY DEF DialInv
<1>2. CASE BooksStep
  <2>1. /\ ContactsNext /\ dials' = [i \in 1..Len(dials) |-> Watched(dials[i])]
        /\ UNCHANGED <<callStatus, closing>>
    BY <1>1, <1>2 DEF BooksStep
  <2>2. \/ \E q \in Writers : AllDone(q) \/ \E on \in BOOLEAN : HalfDone(q, on)
        \/ NeitherSet
    BY <2>1, BooksMove
  <2>3. Cardinality(Flagging' \ Flagging) \in Nat
    <3>1. CASE \E q \in Writers : \E on \in BOOLEAN : HalfDone(q, on)
      <4>1. PICK q \in Writers : q \notin Flagging /\ Flagging' = Flagging \cup {q}
        BY <3>1 DEF HalfDone
      <4>2. Flagging' \ Flagging = {q}
        BY <4>1
      <4>3. Cardinality({q}) = 1
        BY FS_Singleton
      <4> QED
        BY <4>2, <4>3
    <3>2. CASE Flagging' \subseteq Flagging
      <4>1. Flagging' \ Flagging = {}
        BY <3>2
      <4> QED
        BY <4>1, FS_EmptySet
    <3> QED
      BY <2>2, <3>1, <3>2 DEF AllDone, NeitherSet
  <2>4. ASSUME NEW i \in 1..Len(dials)
        PROVE  /\ Watched(dials[i]) \in DialRows /\ Watched(dials[i]).at = dials[i].at
               /\ Watched(dials[i]).page = dials[i].page
               /\ dials[i].at # "screening" => Watched(dials[i]) = dials[i]
    <3>1. dials[i] \in DialRows
      BY <1>1
    <3>2. CASE dials[i].at = "screening"
      BY <2>3, <3>1, <3>2, WatchedRow
    <3>3. CASE dials[i].at # "screening"
      BY <3>1, <3>3 DEF Watched
    <3> QED
      BY <3>2, <3>3
  <2>5. /\ dials' \in [1..Len(dials) -> DialRows] /\ dials' \in Seq(DialRows)
        /\ Len(dials') = Len(dials)
    BY <1>1, <2>1, <2>4
  <2>6. \A i \in Screening' : Watch(dials[i])'
    <3> TAKE i \in Screening'
    <3>1. i \in 1..Len(dials) /\ dials[i].at = "screening" /\ i \in Screening
      BY <1>1, <2>1, <2>4, <2>5 DEF Screening
    <3>2. PICK w : w = Watched(dials[i])
      OBVIOUS
    <3>3. PICK d : d = dials[i]
      OBVIOUS
    <3>4. d \in DialRows /\ Watch(d) /\ d.at = "screening" /\ w = Watched(d)
      BY <1>1, <3>1, <3>2, <3>3 DEF DialInv
    <3>5. Watch(w)'
      BY <2>2, <3>4, WatchKept
    <3> QED
      BY <2>1, <3>1, <3>2, <3>5 DEF Watch, ListSeen, FlagSeen
  <2>7. \A i \in 1..Len(dials') : Shown(i)'
    <3> TAKE i \in 1..Len(dials')
    <3>1. dials'[i].page = dials[i].page /\ dials'[i].at = dials[i].at /\ i \in 1..Len(dials)
      BY <2>1, <2>4, <2>5
    <3> QED
      BY <2>1, <2>5, <3>1 DEF DialInv, Shown
  <2>8. BarredNotCalled'
    <3> SUFFICES ASSUME NEW i \in 1..Len(dials'), dials'[i].at \in Past
                 PROVE  dials'[i].clear \/ dials'[i].flags > 1
      BY <2>5 DEF BarredNotCalled, Past
    <3>1. i \in 1..Len(dials) /\ dials'[i] = dials[i]
      BY <2>1, <2>4, <2>5 DEF Past
    <3> QED
      BY <1>1, <3>1 DEF DialInv, BarredNotCalled, Past
  <2>9. callStatus' = "talking" => dials' # <<>>
    BY <2>1, <2>5 DEF DialInv
  <2> QED
    BY <2>5, <2>6, <2>7, <2>8, <2>9 DEF DialInv
<1>3. CASE CallNow
  <2> DEFINE e == [at |-> "screening", read |-> {}, barred |-> FALSE, found |-> FALSE,
                   page |-> "waiting", clear |-> ~Barred, flags |-> Cardinality(Flagging)]
  <2>1. /\ callStatus = "idle" /\ callStatus' = "connecting" /\ dials' = Append(dials, e)
        /\ UNCHANGED contacts
    BY <1>3 DEF CallNow
  <2>2. IsFiniteSet(Flagging)
    BY ContactsAssumption, FS_Subset DEF Flagging
  <2>3. Cardinality(Flagging) \in Nat
    BY <2>2, FS_CardinalityType
  <2>4. /\ e \in DialRows /\ e.at = "screening" /\ e.page = "waiting" /\ e.read = {}
        /\ e.flags = Cardinality(Flagging) /\ (e.clear <=> ~Barred)
    BY <2>3 DEF DialRows
  <2> HIDE DEF e
  <2>5. /\ dials' \in Seq(DialRows) /\ Len(dials') = Len(dials) + 1
        /\ dials'[Len(dials) + 1] = e
        /\ \A i \in 1..Len(dials) : dials'[i] = dials[i]
    BY <1>1, <2>1, <2>4
  <2>6. Watch(e)
    <3>1. Cardinality(Flagging) = 0 => Flagging = {}
      BY <2>2, FS_EmptySet
    <3>2. Cardinality(Flagging) = 1 => \A p, q \in Flagging : p = q
      BY <2>2, FS_Singleton
    <3> QED
      BY <2>4, <3>1, <3>2 DEF Watch, ListSeen, FlagSeen, Barred, FlagSet
  <2>7. (FlagSet' <=> FlagSet) /\ listed' = listed /\ job' = job
    BY <2>1 DEF contacts, FlagSet
  <2>8. \A i \in Screening' : Watch(dials[i])'
    <3> TAKE i \in Screening'
    <3>1. PICK d : d = dials'[i]
      OBVIOUS
    <3>2. Watch(d)
      BY <1>1, <2>5, <2>6, <3>1 DEF DialInv, Screening
    <3>3. Watch(d)'
      BY <2>7, <3>2, WatchSame
    <3> QED
      BY <3>1, <3>3 DEF Watch, ListSeen, FlagSeen
  <2>9. \A i \in 1..Len(dials') : Shown(i)'
    BY <1>1, <2>1, <2>4, <2>5 DEF DialInv, Shown
  <2>10. BarredNotCalled'
    BY <1>1, <2>4, <2>5 DEF DialInv, BarredNotCalled
  <2> QED
    BY <2>1, <2>5, <2>8, <2>9, <2>10 DEF DialInv
<1>4. ASSUME NEW i \in DOMAIN dials, ReadList(i)
      PROVE  DialInv'
  <2> DEFINE d == dials[i]
             e == [d EXCEPT !.read = @ \cup {"list"}, !.barred = @ \/ listed]
  <2>1. /\ i \in Screening /\ d \in DialRows /\ d.at = "screening"
        /\ UNCHANGED <<contacts, callStatus>>
    BY <1>1, <1>4 DEF ReadList, Screening
  <2>2. dials' = [dials EXCEPT ![i] = e]
    BY <1>1, <1>4 DEF ReadList
  <2>3. PICK b \in BOOLEAN : b <=> d.barred \/ listed
    OBVIOUS
  <2>4. e = [d EXCEPT !.read = @ \cup {"list"}, !.barred = b]
    BY <2>1, <2>3 DEF DialRows, ContactsInv
  <2>5. /\ e \in DialRows /\ e.at = "screening" /\ e.page = d.page /\ e.flags = d.flags
        /\ e.clear = d.clear /\ e.read = d.read \cup {"list"} /\ e.barred = b
    BY <2>1, <2>4 DEF DialRows
  <2>6. ListSeen(e) /\ (FlagSeen(d) => FlagSeen(e))
    BY <2>3, <2>5 DEF ListSeen, FlagSeen
  <2> HIDE DEF e
  <2> QED
    BY <2>1, <2>2, <2>5, <2>6, DialReads
<1>5. ASSUME NEW i \in DOMAIN dials, ReadContact(i)
      PROVE  DialInv'
  <2> DEFINE d == dials[i]
  <2>1. PICK b \in BOOLEAN : b <=> d.barred \/ FlagSet
    OBVIOUS
  <2>2. PICK f \in BOOLEAN : f <=> contact # NoContact
    OBVIOUS
  <2> DEFINE e == [d EXCEPT !.read = @ \cup {"contact"}, !.barred = b, !.found = f]
  <2>3. /\ i \in Screening /\ d \in DialRows /\ d.at = "screening"
        /\ UNCHANGED <<contacts, callStatus>>
    BY <1>1, <1>5 DEF ReadContact, Screening
  <2>4. (d.barred \/ (contact # NoContact /\ contact.doNotCall)) = b
    BY <2>1, <2>3 DEF FlagSet, DialRows, ContactsInv, ContactRows
  <2>5. dials' = [dials EXCEPT ![i] = e]
    BY <1>1, <1>5, <2>2, <2>4 DEF ReadContact
  <2>6. /\ e \in DialRows /\ e.at = "screening" /\ e.page = d.page /\ e.flags = d.flags
        /\ e.clear = d.clear /\ e.read = d.read \cup {"contact"} /\ e.barred = b
    BY <2>3 DEF DialRows
  <2>7. FlagSeen(e) /\ (ListSeen(d) => ListSeen(e))
    BY <2>1, <2>6 DEF ListSeen, FlagSeen
  <2> HIDE DEF e
  <2> QED
    BY <2>3, <2>5, <2>6, <2>7, DialReads
<1>6. ASSUME NEW i \in DOMAIN dials, Screen(i)
      PROVE  DialInv'
  <2>1. /\ i \in Screening /\ dials[i].at = "screening" /\ dials[i] \in DialRows
        /\ dials[i].read = {"list", "contact"}
        /\ UNCHANGED <<contacts, callStatus>>
    BY <1>1, <1>6 DEF Screen, Screening
  <2>2. (FlagSet' <=> FlagSet) /\ UNCHANGED <<listed, job, callStatus>>
    BY <2>1 DEF contacts, FlagSet
  <2>3. CASE ~dials[i].barred /\ DialTo(i, "routed")
    <3>1. Watch(dials[i])
      BY <2>1 DEF DialInv
    <3>2. dials[i].clear \/ dials[i].flags > 1
      BY <2>1, <2>3, <3>1 DEF Watch, ListSeen, FlagSeen, Barred, FlagSet, DialRows
    <3> QED
      BY <1>1, <2>1, <2>2, <2>3, <3>2, DialGetsOn DEF Past
  <2>4. CASE DialTo(i, "refused")
    BY <1>1, <2>1, <2>2, <2>4, DialGetsOn DEF Past
  <2> QED
    BY <1>6, <2>3, <2>4 DEF Screen
<1>7. ASSUME NEW i \in 1..Len(dials), dials[i].at \in Past
      PROVE  dials[i].clear \/ dials[i].flags > 1
  BY <1>7 DEF DialInv, BarredNotCalled, Past
<1>8. ASSUME NEW i \in DOMAIN dials, Meet(i)
      PROVE  DialInv'
  <2>1. /\ dials[i].at = "routed" /\ UNCHANGED <<listed, job, callStatus>>
    BY <1>8 DEF Meet
  <2>2. DialTo(i, "met") \/ DialTo(i, "refused")
    BY <1>8 DEF Meet
  <2>3. \/ contact' = contact
        \/ contact = NoContact /\ contact' = [doNotCall |-> FALSE, notes |-> {}]
    BY <1>8 DEF Meet
  <2>4. FlagSet' <=> FlagSet
    BY <2>3, FlagOfRow DEF FlagSet
  <2> QED
    BY <1>1, <1>7, <2>1, <2>2, <2>4, DialGetsOn DEF Past
<1>9. ASSUME NEW i \in DOMAIN dials, Ring(i) \/ PickUp(i) \/ HangUp(i)
      PROVE  DialInv'
  <2>1. (FlagSet' <=> FlagSet) /\ UNCHANGED <<listed, job, callStatus>>
    BY <1>9 DEF Ring, PickUp, HangUp, contacts, FlagSet
  <2>2. PICK at \in {"ringing", "live", "over", "refused"} :
           /\ DialTo(i, at) /\ dials[i].at \in Past
           /\ dials[i].at \in {"live", "over"} => at = "over"
    BY <1>9 DEF Ring, PickUp, HangUp, Past
  <2> QED
    BY <1>1, <1>7, <2>1, <2>2, DialGetsOn DEF Past
<1>10. ASSUME NEW i \in DOMAIN dials, dials[i].page = "waiting"
       PROVE  i = Len(dials)
  BY <1>1, <1>10 DEF DialInv, Shown
<1>11. ASSUME NEW i \in DOMAIN dials, Answered(i)
       PROVE  DialInv'
  BY <1>1, <1>10, <1>11, DialTurns DEF Answered
<1>12. ASSUME NEW i \in DOMAIN dials, Unanswered(i)
       PROVE  DialInv'
  <2>1. PICK p \in {"told", "lost"} :
           /\ dials' = [dials EXCEPT ![i].page = p] /\ p = "told" => dials[i].at = "refused"
    BY <1>12 DEF Unanswered
  <2> QED
    BY <1>1, <1>10, <1>12, <2>1, DialTurns DEF Unanswered
<1>13. CASE EndOnPage
  <2>1. Len(dials) \in 1..Len(dials)
    BY <1>1, <1>13 DEF EndOnPage, DialInv
  <2> QED
    BY <1>13, <2>1, DialTurns DEF EndOnPage
<1>14. CASE SaveOutcome \/ DialAnother \/ UNCHANGED <<contacts, dialling>>
  <2>1. /\ (FlagSet' <=> FlagSet) /\ UNCHANGED <<listed, job, dials>>
        /\ callStatus' = callStatus \/ (callStatus = "completed" /\ callStatus' = "idle")
    <3>1. CASE SaveOutcome
      BY <3>1, ContactArrives DEF SaveOutcome
    <3>2. CASE DialAnother \/ UNCHANGED <<contacts, dialling>>
      BY <3>2 DEF DialAnother, contacts, dialling, FlagSet
    <3> QED
      BY <1>14, <3>1, <3>2
  <2>2. \A i \in Screening' : Watch(dials[i])'
    <3> TAKE i \in Screening'
    <3>1. PICK d : d = dials[i]
      OBVIOUS
    <3>2. Watch(d)
      BY <2>1, <3>1 DEF DialInv, Screening
    <3>3. Watch(d)'
      BY <2>1, <3>2, WatchSame
    <3> QED
      BY <2>1, <3>1, <3>3 DEF Watch, ListSeen, FlagSeen
  <2>3. (\A i \in 1..Len(dials') : Shown(i)') /\ BarredNotCalled'
    BY <2>1 DEF DialInv, Shown, BarredNotCalled
  <2> QED
    BY <2>1, <2>2, <2>3 DEF DialInv
<1> QED
  BY <1>2, <1>3, <1>4, <1>5, <1>6, <1>8, <1>9, <1>11, <1>12, <1>13, <1>14 DEF DialNext

\* An instant call writes a contact only where there was none.
LEMMA DialContacts ==
    ASSUME ContactsInv, [DialNext]_<<contacts, dialling>> PROVE ContactsInv'
<1>1. CASE BooksStep
  BY <1>1, ContactsStep DEF BooksStep
<1>2. ASSUME NEW i \in DOMAIN dials, Meet(i)
      PROVE  ContactsInv'
  <2>1. UNCHANGED <<listed, job, saved, torn, blind, jobs, notes>>
    BY <1>2 DEF Meet
  <2>2. CASE contact' = contact
    BY <2>1, <2>2, ContactsStep DEF contacts
  <2>3. CASE contact = NoContact /\ contact' = [doNotCall |-> FALSE, notes |-> {}]
    BY <2>1, <2>3, ContactMade
  <2> QED
    BY <1>2, <2>2, <2>3 DEF Meet
<1>3. CASE SaveOutcome
  BY <1>3, ContactMade DEF SaveOutcome
<1>4. CASE UNCHANGED contacts
  BY <1>4, ContactsStep
<1>5. ASSUME NEW i \in DOMAIN dials,
             \/ ReadList(i) \/ ReadContact(i) \/ Screen(i) \/ Ring(i) \/ PickUp(i)
             \/ HangUp(i) \/ Answered(i) \/ Unanswered(i)
      PROVE  UNCHANGED contacts
  BY <1>5 DEF ReadList, ReadContact, Screen, Ring, PickUp, HangUp, Answered, Unanswered
<1>6. CallNow \/ EndOnPage \/ DialAnother => UNCHANGED contacts
  BY DEF CallNow, EndOnPage, DialAnother
<1> QED
  BY <1>1, <1>2, <1>3, <1>4, <1>5, <1>6 DEF DialNext, contacts

\* What is written and what is dialled.
LEMMA ContactsAndDials == Spec => [](ContactsInv /\ DialInv)
<1>1. Init => ContactsInv /\ DialInv
  BY ContactsStart, DialStart DEF Init
<1>2. (ContactsInv /\ DialInv) /\ [Next]_vars => (ContactsInv /\ DialInv)'
  <2> SUFFICES ASSUME ContactsInv, DialInv, [Next]_vars PROVE ContactsInv' /\ DialInv'
    OBVIOUS
  <2>1. [DialNext]_<<contacts, dialling>>
    BY DEF Next, vars
  <2> QED
    BY <2>1, DialContacts, DialStep
<1> QED
  BY <1>1, <1>2, PTL DEF Spec

\* A contact and the do-not-call list agree about the number once no request is between
\* the two, unless one was cut there or two met; a note that was confirmed to the caller
\* stays, unless a lead was written over one it had not read (contacts/route.ts, leads.py).
THEOREM ContactAgreesAlways == Spec => []ContactAgrees
<1>1. ContactsInv => ContactAgrees
  BY DEF ContactsInv, ContactAgrees
<1> QED
  BY <1>1, ContactsAndDials, PTL

\* No instant call is made to a number that the flag or the list has barred since the
\* click, unless two requests that set the flag were half through meanwhile
\* (calls/route.ts, contacts/route.ts).
THEOREM BarredNeverCalled == Spec => []BarredNotCalled
<1>1. DialInv => BarredNotCalled
  BY DEF DialInv
<1> QED
  BY <1>1, ContactsAndDials, PTL

(***************************************************************************)
(* The agent's creation.                                                   *)
(***************************************************************************)

Posts == [script : [of : Nat, edits : Nat, valid : BOOLEAN],
          at : {"sent", "created", "error"}]

\* The saves that made an agent, and those that have or still may.
Created == {i \in 1..Len(posts) : posts[i].at = "created"}
Standing == {i \in 1..Len(posts) : posts[i].at # "error"}

\* A save that is under way and not refused.
Hopeful == saving # 0 /\ posts[saving].at # "error"

CreationTypes ==
    /\ posts \in Seq(Posts) /\ saving \in 0..Len(posts)
    /\ made \in Seq([of : Nat, edits : Nat, valid : BOOLEAN])
    /\ asked \in Nat /\ lost \in Nat /\ again \in Nat
    /\ stage = "script" => script \in [of : Nat, edits : Nat, valid : BOOLEAN]
    /\ page \in {"open", "leaving", "left"}

\* Every save that made an agent, or may, is the one that is under way or that sent the
\* member to the agent's page, or its answer was lost, or it was clicked on a page that
\* was being left.
SavesExplained ==
    /\ Len(made) = Cardinality(Created)
    /\ Cardinality(Standing) <= lost + again + (IF page # "open" \/ Hopeful THEN 1 ELSE 0)

CreationInv == CreationTypes /\ AskedIsAnswered /\ SavesExplained

\* The page is open and nothing was asked for.
LEMMA CreationStart == CreationInit => CreationInv
<1> SUFFICES ASSUME CreationInit PROVE CreationInv
  OBVIOUS
<1>1. CreationTypes /\ AskedIsAnswered
  BY DEF CreationInit, CreationTypes, AskedIsAnswered
<1>2. Len(posts) = 0 /\ Len(made) = 0
  BY DEF CreationInit
<1>3. Created = {} /\ Standing = {}
  BY <1>2 DEF Created, Standing
<1>4. SavesExplained
  BY <1>2, <1>3, FS_EmptySet DEF CreationInit, SavesExplained
<1> QED
  BY <1>1, <1>4 DEF CreationInv

\* The saves are finitely many, and those that made an agent are among those that may.
LEMMA SavesFinite ==
    ASSUME CreationTypes
    PROVE  /\ IsFiniteSet(Standing) /\ IsFiniteSet(Created) /\ Created \subseteq Standing
           /\ Cardinality(Standing) \in Nat /\ Cardinality(Created) \in Nat
           /\ Cardinality(Created) <= Cardinality(Standing)
<1>1. IsFiniteSet(1..Len(posts))
  BY FS_Interval, LenProperties DEF CreationTypes
<1>2. Standing \subseteq 1..Len(posts) /\ Created \subseteq Standing
  BY DEF Standing, Created
<1>3. IsFiniteSet(Standing)
  BY <1>1, <1>2, FS_Subset
<1> QED
  BY <1>2, <1>3, FS_Subset, FS_CardinalityType

\* Saving: one more that may make an agent, and the one the page waits for.
LEMMA SaveSent ==
    ASSUME CreationInv, SaveAgent
    PROVE  CreationInv'
<1> DEFINE p == [script |-> script, at |-> "sent"]
           n == Len(posts)
<1> USE DEF CreationInv
<1>1. /\ posts' = Append(posts, p) /\ saving' = Len(posts') /\ stage = "script"
      /\ again' = (IF page = "leaving" THEN again + 1 ELSE again)
      /\ saving = 0 /\ page # "left"
      /\ UNCHANGED <<pageSide, used, made, page, lost>>
  BY DEF SaveAgent
<1>2. p \in Posts /\ p.at = "sent"
  BY <1>1 DEF CreationTypes, Posts
<1> HIDE DEF p
<1>3. /\ posts' \in Seq(Posts) /\ n \in Nat /\ Len(posts') = n + 1 /\ posts'[n + 1] = p
      /\ \A i \in 1..n : posts'[i] = posts[i]
  BY <1>1, <1>2, AppendProperties, LenProperties DEF CreationTypes
<1> HIDE DEF n
<1>4. 1..Len(posts') = 1..n \cup {n + 1} /\ n + 1 \notin 1..n
  BY <1>3
<1>5. Created' = Created
  BY <1>2, <1>3, <1>4 DEF Created, n
<1>6. Standing' = Standing \cup {n + 1} /\ n + 1 \notin Standing
  BY <1>2, <1>3, <1>4 DEF Standing, n
<1>7. Cardinality(Standing') = Cardinality(Standing) + 1 /\ Cardinality(Standing) \in Nat
  BY <1>6, SavesFinite, FS_AddElement
<1>8. CreationTypes'
  BY <1>1, <1>3 DEF CreationTypes, pageSide
<1>9. Hopeful'
  BY <1>1, <1>2, <1>3 DEF Hopeful
<1>10. SavesExplained'
  <2>1. Cardinality(Standing) <= lost + again + (IF page # "open" THEN 1 ELSE 0)
    BY <1>1 DEF SavesExplained, Hopeful
  <2> QED
    BY <1>1, <1>5, <1>7, <1>9, <2>1 DEF SavesExplained, CreationTypes
<1> QED
  BY <1>1, <1>8, <1>10 DEF AskedIsAnswered, pageSide

\* The server makes the agent of a save or refuses it.
LEMMA SaveServed ==
    ASSUME CreationInv, NEW i \in DOMAIN posts, CreateAgent(i)
    PROVE  CreationInv'
<1> USE DEF CreationInv
<1>1. PICK at \in {"created", "error"} :
         /\ posts' = [posts EXCEPT ![i].at = at]
         /\ made' = IF at = "created" THEN Append(made, posts[i].script) ELSE made
  BY DEF CreateAgent, PostTo
<1>2. posts[i].at = "sent" /\ UNCHANGED <<pageSide, used, saving, page, again, lost>>
  BY DEF CreateAgent
<1>3. /\ i \in 1..Len(posts) /\ DOMAIN posts = 1..Len(posts) /\ posts[i] \in Posts
      /\ Len(posts) \in Nat
  BY DEF CreationTypes
<1>4. /\ posts' \in Seq(Posts) /\ Len(posts') = Len(posts) /\ posts'[i].at = at
      /\ \A k \in 1..Len(posts) : k # i => posts'[k] = posts[k]
  <2>1. posts' = [posts EXCEPT ![i] = [posts[i] EXCEPT !.at = at]]
    BY <1>1
  <2>2. [posts[i] EXCEPT !.at = at] \in Posts /\ [posts[i] EXCEPT !.at = at].at = at
    BY <1>3 DEF Posts
  <2> QED
    BY <1>3, <2>1, <2>2, ExceptSeq DEF CreationTypes
<1>5. /\ made' \in Seq([of : Nat, edits : Nat, valid : BOOLEAN])
      /\ Len(made') = IF at = "created" THEN Len(made) + 1 ELSE Len(made)
  <2>1. posts[i].script \in [of : Nat, edits : Nat, valid : BOOLEAN]
    BY <1>3 DEF Posts
  <2>2. CASE at = "created"
    BY <1>1, <2>1, <2>2, AppendProperties DEF CreationTypes
  <2>3. CASE at # "created"
    BY <1>1, <2>3 DEF CreationTypes
  <2> QED
    BY <2>2, <2>3
<1>6. CreationTypes'
  BY <1>2, <1>4, <1>5 DEF CreationTypes, pageSide
<1>7. i \in Standing /\ i \notin Created
  BY <1>2, <1>3 DEF Standing, Created
<1>8. CASE at = "created"
  <2>1. Created' = Created \cup {i} /\ Standing' = Standing
    BY <1>2, <1>3, <1>4, <1>8 DEF Created, Standing
  <2>2. Cardinality(Created') = Cardinality(Created) + 1
    BY <1>7, <2>1, SavesFinite, FS_AddElement
  <2>3. Hopeful <=> Hopeful'
    BY <1>2, <1>3, <1>4, <1>8 DEF Hopeful, CreationTypes
  <2>4. SavesExplained'
    BY <1>2, <1>5, <1>8, <2>1, <2>2, <2>3 DEF SavesExplained
  <2> QED
    BY <1>2, <1>6, <2>4 DEF AskedIsAnswered, pageSide
<1>9. CASE at = "error"
  <2>1. Created' = Created /\ Standing' = Standing \ {i}
    BY <1>2, <1>3, <1>4, <1>9 DEF Created, Standing
  <2>2. Cardinality(Standing') = Cardinality(Standing) - 1 /\ Cardinality(Standing) \in Nat
    BY <1>7, <2>1, SavesFinite, FS_RemoveElement
  <2>3. Cardinality(Standing') <= lost + again
    BY <2>2 DEF SavesExplained, CreationTypes
  <2>4. Len(made') = Cardinality(Created')
    BY <1>5, <1>9, <2>1 DEF SavesExplained
  <2>5. \A b \in BOOLEAN : Cardinality(Standing') <= lost + again + (IF b THEN 1 ELSE 0)
    BY <2>2, <2>3 DEF CreationTypes
  <2>6. SavesExplained'
    BY <1>2, <2>4, <2>5 DEF SavesExplained
  <2> QED
    BY <1>2, <1>6, <2>6 DEF AskedIsAnswered, pageSide
<1> QED
  BY <1>8, <1>9

\* The page has the answer to its save, or gives up waiting for it.
LEMMA SaveOver ==
    ASSUME CreationInv, NEW i \in DOMAIN posts, SaveAnswered(i) \/ SaveLost(i)
    PROVE  CreationInv'
<1> USE DEF CreationInv
<1>1. /\ saving = i /\ saving' = 0 /\ UNCHANGED <<pageSide, used, posts, made, again>>
      /\ i \in 1..Len(posts) /\ page' \in {page, "leaving"}
  BY DEF SaveAnswered, SaveLost, CreationTypes
<1>2. Created' = Created /\ Standing' = Standing /\ ~Hopeful' /\ saving # 0
  BY <1>1 DEF Created, Standing, Hopeful
<1>3. CASE SaveLost(i)
  <2>1. lost' = lost + 1 /\ page' = page
    BY <1>3 DEF SaveLost, Lose
  <2>2. CreationTypes'
    BY <1>1, <2>1 DEF CreationTypes, pageSide
  <2>3. SavesExplained'
    BY <1>1, <1>2, <2>1, SavesFinite DEF SavesExplained, CreationTypes
  <2> QED
    BY <1>1, <2>2, <2>3 DEF AskedIsAnswered, pageSide
<1>4. CASE SaveAnswered(i)
  <2>1. /\ lost' = lost /\ page' = IF posts[i].at = "created" THEN "leaving" ELSE page
        /\ posts[i].at \in {"created", "error"}
    BY <1>4 DEF SaveAnswered
  <2>2. CreationTypes'
    BY <1>1, <2>1 DEF CreationTypes, pageSide
  <2>3. Hopeful <=> posts[i].at = "created"
    BY <1>1, <1>2, <2>1 DEF Hopeful
  <2>4. SavesExplained'
    BY <1>1, <1>2, <2>1, <2>3, SavesFinite DEF SavesExplained, CreationTypes
  <2> QED
    BY <1>1, <2>2, <2>4 DEF AskedIsAnswered, pageSide
<1> QED
  BY <1>3, <1>4

\* A step that leaves the saves alone.
LEMMA SavesUntouched ==
    ASSUME CreationInv, UNCHANGED saveSide, lost' \in {lost, lost + 1}
    PROVE  SavesExplained'
<1>1. Created' = Created /\ Standing' = Standing /\ (Hopeful' <=> Hopeful)
  BY DEF saveSide, Created, Standing, Hopeful
<1> QED
  BY <1>1, SavesFinite DEF CreationInv, CreationTypes, SavesExplained, saveSide

\* Every click, answer and loss keeps it.
LEMMA CreationStep == ASSUME CreationInv, [CreationNext]_creation PROVE CreationInv'
<1> USE DEF WriteTo, NoWriting, Fail, Lose, pageSide, saveSide
<1>1. ASSUME \/ Generate \/ CheckLimit \/ WindowEnds \/ Infer \/ ShowScript \/ GenerationFails
             \/ Disconnected \/ BackToInput \/ Edit \/ UNCHANGED creation
      PROVE  CreationInv'
  <2>1. UNCHANGED saveSide /\ lost' \in {lost, lost + 1}
    BY <1>1 DEF Generate, CheckLimit, WindowEnds, Infer, ShowScript, GenerationFails,
                Disconnected, BackToInput, Edit, creation
  <2>2. SavesExplained'
    BY <2>1, SavesUntouched
  <2>3. CreationTypes'
    <3>1. asked' \in Nat
      <4>1. asked' \in {asked, asked + 1}
        BY <1>1 DEF Generate, CheckLimit, WindowEnds, Infer, ShowScript, GenerationFails,
                    Disconnected, BackToInput, Edit, creation
      <4> QED
        BY <4>1 DEF CreationInv, CreationTypes
    <3>2. stage' = "script" => script' \in [of : Nat, edits : Nat, valid : BOOLEAN]
      <4>1. CASE ShowScript
        BY <4>1 DEF CreationInv, CreationTypes, ShowScript
      <4>2. CASE Edit
        <5>1. PICK ok \in BOOLEAN :
                 script' = [script EXCEPT !.edits = @ + 1, !.valid = ok]
          BY <4>2 DEF Edit
        <5>2. script \in [of : Nat, edits : Nat, valid : BOOLEAN]
          BY <4>2 DEF Edit, CreationInv, CreationTypes
        <5>3. script' = [of |-> script.of, edits |-> script.edits + 1, valid |-> ok]
          BY <5>1, <5>2
        <5>4. script.of \in Nat /\ script.edits + 1 \in Nat
          BY <5>2
        <5> QED
          BY <5>3, <5>4
      <4>3. CASE stage' \in {stage, "input"} /\ script' = script
        BY <4>3 DEF CreationInv, CreationTypes
      <4> QED
        BY <1>1, <4>1, <4>2, <4>3 DEF Generate, CheckLimit, WindowEnds, Infer,
                  GenerationFails, Disconnected, BackToInput, creation
    <3> QED
      BY <2>1, <3>1, <3>2 DEF CreationInv, CreationTypes
  <2>4. AskedIsAnswered'
    <3>1. CASE ShowScript
      BY <3>1 DEF ShowScript, AskedIsAnswered
    <3>2. CASE Edit
      <4>1. script'.of = script.of /\ UNCHANGED <<writing, asked, failed>>
        BY <3>2 DEF Edit, CreationInv, CreationTypes
      <4> QED
        BY <4>1 DEF AskedIsAnswered, CreationInv
    <3>3. CASE Generate
      BY <3>3 DEF Generate, AskedIsAnswered, CreationInv
    <3>4. CASE failed' = TRUE \/ writing'.at # "none"
      BY <3>4 DEF AskedIsAnswered
    <3>5. CASE UNCHANGED <<writing, asked, failed, script>>
      BY <3>5 DEF AskedIsAnswered, CreationInv
    <3>6. CASE CheckLimit \/ Infer \/ GenerationFails \/ Disconnected
      <4>1. \/ Fail
            \/ \E via, at : writing' = [via |-> via, at |-> at] /\ at # "none"
        BY <3>6 DEF CheckLimit, Infer, GenerationFails, Disconnected
      <4>2. failed' = TRUE \/ writing'.at # "none"
        BY <4>1
      <4> QED
        BY <3>4, <4>2
    <3>8. CASE WindowEnds \/ BackToInput \/ UNCHANGED creation
      BY <3>5, <3>8 DEF WindowEnds, BackToInput, creation
    <3> QED
      BY <1>1, <3>1, <3>2, <3>3, <3>6, <3>8
  <2> QED
    BY <2>2, <2>3, <2>4 DEF CreationInv
<1>2. ASSUME LeavePage
      PROVE  CreationInv'
  <2>1. /\ page = "leaving" /\ page' = "left"
        /\ UNCHANGED <<pageSide, used, saving, posts, made, again, lost>>
    BY <1>2 DEF LeavePage
  <2>2. Created' = Created /\ Standing' = Standing
    BY <2>1 DEF Created, Standing
  <2> QED
    BY <2>1, <2>2 DEF CreationInv, CreationTypes, AskedIsAnswered, SavesExplained
<1> QED
  BY <1>1, <1>2, SaveSent, SaveServed, SaveOver DEF CreationNext

\* A script that was asked for is shown or its failure is, and a page makes one agent
\* only, unless the answer to a save was lost or the member saved again on a page that
\* was being left (agents/new/page.tsx, api/agents/route.ts).
THEOREM CreationAnsweredAlways == Spec => []CreationAnswered
<1>1. Init => CreationInv
  BY CreationStart DEF Init
<1>2. CreationInv /\ [Next]_vars => CreationInv'
  <2> SUFFICES ASSUME CreationInv, [Next]_vars PROVE CreationInv'
    OBVIOUS
  <2>1. [CreationNext]_creation
    BY DEF Next, vars
  <2> QED
    BY <2>1, CreationStep
<1>3. ASSUME CreationInv PROVE CreationAnswered
  <2>1. Len(made) <= 1 + lost + again
    BY <1>3, SavesFinite DEF CreationInv, CreationTypes, SavesExplained
  <2> QED
    BY <1>3, <2>1 DEF CreationInv, CreationAnswered, MadeOnce
<1> QED
  BY <1>1, <1>2, <1>3, PTL DEF Spec

(***************************************************************************)
(* The test call.                                                          *)
(***************************************************************************)

BrowserTypes ==
    /\ current \in Sessions \cup {NoSession} /\ shown \in BOOLEAN
    /\ start = [s \in Sessions |-> start[s]]
    /\ initReq = [s \in Sessions |-> initReq[s]]
    /\ endReq = [s \in Sessions |-> endReq[s]]
    /\ room = [s \in Sessions |-> room[s]]
    /\ mic \subseteq Sessions /\ joined \subseteq Sessions /\ known \subseteq Sessions
    /\ \A s \in Sessions :
          /\ initReq[s] \in {"none", "sent", "served", "answered", "failed"}
          /\ endReq[s] \in {"none", "sent", "served", "failed", "done"}

\* A session asks for a room when it has the microphone.  The room's id is known once
\* that is answered, and only then is the room asked to be closed; it is closed when that
\* is served.
Handles == \A s \in Sessions :
    /\ start[s] \in {"none", "mic"} => initReq[s] = "none"
    /\ s \in known <=> initReq[s] = "answered"
    /\ endReq[s] # "none" => s \in known
    /\ endReq[s] \in {"served", "done"} => room[s] # "open"

\* What endCall waits for has no media, and what is unmounted has no session.
LetGo == ending \subseteq released /\ (~shown => current = NoSession)

BrowserInv ==
    BrowserTypes /\ Handles /\ LetGo /\ MediaOfCurrent /\ RoomsAccounted /\ ButtonAgrees

\* startCall goes on, if it does, to a step behind the microphone's.
Started ==
    /\ start' = [s \in Sessions |-> start'[s]]
    /\ \A s \in Sessions : start'[s] \in {"none", "mic"} => start[s] \in {"none", "mic"}

\* The server's side is what it was, but for a request for a room that has failed.
Served ==
    /\ UNCHANGED <<known, room, forsaken>>
    /\ initReq' = [s \in Sessions |-> initReq'[s]]
    /\ \A s \in Sessions :
          \/ initReq'[s] = initReq[s]
          \/ initReq[s] \in {"sent", "served"} /\ initReq'[s] = "failed"

\* No call has been started.
LEMMA BrowserStart == BrowserInit => BrowserInv
<1> SUFFICES ASSUME BrowserInit PROVE BrowserInv
  OBVIOUS
<1>1. BrowserTypes /\ Handles /\ LetGo
  BY DEF BrowserInit, BrowserTypes, Handles, LetGo
<1>2. MediaOfCurrent /\ RoomsAccounted /\ ButtonAgrees
  BY DEF BrowserInit, MediaOfCurrent, RoomsAccounted, ButtonAgrees
<1> QED
  BY <1>1, <1>2 DEF BrowserInv

\* What endCall does is safe: the media are off at once, and the session stays in charge
\* while its room may be open and nobody else is asking for it to be closed.
LEMMA EndKeeps ==
    ASSUME BrowserInv, NEW s \in Sessions, NEW pending, EndCall(s, pending),
           Served, Started
    PROVE  BrowserInv'
<1> USE BrowserAssumption DEF BrowserInv, Started, Served
<1>1. /\ released' = released \cup {s} /\ mic' = mic \ {s} /\ joined' = joined \ {s}
      /\ endReq' = (IF s \in known /\ endReq[s] \in {"none", "failed"}
                    THEN [endReq EXCEPT ![s] = "sent"] ELSE endReq)
      /\ current = s /\ shown' = shown /\ shown
  BY DEF EndCall, ReleaseMedia, SendEnd, Close, LetGo
<1>2. /\ endReq' = [t \in Sessions |-> endReq'[t]]
      /\ \A t \in Sessions : t # s => endReq'[t] = endReq[t]
      /\ endReq'[s] \in {"none", "sent", "served", "failed", "done"}
      /\ s \in known => endReq'[s] \in {"sent", "served", "done"}
      /\ endReq'[s] # "none" => s \in known
      /\ endReq'[s] \in {"served", "done"} => room[s] # "open"
  BY <1>1 DEF BrowserTypes, Handles
<1>3. \/ /\ ending' = ending \cup {s} /\ phase' = "ending" /\ current' = current
      \/ /\ ending' = ending \ {s} /\ phase' = "idle" /\ current' = NoSession
         /\ endReq'[s] \notin {"sent", "served"}
  BY <1>1 DEF EndCall, Close
<1>4. BrowserTypes' /\ Handles' /\ LetGo'
  BY <1>1, <1>2, <1>3 DEF BrowserTypes, Handles, LetGo
<1>5. MediaOfCurrent'
  BY <1>1, <1>3 DEF MediaOfCurrent, StillActive
<1>6. RoomsAccounted'
  BY <1>1, <1>2, <1>3 DEF RoomsAccounted
<1>7. ButtonAgrees'
  BY <1>1, <1>3 DEF ButtonAgrees
<1> QED
  BY <1>4, <1>5, <1>6, <1>7

\* Cleaning up after a session that is no longer in charge is safe.
LEMMA CleanKeeps ==
    ASSUME BrowserInv, NEW s \in Sessions, ReleaseMedia(s), SendEnd(s),
           UNCHANGED <<client, ending>>, Served, Started
    PROVE  BrowserInv'
<1> USE DEF BrowserInv, Started, Served, client
<1>1. /\ released' = released \cup {s} /\ mic' = mic \ {s} /\ joined' = joined \ {s}
      /\ UNCHANGED <<shown, current, phase, ending, known, room, forsaken>>
  BY DEF ReleaseMedia
<1>2. /\ endReq' = [t \in Sessions |-> endReq'[t]]
      /\ \A t \in Sessions : t # s => endReq'[t] = endReq[t]
      /\ endReq'[s] = endReq[s] \/ (s \in known /\ endReq'[s] = "sent")
  BY DEF SendEnd, BrowserTypes
<1>3. BrowserTypes' /\ Handles' /\ LetGo'
  BY <1>1, <1>2 DEF BrowserTypes, Handles, LetGo
<1>4. MediaOfCurrent' /\ ButtonAgrees'
  BY <1>1 DEF MediaOfCurrent, StillActive, ButtonAgrees
<1>5. RoomsAccounted'
  BY <1>1, <1>2 DEF RoomsAccounted
<1> QED
  BY <1>3, <1>4, <1>5

\* An exception in startCall is one or the other.
LEMMA CaughtKeeps ==
    ASSUME BrowserInv, NEW s \in Sessions, Caught(s), Served
    PROVE  BrowserInv'
<1>1. Started
  BY DEF Caught, StartTo, BrowserInv, BrowserTypes, Started
<1>2. CASE EndCall(s, FALSE)
  BY <1>1, <1>2, EndKeeps
<1>3. CASE ReleaseMedia(s) /\ SendEnd(s) /\ UNCHANGED <<client, ending>>
  BY <1>1, <1>3, CleanKeeps
<1> QED
  BY <1>2, <1>3 DEF Caught

\* Every continuation, event and answer keeps it.
LEMMA BrowserStep == ASSUME BrowserInv, [BrowserNext]_calling PROVE BrowserInv'
<1> USE BrowserAssumption DEF BrowserInv, StartTo, client, server, Mishap
<1>0. ASSUME NEW s \in Sessions, NEW pc, pc \notin {"none", "mic"}, StartTo(s, pc)
      PROVE  Started
  BY <1>0 DEF BrowserTypes, Started
<1>16. ASSUME UNCHANGED <<server, forsaken>> PROVE Served
  BY <1>16 DEF BrowserTypes, Served
<1>1. ASSUME NEW s \in Sessions, StartCall(s) PROVE BrowserInv'
  BY <1>1 DEF StartCall, BrowserTypes, Handles, LetGo, MediaOfCurrent, StillActive,
              RoomsAccounted, ButtonAgrees
<1>2. ASSUME NEW s \in Sessions, Microphone(s) PROVE BrowserInv'
  <2>1. CASE Caught(s) /\ UNCHANGED <<server, forsaken>>
    BY <1>16, <2>1, CaughtKeeps
  <2>2. CASE /\ StillActive(s) /\ mic' = mic \cup {s}
             /\ initReq' = [initReq EXCEPT ![s] = "sent"] /\ StartTo(s, "init")
             /\ UNCHANGED <<client, known, room, endReq, ending, released, joined, forsaken>>
    BY <1>2, <2>2 DEF Microphone, BrowserTypes, Handles, LetGo, MediaOfCurrent, StillActive,
                RoomsAccounted, ButtonAgrees
  <2>3. CASE /\ StartTo(s, "done")
             /\ UNCHANGED <<client, server, endReq, ending, released, mic, joined, forsaken>>
    BY <2>3 DEF BrowserTypes, Handles, LetGo, MediaOfCurrent, StillActive, RoomsAccounted,
                ButtonAgrees
  <2> QED
    BY <1>2, <2>1, <2>2, <2>3 DEF Microphone
<1>3. ASSUME NEW s \in Sessions, InitAnswered(s) PROVE BrowserInv'
  <2>1. /\ initReq[s] = "served" /\ initReq' = [initReq EXCEPT ![s] = "answered"]
        /\ known' = known \cup {s}
        /\ UNCHANGED <<client, ending, released, mic, joined, room, forsaken>>
        /\ Started
    BY <1>3, <1>0 DEF InitAnswered
  <2>2. /\ endReq' = [t \in Sessions |-> endReq'[t]]
        /\ \A t \in Sessions : t # s => endReq'[t] = endReq[t]
        /\ endReq[s] = "none" /\ endReq'[s] \in {"none", "sent"}
        /\ endReq'[s] = "sent" \/ current = s
    BY <1>3, <2>1 DEF InitAnswered, BrowserTypes, Handles, StillActive
  <2>3. BrowserTypes' /\ Handles' /\ LetGo'
    BY <2>1, <2>2 DEF BrowserTypes, Handles, LetGo, Started
  <2>4. MediaOfCurrent' /\ ButtonAgrees'
    BY <2>1 DEF MediaOfCurrent, StillActive, ButtonAgrees
  <2>5. RoomsAccounted'
    BY <2>1, <2>2 DEF RoomsAccounted, BrowserTypes
  <2> QED
    BY <2>3, <2>4, <2>5
<1>4. ASSUME NEW s \in Sessions, InitFails(s) PROVE BrowserInv'
  <2>1. /\ initReq[s] \in {"sent", "served"} /\ initReq' = [initReq EXCEPT ![s] = "failed"]
        /\ UNCHANGED <<known, room, forsaken>> /\ s \notin known
    BY <1>4 DEF InitFails, Handles
  <2>2. CASE /\ s \in ending /\ Close(s, TRUE) /\ StartTo(s, "done")
             /\ UNCHANGED <<endReq, released, mic, joined>>
    <3>1. Started /\ ending' = ending \ {s}
      BY <1>0, <2>2 DEF Close
    <3>2. BrowserTypes' /\ Handles'
      BY <2>1, <2>2, <3>1 DEF Close, BrowserTypes, Handles, Started
    <3>3. LetGo' /\ MediaOfCurrent' /\ ButtonAgrees'
      BY <2>2, <3>1 DEF Close, LetGo, MediaOfCurrent, StillActive, ButtonAgrees
    <3>4. RoomsAccounted'
      BY <2>1, <2>2 DEF Close, RoomsAccounted, BrowserTypes
    <3> QED
      BY <3>2, <3>3, <3>4
  <2>3. CASE Caught(s)
    <3>1. Served
      BY <2>1 DEF BrowserTypes, Served
    <3> QED
      BY <2>3, <3>1, CaughtKeeps
  <2> QED
    BY <1>4, <2>2, <2>3 DEF InitFails
<1>5. ASSUME NEW s \in Sessions, Connect(s) PROVE BrowserInv'
  <2>1. UNCHANGED <<server, forsaken>>
    BY <1>5 DEF Connect
  <2>2. CASE Caught(s)
    BY <1>16, <2>1, <2>2, CaughtKeeps
  <2>3. CASE /\ StillActive(s) /\ joined' = joined \cup {s} /\ StartTo(s, "publish")
             /\ UNCHANGED <<client, ending, released, mic, endReq>>
    BY <2>1, <2>3 DEF BrowserTypes, Handles, LetGo, MediaOfCurrent, StillActive,
                      RoomsAccounted, ButtonAgrees
  <2>4. CASE /\ ReleaseMedia(s) /\ SendEnd(s) /\ StartTo(s, "closing")
             /\ UNCHANGED <<client, ending>>
    BY <1>0, <1>16, <2>1, <2>4, CleanKeeps
  <2> QED
    BY <1>5, <2>2, <2>3, <2>4 DEF Connect
<1>6. ASSUME NEW s \in Sessions, Publish(s) PROVE BrowserInv'
  <2>1. UNCHANGED <<server, forsaken>>
    BY <1>6 DEF Publish
  <2>2. CASE Caught(s)
    BY <1>16, <2>1, <2>2, CaughtKeeps
  <2>3. CASE /\ StartTo(s, "audio")
             /\ UNCHANGED <<client, ending, released, mic, joined, endReq>>
    BY <2>1, <2>3 DEF BrowserTypes, Handles, LetGo, MediaOfCurrent, StillActive,
                      RoomsAccounted, ButtonAgrees
  <2>4. CASE /\ ReleaseMedia(s) /\ SendEnd(s) /\ StartTo(s, "closing")
             /\ UNCHANGED <<client, ending>>
    BY <1>0, <1>16, <2>1, <2>4, CleanKeeps
  <2> QED
    BY <1>6, <2>2, <2>3, <2>4 DEF Publish
<1>7. ASSUME NEW s \in Sessions, Connected(s) PROVE BrowserInv'
  BY <1>7 DEF Connected, BrowserTypes, Handles, LetGo, MediaOfCurrent, StillActive,
              RoomsAccounted, ButtonAgrees
<1>8. ASSUME NEW s \in Sessions, End(s) PROVE BrowserInv'
  <2>1. /\ EndCall(s, initReq[s] \in {"sent", "served"}) /\ UNCHANGED <<server, forsaken>>
        /\ Started
    BY <1>8 DEF End, BrowserTypes, Started
  <2> QED
    BY <1>16, <2>1, EndKeeps
<1>9. ASSUME NEW s \in Sessions, EndAnswered(s) PROVE BrowserInv'
  <2>1. /\ endReq[s] = "served" /\ endReq' = [endReq EXCEPT ![s] = "done"]
        /\ UNCHANGED <<server, released, mic, joined, forsaken>>
        /\ start' = [t \in Sessions |-> start'[t]]
    BY <1>9 DEF EndAnswered, BrowserTypes
  <2>2. /\ ending' \subseteq ending /\ shown' = shown
        /\ \/ phase' = phase /\ current' = current
           \/ shown /\ current = s /\ phase' = "idle" /\ current' = NoSession
           \/ shown /\ current = s /\ phase' = "cleanup" /\ current' = current
    BY <1>9 DEF EndAnswered, Close, LetGo
  <2>3. \A t \in Sessions :
           endReq'[t] = IF t = s THEN "done" ELSE endReq[t]
    BY <2>1 DEF BrowserTypes
  <2>4. \A t \in Sessions : start'[t] \in {"none", "mic"} => start[t] \in {"none", "mic"}
    BY <1>9 DEF EndAnswered, BrowserTypes
  <2>5. BrowserTypes' /\ Handles' /\ LetGo'
    BY <2>1, <2>2, <2>3, <2>4 DEF BrowserTypes, Handles, LetGo
  <2>6. s \in ending => s \notin mic \cup joined
    BY DEF LetGo, MediaOfCurrent, StillActive
  <2>7. current' # current => s \in ending
    BY <1>9 DEF EndAnswered, Close
  <2>8. MediaOfCurrent' /\ ButtonAgrees'
    BY <2>1, <2>2, <2>6, <2>7 DEF MediaOfCurrent, StillActive, ButtonAgrees
  <2>9. RoomsAccounted'
    BY <2>1, <2>2, <2>3 DEF RoomsAccounted, Handles
  <2> QED
    BY <2>5, <2>8, <2>9
<1>10. ASSUME NEW s \in Sessions, EndFails(s) PROVE BrowserInv'
  <2>1. /\ endReq[s] \in {"sent", "served"}
        /\ endReq' = [endReq EXCEPT ![s] = IF start[s] = "closing" THEN "sent" ELSE "failed"]
        /\ forsaken' = IF current # s /\ start[s] # "closing" THEN forsaken \cup {s}
                                                             ELSE forsaken
        /\ UNCHANGED <<server, released, mic, joined>>
    BY <1>10 DEF EndFails
  <2>2. /\ ending' \subseteq ending /\ shown' = shown /\ current' = current
        /\ \/ phase' = phase
           \/ shown /\ current = s /\ phase' = "cleanup"
    BY <1>10 DEF EndFails, Close
  <2>3. Started
    BY <1>10 DEF EndFails, BrowserTypes, Started
  <2>4. BrowserTypes' /\ Handles' /\ LetGo'
    BY <2>1, <2>2, <2>3 DEF BrowserTypes, Handles, LetGo, Started
  <2>5. MediaOfCurrent' /\ ButtonAgrees'
    BY <2>1, <2>2 DEF MediaOfCurrent, StillActive, ButtonAgrees
  <2>6. RoomsAccounted'
    BY <2>1, <2>2 DEF RoomsAccounted, BrowserTypes
  <2> QED
    BY <2>4, <2>5, <2>6
<1>11. ASSUME NEW s \in Sessions, MakeRoom(s) PROVE BrowserInv'
  BY <1>11 DEF MakeRoom, BrowserTypes, Handles, LetGo, MediaOfCurrent, StillActive,
              RoomsAccounted, ButtonAgrees
<1>12. ASSUME NEW s \in Sessions, CloseRoom(s) PROVE BrowserInv'
  BY <1>12 DEF CloseRoom, BrowserTypes, Handles, LetGo, MediaOfCurrent, StillActive,
              RoomsAccounted, ButtonAgrees
<1>13. CASE Leave
  <2>1. /\ shown' = FALSE /\ current' = NoSession
        /\ UNCHANGED <<phase, start, server, ending, forsaken>>
    BY <1>13 DEF Leave
  <2>2. CASE current = NoSession
    <3>1. UNCHANGED <<endReq, released, mic, joined>>
      BY <1>13, <2>2 DEF Leave
    <3> QED
      BY <2>1, <2>2, <3>1 DEF BrowserTypes, Handles, LetGo, MediaOfCurrent, StillActive,
                              RoomsAccounted, ButtonAgrees
  <2>3. CASE current \in Sessions
    <3>1. /\ released' = released \cup {current} /\ mic' = mic \ {current}
          /\ joined' = joined \ {current}
          /\ endReq' = (IF current \in known /\ endReq[current] \in {"none", "failed"}
                        THEN [endReq EXCEPT ![current] = "sent"] ELSE endReq)
      BY <1>13, <2>3 DEF Leave, ReleaseMedia, SendEnd
    <3>2. /\ endReq' = [t \in Sessions |-> endReq'[t]]
          /\ \A t \in Sessions : t # current => endReq'[t] = endReq[t]
          /\ endReq'[current] \in {"none", "sent", "served", "failed", "done"}
          /\ current \in known => endReq'[current] \in {"sent", "served", "done"}
          /\ endReq'[current] # "none" => current \in known
          /\ endReq'[current] \in {"served", "done"} => room[current] # "open"
      BY <2>3, <3>1 DEF BrowserTypes, Handles
    <3>3. BrowserTypes' /\ Handles' /\ LetGo'
      BY <2>1, <2>3, <3>1, <3>2 DEF BrowserTypes, Handles, LetGo
    <3>4. MediaOfCurrent' /\ ButtonAgrees'
      BY <2>1, <3>1 DEF MediaOfCurrent, StillActive, ButtonAgrees
    <3>5. RoomsAccounted'
      BY <2>1, <2>3, <3>2 DEF RoomsAccounted
    <3> QED
      BY <3>3, <3>4, <3>5
  <2> QED
    BY <2>2, <2>3 DEF BrowserTypes
<1>14. CASE Enter
  BY <1>14 DEF Enter, BrowserTypes, Handles, LetGo, MediaOfCurrent, StillActive,
              RoomsAccounted, ButtonAgrees
<1>15. CASE UNCHANGED calling
  BY <1>15 DEF calling, BrowserTypes, Handles, LetGo, MediaOfCurrent, StillActive,
              RoomsAccounted, ButtonAgrees
<1> QED
  BY <1>1, <1>2, <1>3, <1>4, <1>5, <1>6, <1>7, <1>8, <1>9, <1>10, <1>11, <1>12, <1>13, <1>14,
     <1>15 DEF BrowserNext

\* Media and room of a test call belong to the session in charge, whichever of its
\* handlers, an event of the room or the unmount comes first, and every room whose id is
\* known is the current session's, is being closed, or could not be closed by anyone
\* (browser-call-playground.tsx).
THEOREM CallAccountedAlways == Spec => []CallAccounted
<1>1. Init => BrowserInv
  BY BrowserStart DEF Init
<1>2. BrowserInv /\ [Next]_vars => BrowserInv'
  <2> SUFFICES ASSUME BrowserInv, [Next]_vars PROVE BrowserInv'
    OBVIOUS
  <2>1. [BrowserNext]_calling
    BY DEF Next, vars
  <2> QED
    BY <2>1, BrowserStep
<1>3. BrowserInv => CallAccounted
  BY DEF BrowserInv, CallAccounted
<1> QED
  BY <1>1, <1>2, <1>3, PTL DEF Spec

(***************************************************************************)
(* The making of campaigns.                                                *)
(***************************************************************************)

Sheet == SUBSET (Phones \cup {NoPhone})
Named == {"made", "starting", "started", "unstarted"}
Accepted == {"checked", "stored"} \cup Named
OrderRows == [by : {"page", "wizard", "nobody"}, sheet : Nat, rows : Sheet,
              at : {"sent", "refused", "answered"} \cup Accepted, id : Nat]
CampaignRows == [rows : SUBSET Phones, sheet : Nat, staffed : BOOLEAN, running : BOOLEAN]

DeskTypes ==
    /\ orders \in Seq(OrderRows) /\ campaigns \in Seq(CampaignRows)
    /\ wizard \in [step : {"details", "upload", "review"}, sheet : Nat, rows : Sheet,
                   busy : BOOLEAN]
    /\ sheets \in Nat /\ staffed \in BOOLEAN /\ wizard.sheet <= sheets

\* What the server has made sure of, and whose an order is.
OrdersInOrder == \A i \in 1..Len(orders) :
    /\ orders[i].sheet <= sheets
    /\ orders[i].at \in Accepted => orders[i].rows \cap Phones # {}
    /\ orders[i].at = "stored" => orders[i].rows \cap Phones \subseteq stored
    /\ orders[i].at \in Named =>
          /\ orders[i].id \in 1..Len(campaigns)
          /\ campaigns[orders[i].id].sheet = orders[i].sheet
    /\ orders[i].by = "page" => orders[i].rows = {}
    /\ orders[i].by = "nobody" /\ orders[i].at = "starting" => orders[i].sheet \in untold

\* The wizard waits for one order at a time and keeps its sheet meanwhile.
Awaited(i) == orders[i].by = "wizard" /\ orders[i].at # "answered"
WizardWaits ==
    /\ \A i \in 1..Len(orders) : Awaited(i) =>
          wizard.busy /\ wizard.step = "review" /\ wizard.sheet = orders[i].sheet
    /\ \A i, j \in 1..Len(orders) : Awaited(i) /\ Awaited(j) => i = j

\* A campaign that was started leaves the wizard without its sheet as soon as the wizard
\* is told.
StartTold(c) == \E i \in 1..Len(orders) :
    orders[i].id = c /\ orders[i].by = "wizard" /\ orders[i].at = "started"
SheetsSpent == \A c \in 1..Len(campaigns) :
    /\ campaigns[c].sheet <= sheets
    /\ campaigns[c].running /\ campaigns[c].sheet \notin untold =>
          StartTold(c) \/ wizard.step # "review" \/ wizard.sheet # campaigns[c].sheet

DeskInv ==
    /\ DeskTypes /\ OrdersInOrder /\ WizardWaits /\ SheetsSpent /\ Diallable
    /\ SheetStartedOnce

\* Nothing has been asked for.
LEMMA DeskStart == DeskInit => DeskInv
<1> SUFFICES ASSUME DeskInit PROVE DeskInv
  OBVIOUS
<1> USE DEF DeskInit
<1>1. DeskTypes
  BY DEF DeskTypes, Sheet
<1>2. OrdersInOrder /\ WizardWaits /\ SheetsSpent
  BY DEF OrdersInOrder, WizardWaits, SheetsSpent
<1>3. Diallable /\ SheetStartedOnce
  BY DEF Diallable, SheetStartedOnce
<1> QED
  BY <1>1, <1>2, <1>3 DEF DeskInv

\* An order that is not yet answered gets on, and no campaign with it.
LEMMA OrderMoves ==
    ASSUME DeskInv, NEW i \in 1..Len(orders), NEW at \in {"refused"} \cup Accepted,
           OrderTo(i, at), UNCHANGED <<wizard, staffed, campaigns, sheets, untold>>,
           at # "started", orders[i].at \notin {"answered", "started"},
           at = "starting" => orders[i].by # "nobody",
           at \in Accepted => orders[i].rows \cap Phones # {},
           at = "stored" => orders[i].rows \cap Phones \subseteq stored',
           at \in Named => orders[i].at \in Named,
           stored \subseteq stored'
    PROVE  DeskInv'
<1> DEFINE e == [orders[i] EXCEPT !.at = at]
<1>1. orders \in Seq(OrderRows) /\ orders[i] \in OrderRows
  BY DEF DeskInv, DeskTypes
<1>2. /\ e \in OrderRows /\ e.at = at /\ e.by = orders[i].by /\ e.sheet = orders[i].sheet
      /\ e.rows = orders[i].rows /\ e.id = orders[i].id
  BY <1>1 DEF OrderRows
<1>3. orders' = [orders EXCEPT ![i] = e]
  BY <1>1 DEF OrderTo
<1> HIDE DEF e
<1>4. /\ orders' \in Seq(OrderRows) /\ Len(orders') = Len(orders) /\ orders'[i] = e
      /\ \A j \in 1..Len(orders) : j # i => orders'[j] = orders[j]
  BY <1>1, <1>2, <1>3, RowBecomes
<1>5. DeskTypes'
  BY <1>4 DEF DeskInv, DeskTypes
<1>6. OrdersInOrder'
  BY <1>2, <1>4 DEF DeskInv, OrdersInOrder
<1>7. WizardWaits'
  <2>1. \A j \in 1..Len(orders) : Awaited(j)' => Awaited(j) /\ orders'[j].sheet = orders[j].sheet
    BY <1>2, <1>4 DEF Awaited
  <2> QED
    BY <1>4, <2>1 DEF DeskInv, WizardWaits
<1>8. SheetsSpent'
  <2>1. ASSUME NEW c, StartTold(c) PROVE StartTold(c)'
    BY <1>4, <2>1 DEF StartTold
  <2> QED
    BY <2>1 DEF DeskInv, SheetsSpent
<1>9. Diallable' /\ SheetStartedOnce'
  BY DEF DeskInv, Diallable, SheetStartedOnce
<1> QED
  BY <1>5, <1>6, <1>7, <1>8, <1>9 DEF DeskInv

\* The wizard turns a leaf while it waits for nothing.
LEMMA WizardTurns ==
    ASSUME DeskInv, \A i \in 1..Len(orders) : ~Awaited(i),
           wizard' \in [step : {"details", "upload", "review"}, sheet : Nat, rows : Sheet,
                        busy : BOOLEAN],
           wizard'.sheet <= sheets', sheets <= sheets', sheets' \in Nat,
           UNCHANGED <<orders, books, untold>>,
           \A c \in 1..Len(campaigns) :
               wizard'.step # "review" \/ wizard'.sheet # campaigns[c].sheet
    PROVE  DeskInv'
<1>1. /\ orders \in Seq(OrderRows) /\ campaigns \in Seq(CampaignRows) /\ sheets \in Nat
      /\ UNCHANGED <<stored, staffed, campaigns>>
  BY DEF DeskInv, DeskTypes, books
<1>2. DeskTypes'
  BY <1>1 DEF DeskInv, DeskTypes
<1>3. OrdersInOrder'
  <2>1. ASSUME NEW i \in 1..Len(orders) PROVE orders[i].sheet \in Nat
    <3>1. orders[i] \in OrderRows
      BY <1>1
    <3> QED
      BY <3>1 DEF OrderRows
  <2> QED
    BY <1>1, <2>1 DEF DeskInv, OrdersInOrder
<1>4. WizardWaits'
  BY DEF WizardWaits, Awaited
<1>5. SheetsSpent'
  <2>1. ASSUME NEW c \in 1..Len(campaigns) PROVE campaigns[c].sheet \in Nat
    <3>1. campaigns[c] \in CampaignRows
      BY <1>1
    <3> QED
      BY <3>1 DEF CampaignRows
  <2> QED
    BY <1>1, <2>1 DEF DeskInv, SheetsSpent
<1>6. Diallable' /\ SheetStartedOnce'
  BY <1>1 DEF DeskInv, Diallable, SheetStartedOnce
<1> QED
  BY <1>2, <1>3, <1>4, <1>5, <1>6 DEF DeskInv

\* An order is sent, by the page or by a wizard that waits for no other.
LEMMA OrderSent ==
    ASSUME DeskInv, NEW by \in {"page", "wizard"}, NEW sheet \in Nat, NEW rows \in Sheet,
           Order(by, sheet, rows), sheet <= sheets, UNCHANGED <<books, sheets, untold>>,
           by = "page" => rows = {} /\ wizard' = wizard,
           by = "wizard" =>
               /\ wizard.step = "review" /\ ~wizard.busy /\ sheet = wizard.sheet
               /\ wizard' = [wizard EXCEPT !.busy = TRUE]
    PROVE  DeskInv'
<1> DEFINE e == [by |-> by, sheet |-> sheet, rows |-> rows, at |-> "sent", id |-> 0]
<1>0. PICK n : n = Len(orders) + 1
  OBVIOUS
<1>1. /\ orders \in Seq(OrderRows) /\ campaigns \in Seq(CampaignRows) /\ Len(orders) \in Nat
      /\ UNCHANGED <<stored, staffed, campaigns>> /\ orders' = Append(orders, e)
  BY DEF DeskInv, DeskTypes, books, Order
<1>2. /\ e \in OrderRows /\ e.by = by /\ e.sheet = sheet /\ e.rows = rows /\ e.at = "sent"
  BY DEF OrderRows
<1> HIDE DEF e
<1>3. /\ orders' \in Seq(OrderRows) /\ Len(orders') = n /\ orders'[n] = e
      /\ \A i \in 1..Len(orders) : orders'[i] = orders[i]
  BY <1>0, <1>1, <1>2
<1>4. DeskTypes' /\ wizard'.sheet = wizard.sheet /\ wizard'.step = wizard.step
  BY <1>1, <1>3 DEF DeskInv, DeskTypes
<1>5. OrdersInOrder'
  BY <1>0, <1>1, <1>2, <1>3 DEF DeskInv, OrdersInOrder, Accepted, Named
<1>6. WizardWaits'
  <2>1. \A i \in 1..Len(orders) : Awaited(i)' <=> Awaited(i)
    BY <1>1, <1>3 DEF Awaited
  <2>2. Awaited(n)' <=> by = "wizard"
    BY <1>2, <1>3 DEF Awaited
  <2>3. CASE by = "page"
    BY <1>0, <1>1, <1>3, <2>1, <2>2, <2>3 DEF DeskInv, WizardWaits
  <2>4. CASE by = "wizard"
    <3>1. \A i \in 1..Len(orders) : ~Awaited(i)
      BY <2>4 DEF DeskInv, WizardWaits
    <3>2. \A i \in 1..Len(orders') : Awaited(i)' => i = n
      BY <1>0, <1>1, <1>3, <2>1, <3>1
    <3>3. wizard'.busy /\ wizard'.step = "review" /\ wizard'.sheet = orders'[n].sheet
      BY <1>2, <1>3, <2>4 DEF DeskInv, DeskTypes
    <3> QED
      BY <3>2, <3>3 DEF WizardWaits
  <2> QED
    BY <2>3, <2>4
<1>7. SheetsSpent'
  <2>1. ASSUME NEW c, StartTold(c) PROVE StartTold(c)'
    BY <1>0, <1>1, <1>3, <2>1 DEF StartTold
  <2> QED
    BY <1>1, <1>4, <2>1 DEF DeskInv, SheetsSpent
<1>8. Diallable' /\ SheetStartedOnce'
  BY <1>1 DEF DeskInv, Diallable, SheetStartedOnce
<1> QED
  BY <1>4, <1>5, <1>6, <1>7, <1>8 DEF DeskInv

\* An order is over for whoever sent it: told, and the wizard is emptied when its campaign
\* was started, or left without an answer.
LEMMA OrderOver ==
    ASSUME DeskInv, NEW i \in 1..Len(orders), NEW e \in OrderRows,
           orders' = [orders EXCEPT ![i] = e], UNCHANGED <<books, sheets>>,
           e.sheet = orders[i].sheet, e.rows = orders[i].rows, e.id = orders[i].id,
           \/ e.at = "answered" /\ e.by = orders[i].by /\ untold' = untold
           \/ /\ e.at = orders[i].at /\ e.by = "nobody"
              /\ untold' = IF orders[i].at \in {"starting", "started"}
                           THEN untold \cup {orders[i].sheet} ELSE untold,
           wizard' \in [step : {"details", "upload", "review"}, sheet : Nat, rows : Sheet,
                        busy : BOOLEAN],
           wizard'.sheet = wizard.sheet, wizard'.step \in {wizard.step, "details"},
           orders[i].by # "wizard" => wizard' = wizard,
           orders[i].by = "wizard" /\ orders[i].at = "started" =>
               wizard'.step = "details" \/ orders[i].sheet \in untold',
           orders[i].at # "answered"
    PROVE  DeskInv'
<1>1. /\ orders \in Seq(OrderRows) /\ campaigns \in Seq(CampaignRows)
      /\ UNCHANGED <<stored, staffed, campaigns>> /\ untold \subseteq untold'
  BY DEF DeskInv, DeskTypes, books
<1>2. /\ orders' \in Seq(OrderRows) /\ Len(orders') = Len(orders) /\ orders'[i] = e
      /\ \A j \in 1..Len(orders) : j # i => orders'[j] = orders[j]
  BY <1>1, RowBecomes
<1>3. DeskTypes'
  BY <1>1, <1>2 DEF DeskInv, DeskTypes
<1>4. OrdersInOrder'
  BY <1>1, <1>2 DEF DeskInv, OrdersInOrder, Accepted, Named
<1>5. WizardWaits'
  <2>1. \A j \in 1..Len(orders) : Awaited(j)' => j # i /\ Awaited(j)
    BY <1>2 DEF Awaited
  <2>2. orders[i].by = "wizard" => \A j \in 1..Len(orders) : ~Awaited(j)'
    BY <2>1 DEF DeskInv, WizardWaits, Awaited
  <2> QED
    BY <1>2, <2>1, <2>2 DEF DeskInv, WizardWaits
<1>6. SheetsSpent'
  <2> SUFFICES ASSUME NEW c \in 1..Len(campaigns), campaigns[c].running,
                      campaigns[c].sheet \notin untold'
               PROVE  \/ StartTold(c)' \/ wizard'.step # "review"
                      \/ wizard'.sheet # campaigns[c].sheet
    BY <1>1 DEF DeskInv, SheetsSpent
  <2>1. StartTold(c) \/ wizard'.step # "review" \/ wizard'.sheet # campaigns[c].sheet
    BY <1>1 DEF DeskInv, SheetsSpent
  <2>2. CASE StartTold(c)
    <3>1. PICK j \in 1..Len(orders) :
             orders[j].id = c /\ orders[j].by = "wizard" /\ orders[j].at = "started"
      BY <2>2 DEF StartTold
    <3>2. CASE j = i
      <4>1. campaigns[c].sheet = orders[i].sheet
        BY <3>1, <3>2 DEF DeskInv, OrdersInOrder, Named
      <4> QED
        BY <3>1, <3>2, <4>1
    <3>3. CASE j # i
      BY <1>2, <3>1, <3>3 DEF StartTold
    <3> QED
      BY <3>2, <3>3
  <2> QED
    BY <2>1, <2>2
<1>7. Diallable' /\ SheetStartedOnce'
  BY <1>1 DEF DeskInv, Diallable, SheetStartedOnce
<1> QED
  BY <1>3, <1>4, <1>5, <1>6, <1>7 DEF DeskInv

\* A campaign is made of the rows that were checked and stored.
LEMMA CampaignMade ==
    ASSUME DeskInv, NEW i \in 1..Len(orders), CreateCampaign(i) PROVE DeskInv'
<1>1. /\ orders \in Seq(OrderRows) /\ orders[i] \in OrderRows /\ orders[i].at = "stored"
      /\ campaigns \in Seq(CampaignRows) /\ Len(campaigns) \in Nat
      /\ UNCHANGED <<wizard, stored, staffed, sheets, untold>>
  BY DEF DeskInv, DeskTypes, CreateCampaign
<1>2. orders[i].rows \cap Phones # {} /\ orders[i].rows \cap Phones \subseteq stored
  BY <1>1 DEF DeskInv, OrdersInOrder, Accepted
<1>3. CASE OrderTo(i, "refused") /\ UNCHANGED campaigns
  BY <1>1, <1>3, OrderMoves DEF Accepted, Named
<1>4. CASE /\ staffed
           /\ campaigns' = Append(campaigns, [rows |-> orders[i].rows \cap Phones,
                  sheet |-> orders[i].sheet, staffed |-> staffed, running |-> FALSE])
           /\ orders' = [orders EXCEPT ![i].at = "made", ![i].id = Len(campaigns')]
  <2> DEFINE c == [rows |-> orders[i].rows \cap Phones, sheet |-> orders[i].sheet,
                   staffed |-> staffed, running |-> FALSE]
             e == [orders[i] EXCEPT !.at = "made", !.id = Len(campaigns) + 1]
  <2>0. PICK n \in Nat : n = Len(campaigns) + 1
    BY <1>1
  <2>1. /\ c \in CampaignRows /\ c.rows = orders[i].rows \cap Phones /\ c.staffed = TRUE
        /\ c.sheet = orders[i].sheet /\ c.running = FALSE
    BY <1>1, <1>4 DEF OrderRows, CampaignRows
  <2>2. campaigns' = Append(campaigns, c)
    BY <1>4
  <2> HIDE DEF c
  <2>3. /\ campaigns' \in Seq(CampaignRows) /\ Len(campaigns') = n /\ campaigns'[n] = c
        /\ \A d \in 1..Len(campaigns) : campaigns'[d] = campaigns[d]
    BY <1>1, <2>0, <2>1, <2>2
  <2>4. orders' = [orders EXCEPT ![i] = e]
    BY <1>1, <1>4, <2>0, <2>3
  <2>5. /\ e \in OrderRows /\ e.at = "made" /\ e.id = n /\ e.by = orders[i].by
        /\ e.sheet = orders[i].sheet /\ e.rows = orders[i].rows
    BY <1>1, <2>0 DEF OrderRows, Accepted, Named
  <2> HIDE DEF e
  <2>6. /\ orders' \in Seq(OrderRows) /\ Len(orders') = Len(orders) /\ orders'[i] = e
        /\ \A j \in 1..Len(orders) : j # i => orders'[j] = orders[j]
    BY <1>1, <2>4, <2>5, RowBecomes
  <2>7. DeskTypes'
    BY <1>1, <2>3, <2>6 DEF DeskInv, DeskTypes
  <2>8. OrdersInOrder'
    <3> SUFFICES ASSUME NEW j \in 1..Len(orders)
                 PROVE  /\ orders'[j].sheet <= sheets
                        /\ orders'[j].at \in Accepted => orders'[j].rows \cap Phones # {}
                        /\ orders'[j].at = "stored" =>
                              orders'[j].rows \cap Phones \subseteq stored
                        /\ orders'[j].at \in Named =>
                              /\ orders'[j].id \in 1..Len(campaigns')
                              /\ campaigns'[orders'[j].id].sheet = orders'[j].sheet
                        /\ orders'[j].by = "page" => orders'[j].rows = {}
                        /\ orders'[j].by = "nobody" /\ orders'[j].at = "starting" =>
                              orders'[j].sheet \in untold
      BY <1>1, <2>6 DEF OrdersInOrder
    <3>1. CASE j = i
      BY <1>1, <1>2, <2>0, <2>1, <2>3, <2>5, <2>6, <3>1 DEF DeskInv, OrdersInOrder
    <3>2. CASE j # i
      <4>1. /\ orders'[j] = orders[j] /\ orders[j].sheet <= sheets
            /\ orders[j].at \in Accepted => orders[j].rows \cap Phones # {}
            /\ orders[j].at = "stored" => orders[j].rows \cap Phones \subseteq stored
            /\ orders[j].by = "page" => orders[j].rows = {}
            /\ orders[j].by = "nobody" /\ orders[j].at = "starting" =>
                  orders[j].sheet \in untold
        BY <2>6, <3>2 DEF DeskInv, OrdersInOrder
      <4>2. orders[j].at \in Named =>
               orders[j].id \in 1..Len(campaigns)
               /\ campaigns[orders[j].id].sheet = orders[j].sheet
        BY DEF DeskInv, OrdersInOrder
      <4> QED
        BY <1>1, <2>0, <2>3, <4>1, <4>2
    <3> QED
      BY <3>1, <3>2
  <2>9. WizardWaits'
    <3>1. \A j \in 1..Len(orders) : Awaited(j)' => Awaited(j) /\ orders'[j].sheet = orders[j].sheet
      BY <1>1, <2>5, <2>6 DEF Awaited
    <3> QED
      BY <1>1, <2>6, <3>1 DEF DeskInv, WizardWaits
  <2>10. SheetsSpent'
    <3>1. ASSUME NEW d, StartTold(d) PROVE StartTold(d)'
      BY <1>1, <2>6, <3>1 DEF StartTold
    <3>2. c.sheet <= sheets
      BY <2>1 DEF DeskInv, OrdersInOrder
    <3> QED
      BY <1>1, <2>0, <2>1, <2>3, <3>1, <3>2 DEF DeskInv, SheetsSpent
  <2>11. Diallable'
    <3> SUFFICES ASSUME NEW d \in 1..n
                 PROVE  /\ campaigns'[d].rows # {} /\ campaigns'[d].rows \subseteq stored
                        /\ campaigns'[d].staffed
      BY <1>1, <2>3 DEF Diallable
    <3>1. d = n \/ d \in 1..Len(campaigns)
      BY <1>1, <2>0
    <3>2. CASE d = n
      BY <1>2, <2>1, <2>3, <3>2
    <3>3. CASE d \in 1..Len(campaigns)
      BY <1>1, <2>3, <3>3 DEF DeskInv, Diallable
    <3> QED
      BY <3>1, <3>2, <3>3
  <2>12. SheetStartedOnce'
    <3>1. \A d \in 1..n : campaigns'[d].running =>
             d \in 1..Len(campaigns) /\ campaigns'[d] = campaigns[d]
      BY <1>1, <2>0, <2>1, <2>3
    <3>2. DOMAIN campaigns' = 1..n /\ DOMAIN campaigns = 1..Len(campaigns)
      BY <1>1, <2>3
    <3> QED
      BY <1>1, <3>1, <3>2 DEF DeskInv, SheetStartedOnce
  <2> QED
    BY <2>7, <2>8, <2>9, <2>10, <2>11, <2>12 DEF DeskInv
<1> QED
  BY <1>3, <1>4 DEF CreateCampaign

\* A campaign is started: the wizard still waits for it, and no other of its sheet runs
\* that the wizard was told of.
LEMMA CampaignStarted ==
    ASSUME DeskInv, NEW i \in 1..Len(orders), StartCampaign(i) PROVE DeskInv'
<1> DEFINE n == orders[i].id
           c == [campaigns[n] EXCEPT !.running = TRUE]
<1>1. /\ orders \in Seq(OrderRows) /\ orders[i] \in OrderRows /\ orders[i].at = "starting"
      /\ campaigns \in Seq(CampaignRows)
      /\ UNCHANGED <<wizard, stored, staffed, sheets>>
  BY DEF DeskInv, DeskTypes, StartCampaign
<1>2. /\ n \in 1..Len(campaigns) /\ campaigns[n].sheet = orders[i].sheet
      /\ campaigns[n] \in CampaignRows /\ orders[i].rows \cap Phones # {}
  BY <1>1 DEF DeskInv, OrdersInOrder, Accepted, Named
<1>3. CASE OrderTo(i, "unstarted") /\ UNCHANGED <<campaigns, untold>>
  BY <1>1, <1>2, <1>3, OrderMoves DEF Accepted, Named
<1>4. ASSUME NEW at \in {"started", "unstarted"}, OrderTo(i, at),
             campaigns' = [campaigns EXCEPT ![orders[i].id].running = TRUE],
             \/ at = "started" /\ untold' = untold
             \/ untold' = untold \cup {orders[i].sheet}
      PROVE  DeskInv'
  <2> DEFINE e == [orders[i] EXCEPT !.at = at]
  <2>0. untold \subseteq untold' /\ (at = "started" \/ orders[i].sheet \in untold')
    BY <1>4
  <2>1. /\ c \in CampaignRows /\ c.rows = campaigns[n].rows /\ c.sheet = campaigns[n].sheet
        /\ c.staffed = campaigns[n].staffed
    BY <1>2 DEF CampaignRows
  <2>2. campaigns' = [campaigns EXCEPT ![n] = c]
    BY <1>2, <1>4
  <2> HIDE DEF c
  <2>3. /\ campaigns' \in Seq(CampaignRows) /\ Len(campaigns') = Len(campaigns)
        /\ campaigns'[n] = c
        /\ \A d \in 1..Len(campaigns) : d # n => campaigns'[d] = campaigns[d]
    BY <1>1, <1>2, <2>1, <2>2, RowBecomes
  <2>4. orders' = [orders EXCEPT ![i] = e]
    BY <1>1, <1>4 DEF OrderTo
  <2>5. /\ e \in OrderRows /\ e.at = at /\ e.id = n /\ e.by = orders[i].by
        /\ e.sheet = orders[i].sheet /\ e.rows = orders[i].rows
    BY <1>1 DEF OrderRows, Accepted, Named
  <2> HIDE DEF e, n
  <2>6. /\ orders' \in Seq(OrderRows) /\ Len(orders') = Len(orders) /\ orders'[i] = e
        /\ \A j \in 1..Len(orders) : j # i => orders'[j] = orders[j]
    BY <1>1, <2>4, <2>5, RowBecomes
  <2>7. \A d \in 1..Len(campaigns) :
           /\ campaigns'[d].sheet = campaigns[d].sheet
           /\ campaigns'[d].rows = campaigns[d].rows
           /\ campaigns'[d].staffed = campaigns[d].staffed
           /\ d # n => campaigns'[d].running = campaigns[d].running
    BY <1>2, <2>1, <2>3
  <2>8. DeskTypes'
    BY <1>1, <2>3, <2>6 DEF DeskInv, DeskTypes
  <2>9. OrdersInOrder'
    <3> SUFFICES ASSUME NEW j \in 1..Len(orders)
                 PROVE  /\ orders'[j].sheet <= sheets
                        /\ orders'[j].at \in Accepted => orders'[j].rows \cap Phones # {}
                        /\ orders'[j].at = "stored" =>
                              orders'[j].rows \cap Phones \subseteq stored
                        /\ orders'[j].at \in Named =>
                              /\ orders'[j].id \in 1..Len(campaigns')
                              /\ campaigns'[orders'[j].id].sheet = orders'[j].sheet
                        /\ orders'[j].by = "page" => orders'[j].rows = {}
                        /\ orders'[j].by = "nobody" /\ orders'[j].at = "starting" =>
                              orders'[j].sheet \in untold'
      BY <1>1, <2>6 DEF OrdersInOrder
    <3>1. CASE j = i
      BY <1>1, <1>2, <2>3, <2>5, <2>6, <2>7, <3>1 DEF DeskInv, OrdersInOrder, Accepted, Named
    <3>2. CASE j # i
      <4>1. /\ orders'[j] = orders[j] /\ orders[j].sheet <= sheets
            /\ orders[j].at \in Accepted => orders[j].rows \cap Phones # {}
            /\ orders[j].at = "stored" => orders[j].rows \cap Phones \subseteq stored
            /\ orders[j].by = "page" => orders[j].rows = {}
            /\ orders[j].by = "nobody" /\ orders[j].at = "starting" =>
                  orders[j].sheet \in untold
        BY <2>6, <3>2 DEF DeskInv, OrdersInOrder
      <4>2. orders[j].at \in Named =>
               orders[j].id \in 1..Len(campaigns)
               /\ campaigns[orders[j].id].sheet = orders[j].sheet
        BY DEF DeskInv, OrdersInOrder
      <4> QED
        BY <1>1, <2>0, <2>3, <2>7, <4>1, <4>2
    <3> QED
      BY <3>1, <3>2
  <2>10. WizardWaits'
    <3>1. \A j \in 1..Len(orders) : Awaited(j)' => Awaited(j) /\ orders'[j].sheet = orders[j].sheet
      BY <1>1, <2>5, <2>6 DEF Awaited
    <3> QED
      BY <1>1, <2>6, <3>1 DEF DeskInv, WizardWaits
  <2>11. orders[i].by = "wizard" \/ orders[i].sheet \in untold
    BY <1>1, <1>2 DEF DeskInv, OrdersInOrder, OrderRows
  <2>12. \A d \in 1..Len(campaigns) : StartTold(d) => StartTold(d)'
    BY <1>1, <2>6 DEF StartTold
  <2>13. SheetsSpent'
    <3>1. orders[i].by = "wizard" /\ at = "started" => \E j \in 1..Len(orders') :
             orders'[j].id = n /\ orders'[j].by = "wizard" /\ orders'[j].at = "started"
      BY <2>5, <2>6
    <3> SUFFICES ASSUME NEW d \in 1..Len(campaigns)
                 PROVE  /\ campaigns'[d].sheet <= sheets
                        /\ campaigns'[d].running /\ campaigns'[d].sheet \notin untold' =>
                             \/ \E j \in 1..Len(orders') :
                                   /\ orders'[j].id = d /\ orders'[j].by = "wizard"
                                   /\ orders'[j].at = "started"
                             \/ wizard.step # "review" \/ wizard.sheet # campaigns'[d].sheet
      BY <1>1, <2>3 DEF SheetsSpent, StartTold
    <3>2. CASE d = n
      BY <1>2, <2>0, <2>7, <2>11, <3>1, <3>2 DEF DeskInv, SheetsSpent
    <3>3. CASE d # n
      BY <2>0, <2>7, <2>12, <3>3 DEF DeskInv, SheetsSpent, StartTold
    <3> QED
      BY <3>2, <3>3
  <2>14. Diallable'
    BY <1>1, <2>3, <2>7 DEF DeskInv, Diallable
  <2>15. ASSUME NEW d \in 1..Len(campaigns), d # n, campaigns[d].running,
                campaigns[d].sheet = campaigns[n].sheet
         PROVE  campaigns[d].sheet \in untold
    <3> SUFFICES ASSUME campaigns[d].sheet \notin untold PROVE FALSE
      OBVIOUS
    <3>1. Awaited(i)
      BY <1>1, <1>2, <2>11, <2>15 DEF Awaited
    <3>2. wizard.step = "review" /\ wizard.sheet = campaigns[d].sheet
      BY <1>2, <2>15, <3>1 DEF DeskInv, WizardWaits
    <3>3. PICK j \in 1..Len(orders) :
             orders[j].id = d /\ orders[j].by = "wizard" /\ orders[j].at = "started"
      BY <2>15, <3>2 DEF DeskInv, SheetsSpent, StartTold
    <3>4. Awaited(j)
      BY <3>3 DEF Awaited
    <3>5. j = i
      BY <3>1, <3>4 DEF DeskInv, WizardWaits
    <3> QED
      BY <1>1, <3>3, <3>5
  <2>16. SheetStartedOnce'
    <3>1. DOMAIN campaigns' = 1..Len(campaigns) /\ DOMAIN campaigns = 1..Len(campaigns)
      BY <1>1, <2>3
    <3> SUFFICES ASSUME NEW a \in 1..Len(campaigns), NEW b \in 1..Len(campaigns), a # b,
                        campaigns'[a].running, campaigns'[b].running,
                        campaigns'[a].sheet = campaigns'[b].sheet
                 PROVE  campaigns'[a].sheet \in untold'
      BY <1>1, <3>1 DEF SheetStartedOnce
    <3>2. CASE a # n /\ b # n
      BY <2>0, <2>7, <3>1, <3>2 DEF DeskInv, SheetStartedOnce
    <3>3. CASE a = n \/ b = n
      BY <1>2, <2>0, <2>7, <2>15, <3>3
    <3> QED
      BY <3>2, <3>3
  <2> QED
    BY <2>8, <2>9, <2>10, <2>13, <2>14, <2>16 DEF DeskInv
<1> QED
  BY <1>3, <1>4 DEF StartCampaign

\* Each step of the page, the wizard and the server keeps it, and so does an answer that
\* is lost.
LEMMA DeskStep == ASSUME DeskInv, [DeskNext]_desk PROVE DeskInv'
<1> DEFINE WizardRows == [step : {"details", "upload", "review"}, sheet : Nat, rows : Sheet,
                          busy : BOOLEAN]
<1>0. /\ orders \in Seq(OrderRows) /\ campaigns \in Seq(CampaignRows) /\ sheets \in Nat
      /\ DOMAIN orders = 1..Len(orders)
      /\ wizard \in WizardRows /\ wizard.sheet <= sheets
  BY DEF DeskInv, DeskTypes
<1>1. CASE AgentsLoaded \/ (\E step \in {"form", "review"} : GoTo(step)) \/ DismissAgent
           \/ UNCHANGED desk
  <2>1. UNCHANGED <<wizard, orders, stored, campaigns, sheets, untold>> /\ staffed' \in BOOLEAN
    BY <1>1 DEF AgentsLoaded, GoTo, DismissAgent, desk, books, DeskInv, DeskTypes
  <2>2. DeskTypes' /\ OrdersInOrder' /\ WizardWaits' /\ SheetsSpent'
    BY <2>1 DEF DeskInv, DeskTypes, OrdersInOrder, WizardWaits, Awaited, SheetsSpent, StartTold
  <2>3. Diallable' /\ SheetStartedOnce'
    BY <2>1 DEF DeskInv, Diallable, SheetStartedOnce
  <2> QED
    BY <2>2, <2>3 DEF DeskInv
<1>2. CASE Launch
  <2>1. Order("page", 0, {}) /\ UNCHANGED <<wizard, books, sheets, untold>>
    BY <1>2 DEF Launch
  <2>2. 0 \in Nat /\ {} \in Sheet /\ 0 <= sheets
    BY <1>0 DEF Sheet
  <2> QED
    BY <2>1, <2>2, OrderSent
<1>3. CASE CreateAndLaunch
  <2>1. /\ wizard.step = "review" /\ ~wizard.busy /\ wizard' = [wizard EXCEPT !.busy = TRUE]
        /\ Order("wizard", wizard.sheet, wizard.rows) /\ UNCHANGED <<books, sheets, untold>>
    BY <1>3 DEF CreateAndLaunch
  <2>2. wizard.sheet \in Nat /\ wizard.rows \in Sheet /\ wizard.sheet <= sheets
    BY <1>0
  <2> QED
    BY <2>1, <2>2, OrderSent
<1>4. ASSUME wizard.step # "review" \/ ~wizard.busy PROVE \A i \in 1..Len(orders) : ~Awaited(i)
  BY <1>4 DEF DeskInv, WizardWaits
<1>5. CASE NameCampaign \/ Back
  <2>1. /\ wizard.step # "review" \/ ~wizard.busy
        /\ UNCHANGED <<orders, books, sheets, untold>>
    BY <1>5 DEF NameCampaign, Back
  <2>2. PICK step \in {"details", "upload"} : wizard' = [wizard EXCEPT !.step = step]
    BY <1>0, <1>5 DEF NameCampaign, Back
  <2>3. wizard' \in WizardRows /\ wizard'.step # "review" /\ wizard'.sheet = wizard.sheet
    BY <1>0, <2>2
  <2> QED
    BY <1>0, <1>4, <1>5, <2>1, <2>3, WizardTurns DEF NameCampaign, Back
<1>6. CASE ReadSheet
  <2>1. PICK rows \in Sheet :
           wizard' = [wizard EXCEPT !.step = "review", !.sheet = sheets', !.rows = rows]
    BY <1>6 DEF ReadSheet, Sheet
  <2>2. /\ wizard.step = "upload" /\ sheets' = sheets + 1 /\ UNCHANGED <<orders, books, untold>>
    BY <1>6 DEF ReadSheet
  <2>3. PICK n \in Nat : n = sheets + 1 /\ n = sheets'
    BY <1>0, <2>2
  <2>4. wizard' \in WizardRows /\ wizard'.sheet = n
    BY <1>0, <2>1, <2>3
  <2>5. ASSUME NEW c \in 1..Len(campaigns) PROVE campaigns[c].sheet # n
    <3>1. campaigns[c] \in CampaignRows /\ campaigns[c].sheet <= sheets
      BY <1>0 DEF DeskInv, SheetsSpent
    <3> QED
      BY <1>0, <2>3, <3>1 DEF CampaignRows
  <2>6. sheets <= sheets' /\ sheets' \in Nat /\ wizard'.sheet <= sheets'
    BY <1>0, <2>3, <2>4
  <2> QED
    BY <1>4, <2>2, <2>4, <2>5, <2>6, WizardTurns
<1>7. ASSUME NEW i \in DOMAIN orders, CheckOrder(i)
      PROVE  DeskInv'
  <2>1. /\ orders[i].at = "sent" /\ UNCHANGED <<wizard, stored, staffed, campaigns, sheets, untold>>
    BY <1>7 DEF CheckOrder, books
  <2>2. \/ OrderTo(i, "checked") /\ orders[i].rows \cap Phones # {}
        \/ OrderTo(i, "refused")
    BY <1>7 DEF CheckOrder
  <2> QED
    BY <1>0, <2>1, <2>2, OrderMoves DEF Accepted, Named
<1>8. ASSUME NEW i \in DOMAIN orders, StoreContacts(i)
      PROVE  DeskInv'
  <2>1. /\ orders[i].at = "checked" /\ UNCHANGED <<wizard, staffed, campaigns, sheets, untold>>
    BY <1>8 DEF StoreContacts
  <2>2. /\ stored \subseteq stored'
        /\ \/ OrderTo(i, "stored") /\ orders[i].rows \cap Phones \subseteq stored'
           \/ OrderTo(i, "refused")
    BY <1>8 DEF StoreContacts
  <2>3. orders[i].rows \cap Phones # {}
    BY <1>0, <2>1 DEF DeskInv, OrdersInOrder, Accepted
  <2> QED
    BY <1>0, <2>1, <2>2, <2>3, OrderMoves DEF Accepted, Named
\* One who sent an order learns what came of it.
<1>9. ASSUME NEW i \in DOMAIN orders, OrderTo(i, "answered"), orders[i].at # "answered",
             UNCHANGED <<books, sheets, untold>>, wizard' \in WizardRows,
             wizard'.sheet = wizard.sheet, wizard'.step \in {wizard.step, "details"},
             orders[i].by # "wizard" => wizard' = wizard,
             orders[i].by = "wizard" /\ orders[i].at = "started" => wizard'.step = "details"
      PROVE  DeskInv'
  <2> DEFINE e == [orders[i] EXCEPT !.at = "answered"]
  <2>1. orders[i] \in OrderRows /\ i \in 1..Len(orders)
    BY <1>0
  <2>2. /\ e \in OrderRows /\ e.at = "answered" /\ e.by = orders[i].by
        /\ e.sheet = orders[i].sheet /\ e.rows = orders[i].rows /\ e.id = orders[i].id
    BY <2>1 DEF OrderRows
  <2>3. orders' = [orders EXCEPT ![i] = e]
    BY <1>0, <1>9 DEF OrderTo
  <2> HIDE DEF e
  <2> QED
    BY <1>9, <2>1, <2>2, <2>3, OrderOver
<1>10. ASSUME NEW i \in DOMAIN orders, PageAnswered(i)
       PROVE  DeskInv'
  BY <1>0, <1>9, <1>10 DEF PageAnswered
<1>11. ASSUME NEW i \in DOMAIN orders, WizardAnswered(i)
       PROVE  DeskInv'
  <2>1. orders[i].by = "wizard" /\ UNCHANGED <<books, sheets, untold>>
    BY <1>11 DEF WizardAnswered
  <2>2. CASE orders[i].at = "made" /\ OrderTo(i, "starting") /\ UNCHANGED wizard
    <3>1. orders[i].rows \cap Phones # {}
      BY <1>0, <2>2 DEF DeskInv, OrdersInOrder, Accepted, Named
    <3> QED
      BY <1>0, <2>1, <2>2, <3>1, OrderMoves DEF Accepted, Named, books
  <2>3. CASE /\ orders[i].at = "refused" /\ wizard' = [wizard EXCEPT !.busy = FALSE]
             /\ OrderTo(i, "answered")
    <3>1. wizard' \in WizardRows /\ wizard'.sheet = wizard.sheet /\ wizard'.step = wizard.step
      BY <1>0, <2>3
    <3> QED
      BY <1>9, <2>1, <2>3, <3>1
  <2> QED
    BY <1>11, <2>2, <2>3 DEF WizardAnswered
<1>12. ASSUME NEW i \in DOMAIN orders, StartAnswered(i)
       PROVE  DeskInv'
  <2>1. /\ orders[i].by = "wizard" /\ orders[i].at \in {"started", "unstarted"}
        /\ OrderTo(i, "answered") /\ UNCHANGED <<books, sheets, untold>>
    BY <1>12 DEF StartAnswered
  <2>2. CASE /\ orders[i].at = "started"
             /\ wizard' = [wizard EXCEPT !.step = "details", !.rows = {}, !.busy = FALSE]
    <3>0. {} \in Sheet
      BY DEF Sheet
    <3>1. wizard' \in WizardRows /\ wizard'.sheet = wizard.sheet /\ wizard'.step = "details"
      BY <1>0, <2>2, <3>0
    <3> QED
      BY <1>9, <2>1, <2>2, <3>1
  <2>3. CASE orders[i].at # "started" /\ wizard' = [wizard EXCEPT !.busy = FALSE]
    <3>1. wizard' \in WizardRows /\ wizard'.sheet = wizard.sheet /\ wizard'.step = wizard.step
      BY <1>0, <2>3
    <3> QED
      BY <1>9, <2>1, <2>3, <3>1
  <2> QED
    BY <1>12, <2>2, <2>3 DEF StartAnswered
<1>13. ASSUME NEW i \in DOMAIN orders, OrderLost(i)
       PROVE  DeskInv'
  <2> DEFINE e == [orders[i] EXCEPT !.by = "nobody"]
  <2>1. orders[i] \in OrderRows /\ i \in 1..Len(orders) /\ orders[i].at # "answered"
    BY <1>0, <1>13 DEF OrderLost
  <2>2. /\ e \in OrderRows /\ e.at = orders[i].at /\ e.by = "nobody"
        /\ e.sheet = orders[i].sheet /\ e.rows = orders[i].rows /\ e.id = orders[i].id
    BY <2>1 DEF OrderRows
  <2>3. /\ orders' = [orders EXCEPT ![i] = e] /\ UNCHANGED <<books, sheets>>
        /\ untold' = IF orders[i].at \in {"starting", "started"}
                     THEN untold \cup {orders[i].sheet} ELSE untold
    BY <1>0, <1>13 DEF OrderLost
  <2> HIDE DEF e
  <2>4. PICK busy \in BOOLEAN : busy <=> wizard.busy /\ orders[i].by # "wizard"
    OBVIOUS
  <2>5. wizard' = [wizard EXCEPT !.busy = busy]
    BY <1>0, <1>13, <2>4 DEF OrderLost
  <2>6. /\ wizard' \in WizardRows /\ wizard'.sheet = wizard.sheet /\ wizard'.step = wizard.step
        /\ orders[i].by # "wizard" => wizard' = wizard
    BY <1>0, <2>4, <2>5
  <2>7. orders[i].at = "started" => orders[i].sheet \in untold'
    BY <2>3
  <2> QED
    BY <2>1, <2>2, <2>3, <2>6, <2>7, OrderOver
<1> QED
  BY <1>0, <1>1, <1>2, <1>3, <1>5, <1>6, <1>7, <1>8, <1>10, <1>11, <1>12, <1>13, CampaignMade,
     CampaignStarted DEF DeskNext

(***************************************************************************)
(* The pages that list.                                                    *)
(***************************************************************************)

Views == {"agents", "agent", "calls", "results", "campaigns"}
Filters == {"all", "outbound"} \cup RowStatuses
Tables == UNION {[S -> RowRecords] : S \in SUBSET Rows}
Questions == [no : Nat, poll : BOOLEAN, at : {"sent", "served"}, filter : Filters,
              asOf : Nat, rows : Tables]
Handlers == [no : Nat, what : {"toggle", "duplicate", "save", "hot", "campaign"}, of : Rows,
             under : Filters, at : {"clicked", "read", "written"}, status : RowStatuses,
             asOf : Nat]

DrawerRows == {Gone} \cup [of : Rows, row : RowRecords]
Clickable == {"toggle", "duplicate", "save", "hot", "campaign"}

ListingTypes ==
    /\ view \in Views \cup {"none"} /\ filter \in Filters /\ asking \subseteq Questions
    /\ list \in [no : Nat, filter : Filters, asOf : Nat, rows : Tables]
    /\ drawer \in {Gone} \cup [of : Rows, row : RowRecords]
    /\ linked \in Rows \cup {Gone} /\ doing \subseteq Handlers
    /\ row \in [Rows -> {Gone} \cup RowRecords] /\ moves \in Nat /\ wrote \in Nat
    /\ wrote <= moves /\ sent \in Nat /\ clicks \in Nat
    /\ outdone \in BOOLEAN /\ strayed \in BOOLEAN /\ unheard \in BOOLEAN

\* Questions are told apart by their numbers, and the list shows one no longer asked.
Numbered ==
    /\ \A q \in asking : q.no \in 1..sent /\ q.no # list.no
    /\ \A p, q \in asking : p.no = q.no => p = q
    /\ list.no <= sent /\ (list.no = 0 => DOMAIN list.rows = {})

\* What is clicked on which page; the page of one agent asks once, before any click.
ClickedThere ==
    /\ \A c \in doing :
          /\ c.asOf <= wrote
          /\ c.what = "hot" => view = "results" /\ c.at = "clicked"
          /\ c.what = "campaign" => view = "campaigns"
    /\ view = "none" => sent = 0 /\ doing = {} /\ drawer = Gone /\ chosen = Gone
    /\ view = "agent" => sent = 1 /\ (doing # {} => list.no = 1)

\* The newest question is under way or its answer shown, unless an older one overtook it.
NewestAsked == ~outdone => list.no = sent \/ \E q \in asking : q.no = sent

\* The newest question asks, or asked, for what its reader has chosen.
AskedAsChosen == ~strayed =>
    /\ \A q \in asking : q.no = sent => q.filter = filter
    /\ list.no = sent => list.filter = filter

\* The page's last change will be asked for by its handler, is asked for, or is shown.
ChangeAsked == ~outdone /\ ~unheard =>
    \/ \E c \in doing : c.at = "written" /\ c.asOf = wrote
    \/ \E q \in asking : q.no = sent /\ (q.at = "sent" \/ q.asOf >= wrote)
    \/ list.no = sent /\ list.asOf >= wrote

ListingsInv ==
    /\ ListingTypes /\ Numbered /\ ClickedThere /\ NewestAsked /\ AskedAsChosen
    /\ ChangeAsked /\ DetailsKept

\* No page is open.
LEMMA NoTable == NoRows \in Tables /\ DOMAIN NoRows = {}
<1>1. NoRows \in [{} -> RowRecords]
  BY DEF NoRows
<1> QED
  BY <1>1 DEF Tables, NoRows

LEMMA ListingsStart == ListingsInit => ListingsInv
<1> SUFFICES ASSUME ListingsInit PROVE ListingsInv
  OBVIOUS
<1>1. /\ list \in [no : Nat, filter : Filters, asOf : Nat, rows : Tables]
      /\ list.no = 0 /\ list.filter = "all" /\ list.asOf = 0 /\ list.rows = NoRows
  BY NoTable DEF ListingsInit, Filters
<1>2. row \in [Rows -> {Gone} \cup RowRecords]
  BY DEF ListingsInit
<1>3. /\ drawer = Gone /\ linked = Gone /\ doing = {} /\ asking = {} /\ moves = 0 /\ wrote = 0
      /\ sent = 0 /\ clicks = 0 /\ view = "none" /\ filter = "all" /\ chosen = Gone
      /\ outdone = FALSE /\ strayed = FALSE /\ unheard = FALSE
  BY DEF ListingsInit
<1>4. ListingTypes
  <2>1. filter \in Filters
    BY <1>3 DEF Filters
  <2>2. /\ view \in Views \cup {"none"} /\ asking \subseteq Questions /\ doing \subseteq Handlers
        /\ drawer \in {Gone} \cup [of : Rows, row : RowRecords] /\ linked \in Rows \cup {Gone}
    BY <1>3
  <2>3. moves \in Nat /\ wrote \in Nat /\ wrote <= moves /\ sent \in Nat /\ clicks \in Nat
    BY <1>3
  <2> QED
    BY <1>1, <1>2, <1>3, <2>1, <2>2, <2>3 DEF ListingTypes
<1>5. Numbered /\ ClickedThere
  BY <1>1, <1>3, NoTable DEF Numbered, ClickedThere
<1>6. NewestAsked /\ AskedAsChosen /\ ChangeAsked /\ DetailsKept
  BY <1>1, <1>3 DEF NewestAsked, AskedAsChosen, ChangeAsked, DetailsKept
<1> QED
  BY <1>4, <1>5, <1>6 DEF ListingsInv

\* When nothing is under way the list is the newest.
LEMMA ListingsPromise == ASSUME ListingsInv PROVE ListIsNewest
BY DEF ListingsInv, ListingTypes, NewestAsked, AskedAsChosen, ChangeAsked, ListIsNewest

\* A row of a table is a row.
LEMMA RowOfTable ==
    ASSUME NEW rows \in Tables, NEW r \in DOMAIN rows
    PROVE  rows[r] \in RowRecords /\ r \in Rows
BY DEF Tables

\* What is answered is a table of the rows there are.
LEMMA AnswerIsTable ==
    ASSUME ListingTypes, view # "none", NEW f, NEW rows \in Answers(f)
    PROVE  rows \in Tables
<1> DEFINE T(D) == [r \in D |-> row[r]]
           Has(D) == D \subseteq Rows /\ \A r \in D : row[r] # Gone
<1>1. ASSUME NEW D, Has(D) PROVE T(D) \in Tables
  <2>1. T(D) \in [D -> RowRecords]
    BY <1>1 DEF ListingTypes
  <2> QED
    BY <1>1, <2>1 DEF Tables
<1> DEFINE D(S) == {s \in Rows : row[s] # Gone /\ row[s].status \in S}
<1>2. ASSUME NEW S PROVE Those(S) = T(D(S)) /\ Has(D(S)) /\ DOMAIN Those(S) = D(S)
  BY DEF Those
<1> HIDE DEF T
<1>3. CASE view # "results"
  <2>1. rows = NoRows \/ \E g : rows = Those(Under(g))
    <3>1. rows \in AgentsFor(f) \/ rows \in CallsFor(f) \/ rows \in CampaignsFor(f)
      BY <1>3 DEF Answers, ListingTypes, Views
    <3>2. AgentsFor(f) = {Those(Under(f)), NoRows} /\ CampaignsFor(f) = {Those(Under(f)), NoRows}
      BY DEF AgentsFor, CampaignsFor
    <3>3. CallsFor(f) = {Those(Under(IF f = "outbound" THEN "all" ELSE f)), NoRows}
      BY DEF CallsFor
    <3> QED
      BY <3>1, <3>2, <3>3
  <2>2. ASSUME NEW g PROVE Those(Under(g)) \in Tables
    <3>1. Those(Under(g)) = T(D(Under(g))) /\ Has(D(Under(g)))
      BY <1>2
    <3> QED
      BY <1>1, <3>1
  <2> QED
    BY <2>1, <2>2, NoTable
<1>4. CASE view = "results"
  <2>1. PICK S : rows = [r \in S \cap DOMAIN Those(Under(f)) |-> row[r]]
    BY <1>4 DEF Answers, LeadsFor
  <2>2. rows = T(S \cap D(Under(f))) /\ Has(S \cap D(Under(f)))
    BY <1>2, <2>1 DEF T
  <2> QED
    BY <1>1, <2>2
<1> QED
  BY <1>3, <1>4

\* The page asks: it has a new newest question, which has read nothing yet.
LEMMA PageAsks ==
    ASSUME ListingsInv, NEW f \in Filters, NEW poll \in BOOLEAN, Send(f, poll),
           filter' \in Filters, UNCHANGED <<list, moves, wrote, outdone, unheard, clicks>>,
           view' \in Views, view' = view \/ view = "none",
           view' = "agent" => view = "none",
           doing' \subseteq doing, row' \in [Rows -> {Gone} \cup RowRecords],
           linked' \in Rows \cup {Gone}, drawer' \in DrawerRows, DetailsKept'
    PROVE  ListingsInv'
<1> DEFINE e == [no |-> sent', poll |-> poll, at |-> "sent", filter |-> f, asOf |-> 0,
                 rows |-> NoRows]
<1>1. /\ sent' = sent + 1 /\ asking' = asking \cup {e}
      /\ strayed' = (strayed \/ f # filter')
  BY DEF Send
<1>2. PICK n \in Nat : n = sent + 1 /\ n = sent' /\ sent \in Nat
  BY <1>1 DEF ListingsInv, ListingTypes
<1>3. /\ e \in Questions /\ e.no = n /\ e.at = "sent" /\ e.filter = f
  BY <1>2, NoTable DEF Questions
<1> HIDE DEF e
<1>4. ListingTypes'
  <2>1. asking' \subseteq Questions /\ doing' \subseteq Handlers /\ strayed' \in BOOLEAN
    BY <1>1, <1>3 DEF ListingsInv, ListingTypes
  <2>2. sent' \in Nat /\ drawer' \in {Gone} \cup [of : Rows, row : RowRecords]
    BY <1>2 DEF DrawerRows
  <2> QED
    BY <2>1, <2>2 DEF ListingsInv, ListingTypes
<1>5. list.no \in Nat /\ list.no <= sent /\ \A q \in asking : q.no \in 1..sent
  BY DEF ListingsInv, ListingTypes, Numbered
<1>6. Numbered'
  <2>1. \A q \in asking' : q = e \/ (q \in asking /\ q.no \in 1..sent)
    BY <1>1, <1>5
  <2>2. \A q \in asking' : q.no \in 1..n /\ q.no # list.no
    BY <1>2, <1>3, <1>5, <2>1 DEF ListingsInv, Numbered
  <2>3. \A p, q \in asking' : p.no = q.no => p = q
    BY <1>2, <1>3, <2>1 DEF ListingsInv, Numbered
  <2> QED
    BY <1>2, <1>5, <2>2, <2>3 DEF ListingsInv, Numbered
<1>7. ClickedThere'
  BY <1>1, <1>2 DEF ListingsInv, ClickedThere, Views
<1>8. e \in asking' /\ e.no = sent' /\ e.at = "sent"
  BY <1>1, <1>2, <1>3
<1>9. NewestAsked' /\ ChangeAsked'
  BY <1>8 DEF NewestAsked, ChangeAsked
<1>10. AskedAsChosen'
  <2> SUFFICES ASSUME ~strayed' PROVE \A q \in asking' : q.no = sent' => q.filter = filter'
    BY <1>2, <1>5 DEF AskedAsChosen
  <2>1. f = filter'
    <3>1. strayed \in BOOLEAN
      BY DEF ListingsInv, ListingTypes
    <3> QED
      BY <1>1, <3>1
  <2> QED
    BY <1>1, <1>2, <1>3, <1>5, <2>1
<1> QED
  BY <1>4, <1>6, <1>7, <1>9, <1>10 DEF ListingsInv

\* The server answers with the rows as they are now.
LEMMA ServerAnswers == ASSUME ListingsInv, NEW q \in asking, Serve(q) PROVE ListingsInv'
<1>1. PICK rows \in Answers(q.filter) :
         asking' = (asking \ {q}) \cup
             {[q EXCEPT !.at = "served", !.asOf = moves, !.rows = rows]}
  BY DEF Serve
<1> DEFINE e == [q EXCEPT !.at = "served", !.asOf = moves, !.rows = rows]
<1>2. UNCHANGED <<view, linked, filter, list, drawer, chosen, heard, doing, row, moves, wrote,
                  outdone, strayed, unheard, sent, clicks>>
  BY DEF Serve, opened, details, records
<1>3. q \in Questions /\ view # "none" /\ moves \in Nat
  BY DEF ListingsInv, ListingTypes, ClickedThere, Numbered
<1>4. rows \in Tables
  BY <1>3, AnswerIsTable DEF ListingsInv
<1>5. /\ e \in Questions /\ e.no = q.no /\ e.at = "served" /\ e.filter = q.filter
      /\ e.asOf = moves
  BY <1>3, <1>4 DEF Questions
<1>6. asking' = (asking \ {q}) \cup {e}
  BY <1>1
<1> HIDE DEF e
<1>7. ListingTypes'
  <2>1. asking' \subseteq Questions
    BY <1>5, <1>6 DEF ListingsInv, ListingTypes
  <2> QED
    BY <1>2, <2>1 DEF ListingsInv, ListingTypes
<1>8. Numbered' /\ ClickedThere'
  BY <1>2, <1>5, <1>6 DEF ListingsInv, Numbered, ClickedThere
<1>9. NewestAsked' /\ AskedAsChosen'
  BY <1>2, <1>5, <1>6 DEF ListingsInv, NewestAsked, AskedAsChosen
<1>10. ChangeAsked'
  <2>1. wrote <= moves
    BY DEF ListingsInv, ListingTypes
  <2>2. ASSUME NEW p \in asking, p.no = sent, p.at = "sent" \/ p.asOf >= wrote
        PROVE  \E r \in asking' : r.no = sent /\ (r.at = "sent" \/ r.asOf >= wrote)
    <3>1. CASE p = q
      BY <1>3, <1>5, <1>6, <2>1, <2>2, <3>1 DEF ListingsInv, ListingTypes
    <3>2. CASE p # q
      BY <1>6, <2>2, <3>2
    <3> QED
      BY <3>1, <3>2
  <2> QED
    BY <1>2, <2>2 DEF ListingsInv, ChangeAsked
<1>11. DetailsKept'
  BY <1>2 DEF ListingsInv, DetailsKept
<1> QED
  BY <1>7, <1>8, <1>9, <1>10, <1>11 DEF ListingsInv

\* An answer is shown, in whatever order; one that is not the newest is outdone.
LEMMA PageShows ==
    ASSUME ListingsInv, NEW q \in asking, Show(q), drawer' \in DrawerRows, DetailsKept'
    PROVE  ListingsInv'
<1>1. /\ asking' = asking \ {q} /\ outdone' = (outdone \/ q.no < list.no)
      /\ list' = [no |-> q.no, filter |-> q.filter, asOf |-> q.asOf, rows |-> q.rows]
      /\ q.at = "served"
      /\ UNCHANGED <<view, linked, filter, doing, row, moves, wrote, strayed, unheard, sent,
                     clicks>>
  BY DEF Show, opened, records
<1>2. /\ q \in Questions /\ q.no \in 1..sent /\ list.no \in Nat /\ sent \in Nat
      /\ q.no # list.no /\ list.no <= sent
  BY DEF ListingsInv, ListingTypes, Numbered
<1>3. /\ list' \in [no : Nat, filter : Filters, asOf : Nat, rows : Tables]
      /\ list'.no = q.no /\ list'.filter = q.filter /\ list'.asOf = q.asOf
  BY <1>1, <1>2 DEF Questions
<1>4. ListingTypes'
  BY <1>1, <1>3 DEF ListingsInv, ListingTypes, DrawerRows
<1>5. Numbered'
  BY <1>1, <1>2, <1>3 DEF ListingsInv, Numbered
<1>6. ClickedThere'
  <2>1. view # "none"
    BY <1>2 DEF ListingsInv, ClickedThere
  <2>2. view = "agent" => q.no = 1
    BY <1>2 DEF ListingsInv, ClickedThere
  <2> QED
    BY <1>1, <1>3, <2>1, <2>2 DEF ListingsInv, ClickedThere
<1>7. ~outdone' => ~outdone /\ (list.no # sent \/ q.no = sent)
  <2>1. outdone' = (outdone \/ q.no < list.no)
    BY <1>1
  <2>2. q.no < list.no => outdone'
    BY <2>1, Zenon
  <2>3. outdone => outdone'
    BY <2>1, Zenon
  <2>4. q.no \in Nat /\ list.no \in Nat /\ sent \in Nat /\ q.no <= sent
    BY <1>2
  <2> QED
    BY <2>2, <2>3, <2>4
<1>8. NewestAsked'
  <2>1. list'.no = q.no /\ sent' = sent /\ asking' = asking \ {q}
    BY <1>1, <1>3
  <2>2. CASE ~outdone' /\ q.no # sent
    <3>1. PICK p \in asking : p.no = sent
      BY <1>7, <2>2 DEF ListingsInv, NewestAsked
    <3> QED
      BY <2>1, <2>2, <3>1 DEF NewestAsked
  <2>3. CASE q.no = sent
    BY <2>1, <2>3 DEF NewestAsked
  <2> QED
    BY <2>2, <2>3 DEF NewestAsked
<1>10. AskedAsChosen'
  BY <1>1, <1>2, <1>3 DEF ListingsInv, AskedAsChosen
<1>9. ChangeAsked'
  BY <1>1, <1>2, <1>3, <1>7 DEF ListingsInv, ChangeAsked
<1> QED
  BY <1>4, <1>5, <1>6, <1>8, <1>9, <1>10 DEF ListingsInv

\* Only the open details change.
LEMMA ReaderLooks ==
    ASSUME ListingsInv, drawer' \in DrawerRows, DetailsKept', view # "none",
           UNCHANGED <<opened, filter, asking, list, doing, records, outdone, strayed,
                       unheard, sent, clicks>>
    PROVE  ListingsInv'
<1>1. UNCHANGED <<view, linked, filter, asking, list, doing, row, moves, wrote, outdone,
                  strayed, unheard, sent, clicks>>
  BY DEF opened, records
<1>2. ListingTypes'
  BY <1>1 DEF ListingsInv, ListingTypes, DrawerRows
<1>3. Numbered' /\ ClickedThere'
  BY <1>1 DEF ListingsInv, Numbered, ClickedThere
<1>4. NewestAsked' /\ AskedAsChosen' /\ ChangeAsked'
  BY <1>1 DEF ListingsInv, NewestAsked, AskedAsChosen, ChangeAsked
<1> QED
  BY <1>2, <1>3, <1>4 DEF ListingsInv

\* A click starts a handler on the page it belongs to.
LEMMA ReaderClicks ==
    ASSUME ListingsInv, NEW what \in Clickable, NEW r \in Rows, Click(what, r),
           what = "hot" => view = "results", what = "campaign" => view = "campaigns",
           view # "none", view = "agent" => list.no = 1
    PROVE  ListingsInv'
<1> DEFINE e == [no |-> clicks', what |-> what, of |-> r, under |-> filter,
                 at |-> "clicked", status |-> "ready", asOf |-> 0]
<1>1. clicks' = clicks + 1 /\ doing' = doing \cup {e}
  BY DEF Click
<1>2. UNCHANGED <<view, linked, filter, asking, list, drawer, chosen, heard, row, moves,
                  wrote, outdone, strayed, unheard, sent>>
  BY DEF Click, opened, details, records
<1>3. clicks' \in Nat /\ filter \in Filters
  BY <1>1 DEF ListingsInv, ListingTypes
<1>4. e \in Handlers /\ e.what = what /\ e.asOf = 0 /\ e.at = "clicked"
  BY <1>3 DEF Handlers, Clickable, RowStatuses
<1> HIDE DEF e
<1>5. ListingTypes'
  <2>1. doing' \subseteq Handlers
    BY <1>1, <1>4 DEF ListingsInv, ListingTypes
  <2> QED
    BY <1>2, <1>3, <2>1 DEF ListingsInv, ListingTypes
<1>6. Numbered' /\ NewestAsked' /\ AskedAsChosen'
  BY <1>2 DEF ListingsInv, Numbered, NewestAsked, AskedAsChosen
<1>7. ClickedThere'
  <2>1. wrote \in Nat
    BY DEF ListingsInv, ListingTypes
  <2> QED
    BY <1>1, <1>2, <1>4, <2>1 DEF ListingsInv, ClickedThere
<1>8. ChangeAsked' /\ DetailsKept'
  BY <1>1, <1>2 DEF ListingsInv, ChangeAsked, DetailsKept
<1> QED
  BY <1>5, <1>6, <1>7, <1>8 DEF ListingsInv

\* A handler that has changed nothing yet goes on or gives up.
LEMMA HandlerMoves ==
    ASSUME ListingsInv, NEW c \in doing, c.at # "written", NEW D,
           doing' = (doing \ {c}) \cup D,
           \A d \in D : d \in Handlers /\ d.what = c.what /\ d.what # "hot" /\ d.asOf = c.asOf,
           UNCHANGED <<opened, filter, asking, list, details, records, outdone, strayed,
                       unheard, sent, clicks>>
    PROVE  ListingsInv'
<1>1. UNCHANGED <<view, linked, filter, asking, list, drawer, chosen, heard, row, moves,
                  wrote, outdone, strayed, unheard, sent, clicks>>
  BY DEF opened, details, records
<1>2. ListingTypes'
  <2>1. doing' \subseteq Handlers
    BY DEF ListingsInv, ListingTypes
  <2> QED
    BY <1>1, <2>1 DEF ListingsInv, ListingTypes
<1>3. Numbered' /\ NewestAsked' /\ AskedAsChosen' /\ DetailsKept'
  BY <1>1 DEF ListingsInv, Numbered, NewestAsked, AskedAsChosen, DetailsKept
<1>4. ClickedThere'
  BY <1>1 DEF ListingsInv, ClickedThere
<1>5. ChangeAsked'
  BY <1>1 DEF ListingsInv, ChangeAsked
<1> QED
  BY <1>2, <1>3, <1>4, <1>5 DEF ListingsInv

\* A handler changes a row: it is told and will ask, or its answer is lost.
LEMMA HandlerWrites ==
    ASSUME ListingsInv, NEW c \in doing, c.what # "hot", NEW status \in RowStatuses,
           Written(c, status),
           row' \in [Rows -> {Gone} \cup RowRecords],
           UNCHANGED <<opened, list, details, outdone, clicks>>
    PROVE  ListingsInv'
<1> DEFINE e == [c EXCEPT !.at = "written", !.status = status, !.asOf = moves']
<1>1. /\ moves' = moves + 1 /\ wrote' = moves'
      /\ UNCHANGED <<view, linked, filter, asking, list, drawer, chosen, heard, outdone, strayed,
                     sent, clicks>>
      /\ \/ doing' = (doing \ {c}) \cup {e} /\ unheard' = unheard
         \/ doing' = doing \ {c} /\ unheard' = TRUE
  BY DEF Written, opened, details
<1>2. PICK n \in Nat : n = moves + 1 /\ n = moves' /\ moves \in Nat /\ wrote \in Nat /\ wrote <= moves
  BY <1>1 DEF ListingsInv, ListingTypes
<1>3. /\ e \in Handlers /\ e.at = "written" /\ e.asOf = n /\ e.what = c.what /\ c \in Handlers
  BY <1>2 DEF ListingsInv, ListingTypes, Handlers
<1> HIDE DEF e
<1>4. ListingTypes'
  <2>1. doing' \subseteq Handlers /\ unheard' \in BOOLEAN
    BY <1>1, <1>3 DEF ListingsInv, ListingTypes
  <2> QED
    BY <1>1, <1>2, <2>1 DEF ListingsInv, ListingTypes
<1>5. Numbered' /\ NewestAsked' /\ AskedAsChosen' /\ DetailsKept'
  BY <1>1 DEF ListingsInv, Numbered, NewestAsked, AskedAsChosen, DetailsKept
<1>6. ClickedThere'
  <2>1. \A d \in doing : d.asOf \in Nat
    BY DEF ListingsInv, ListingTypes, Handlers
  <2>2. \A d \in doing' : d.asOf <= wrote' /\ (d.what = c.what \/ d \in doing)
    BY <1>1, <1>2, <1>3, <2>1 DEF ListingsInv, ClickedThere
  <2> QED
    BY <1>1, <2>2 DEF ListingsInv, ClickedThere
<1>7. ChangeAsked'
  BY <1>1, <1>2, <1>3 DEF ChangeAsked
<1> QED
  BY <1>4, <1>5, <1>6, <1>7 DEF ListingsInv

\* The agent's own page shows what was written, and nothing else asks there.
LEMMA AgentTold == ASSUME ListingsInv, NEW c \in doing, FinishThis(c) PROVE ListingsInv'
<1>1. /\ view = "agent" /\ c.at = "written" /\ doing' = doing \ {c}
      /\ list' = [list EXCEPT !.asOf = c.asOf, !.rows[c.of].status = c.status]
      /\ outdone' = (outdone \/ c.asOf < list.asOf)
      /\ UNCHANGED <<view, linked, filter, asking, drawer, chosen, heard, row, moves, wrote,
                     strayed, unheard, sent, clicks>>
  BY DEF FinishThis, Over, opened, details, records
<1>2. /\ c \in Handlers /\ c.asOf \in Nat /\ c.asOf <= wrote /\ wrote \in Nat
      /\ list \in [no : Nat, filter : Filters, asOf : Nat, rows : Tables]
  BY DEF ListingsInv, ListingTypes, ClickedThere, Handlers
<1>3. list.no = 1 /\ sent = 1
  BY <1>1 DEF ListingsInv, ClickedThere
<1> DEFINE rows == [list.rows EXCEPT ![c.of].status = c.status]
<1>4. rows \in Tables /\ DOMAIN rows = DOMAIN list.rows
  <2>1. PICK S \in SUBSET Rows : list.rows \in [S -> RowRecords]
    BY <1>2 DEF Tables
  <2>2. rows \in [S -> RowRecords]
    <3>1. c.status \in RowStatuses
      BY <1>2 DEF Handlers
    <3>2. \A r \in S : [list.rows[r] EXCEPT !.status = c.status] \in RowRecords
      BY <2>1, <3>1 DEF RowRecords
    <3> QED
      BY <2>1, <3>2
  <2> QED
    BY <2>1, <2>2 DEF Tables
<1> HIDE DEF rows
<1>5. list' = [list EXCEPT !.asOf = c.asOf, !.rows = rows]
  BY <1>1, <1>2 DEF rows
<1>6. /\ list' \in [no : Nat, filter : Filters, asOf : Nat, rows : Tables]
      /\ list'.no = 1 /\ list'.asOf = c.asOf /\ list'.filter = list.filter
      /\ list'.rows = rows
  BY <1>2, <1>3, <1>4, <1>5
<1>7. ListingTypes'
  BY <1>1, <1>6 DEF ListingsInv, ListingTypes
<1>8. Numbered' /\ ClickedThere' /\ DetailsKept'
  BY <1>1, <1>3, <1>4, <1>6 DEF ListingsInv, Numbered, ClickedThere, DetailsKept
<1>9. NewestAsked' /\ AskedAsChosen'
  BY <1>1, <1>3, <1>6 DEF ListingsInv, NewestAsked, AskedAsChosen
<1>10. ChangeAsked'
  <2>1. (outdone => outdone') /\ (c.asOf < list.asOf => outdone')
    <3>1. outdone' = (outdone \/ c.asOf < list.asOf)
      BY <1>1
    <3> QED
      BY <3>1, Zenon
  <2>2. asking = {}
    BY <1>3 DEF ListingsInv, Numbered
  <2> SUFFICES ASSUME ~outdone', ~unheard, c.asOf # wrote
               PROVE  \E d \in doing \ {c} : d.at = "written" /\ d.asOf = wrote
    BY <1>1, <1>2, <1>3, <1>6 DEF ChangeAsked
  <2>3. ~(list.asOf >= wrote)
    BY <1>2, <2>1
  <2>4. PICK d \in doing : d.at = "written" /\ d.asOf = wrote
    BY <2>1, <2>2, <2>3 DEF ListingsInv, ChangeAsked
  <2> QED
    BY <2>4
<1> QED
  BY <1>7, <1>8, <1>9, <1>10 DEF ListingsInv

\* Somebody else changes a row.
LEMMA RowsChange == ASSUME ListingsInv, NEW r \in Rows, Change(r) PROVE ListingsInv'
<1>1. /\ moves' = moves + 1 /\ row[r] # Gone /\ view # "none"
      /\ UNCHANGED <<view, linked, filter, asking, list, drawer, chosen, heard, doing, wrote,
                     outdone, strayed, unheard, sent, clicks>>
  BY DEF Change, opened, details
<1>2. row \in [Rows -> {Gone} \cup RowRecords] /\ row[r] \in RowRecords
  BY <1>1 DEF ListingsInv, ListingTypes
<1>3. row' \in [Rows -> {Gone} \cup RowRecords]
  <2>1. ASSUME NEW s \in RowStatuses
        PROVE  [row EXCEPT ![r].status = s] \in [Rows -> {Gone} \cup RowRecords]
    <3>1. [row[r] EXCEPT !.status = s] \in RowRecords
      BY <1>2 DEF RowRecords
    <3> QED
      BY <1>2, <3>1
  <2>2. [row EXCEPT ![r].recorded = TRUE] \in [Rows -> {Gone} \cup RowRecords]
    <3>1. [row[r] EXCEPT !.recorded = TRUE] \in RowRecords
      BY <1>2 DEF RowRecords
    <3> QED
      BY <1>2, <3>1
  <2>3. [row EXCEPT ![r] = Gone] \in [Rows -> {Gone} \cup RowRecords]
    BY <1>2
  <2>4. \/ row' = [row EXCEPT ![r] = Gone]
        \/ row' = [row EXCEPT ![r].recorded = TRUE]
        \/ \E s \in {"ready", "paused", "completed", "contacted", "invalid"} :
              row' = [row EXCEPT ![r].status = s]
    <3>1. view \in Views
      BY <1>1 DEF ListingsInv, ListingTypes
    <3>2. CASE view \in {"agents", "agent"}
      BY <3>2 DEF Change
    <3>3. CASE view = "calls"
      BY <3>3 DEF Change
    <3>4. CASE view = "results"
      BY <3>4 DEF Change
    <3>5. CASE view = "campaigns"
      BY <3>5 DEF Change
    <3> QED
      BY <3>1, <3>2, <3>3, <3>4, <3>5 DEF Views
  <2>5. {"ready", "paused", "completed", "contacted", "invalid"} \subseteq RowStatuses
    BY DEF RowStatuses
  <2>6. CASE \E s \in {"ready", "paused", "completed", "contacted", "invalid"} :
              row' = [row EXCEPT ![r].status = s]
    <3>1. PICK s \in RowStatuses : row' = [row EXCEPT ![r].status = s]
      BY <2>5, <2>6
    <3> QED
      BY <2>1, <3>1
  <2> QED
    BY <2>2, <2>3, <2>4, <2>6
<1>4. ListingTypes'
  <2>1. moves \in Nat /\ wrote \in Nat /\ wrote <= moves /\ moves' = moves + 1
    BY <1>1 DEF ListingsInv, ListingTypes
  <2>2. moves' \in Nat /\ wrote <= moves'
    BY <2>1
  <2> QED
    BY <1>1, <1>3, <2>2 DEF ListingsInv, ListingTypes
<1>5. Numbered' /\ ClickedThere' /\ DetailsKept'
  BY <1>1 DEF ListingsInv, Numbered, ClickedThere, DetailsKept
<1>6. NewestAsked' /\ AskedAsChosen' /\ ChangeAsked'
  BY <1>1 DEF ListingsInv, NewestAsked, AskedAsChosen, ChangeAsked
<1> QED
  BY <1>4, <1>5, <1>6 DEF ListingsInv

\* Each question, answer and click keeps it, in whatever order they come, and so does
\* every change of the rows.
LEMMA ListingsStep == ASSUME ListingsInv, [ListingsNext]_listing PROVE ListingsInv'
<1>1. /\ "all" \in Filters /\ TRUE \in BOOLEAN /\ FALSE \in BOOLEAN /\ filter \in Filters
      /\ row \in [Rows -> {Gone} \cup RowRecords] /\ linked \in Rows \cup {Gone}
      /\ drawer \in DrawerRows /\ doing \subseteq Handlers /\ asking \subseteq Questions
  BY DEF ListingsInv, ListingTypes, DrawerRows, Filters
<1>2. \A rows \in Tables : \A r \in DOMAIN rows : rows[r] \in RowRecords /\ r \in Rows
  BY RowOfTable
<1>3. ASSUME NEW r \in Rows, NEW rec \in RowRecords
      PROVE  [of |-> r, row |-> rec] \in DrawerRows /\ [of |-> r, row |-> rec] # Gone
  BY ListingsAssumption DEF DrawerRows
\* A page opens ...
<1>4. ASSUME NEW p \in Views, Mount(p), linked' \in Rows \cup {Gone},
             NEW S \in SUBSET RowStatuses, Fresh(S)
      PROVE  ListingsInv'
  <2>1. /\ view = "none" /\ view' = p /\ UNCHANGED <<filter, list, drawer, chosen, heard>>
        /\ UNCHANGED <<doing, moves, wrote, outdone, unheard, clicks>> /\ Send("all", FALSE)
    BY <1>4 DEF Mount, details
  <2>2. row' \in [Rows -> {Gone} \cup RowRecords]
    <3>1. [status : S, recorded : {FALSE}] \subseteq RowRecords
      BY DEF RowRecords
    <3> QED
      BY <1>4, <3>1 DEF Fresh
  <2>3. DetailsKept'
    BY <2>1 DEF ListingsInv, ClickedThere, DetailsKept
  <2> QED
    BY <1>1, <1>4, <2>1, <2>2, <2>3, PageAsks
<1>5. CASE MountAgents \/ MountAgent \/ MountCalls \/ MountCampaigns \/ MountLeads
  <2>1. /\ {"ready", "paused"} \subseteq RowStatuses /\ {"ready"} \subseteq RowStatuses
        /\ {"qualified"} \subseteq RowStatuses /\ {"running"} \subseteq RowStatuses
        /\ {"contacted"} \subseteq RowStatuses
    BY DEF RowStatuses
  <2>2. Links \cup {Gone} \subseteq Rows \cup {Gone}
    BY ListingsAssumption
  <2>3. CASE MountAgents
    BY <1>1, <1>4, <2>1, <2>3 DEF MountAgents, Views
  <2>4. CASE MountAgent
    BY <1>1, <1>4, <2>1, <2>4 DEF MountAgent, Views
  <2>5. CASE MountCalls
    BY <1>1, <1>4, <2>1, <2>5 DEF MountCalls, Views
  <2>6. CASE MountCampaigns
    BY <1>1, <1>4, <2>1, <2>6 DEF MountCampaigns, Views
  <2>7. CASE MountLeads
    BY <1>4, <2>1, <2>2, <2>7 DEF MountLeads, Views
  <2> QED
    BY <1>5, <2>3, <2>4, <2>5, <2>6, <2>7
\* ... and asks again.
<1>6. ASSUME view \in Views \ {"agent"}, NEW f \in Filters, NEW poll \in BOOLEAN,
             Send(f, poll), filter' \in Filters, doing' \subseteq doing,
             drawer' \in DrawerRows, DetailsKept',
             UNCHANGED <<opened, list, records, outdone, unheard, clicks>>
      PROVE  ListingsInv'
  <2>1. UNCHANGED <<view, linked, list, row, moves, wrote, outdone, unheard, clicks>>
    BY <1>6 DEF opened, records
  <2> QED
    BY <1>1, <1>6, <2>1, PageAsks
<1>7. ASSUME UNCHANGED <<opened, details>> PROVE DetailsKept' /\ drawer' \in DrawerRows
  BY <1>1, <1>7 DEF opened, details, ListingsInv, DetailsKept
<1>8. ASSUME NEW p \in Views \ {"agent"}, NEW F \in SUBSET Filters, Choose(p, F)
      PROVE  ListingsInv'
  <2>1. /\ view \in Views \ {"agent"} /\ filter' \in Filters /\ Send(filter', FALSE)
        /\ doing' \subseteq doing
        /\ UNCHANGED <<opened, list, records, outdone, unheard, clicks>>
        /\ UNCHANGED <<opened, details>>
    BY <1>8 DEF Choose
  <2> QED
    BY <1>1, <1>6, <1>7, <2>1
<1>9. CASE ChooseAgents \/ ChooseCalls \/ ChooseLeads \/ ChooseCampaigns
  <2>1. /\ {"all", "ready"} \subseteq Filters /\ {"all", "qualified", "outbound"} \subseteq Filters
        /\ {"all", "contacted"} \subseteq Filters /\ {"all", "running"} \subseteq Filters
    BY DEF Filters, RowStatuses
  <2> QED
    BY <1>8, <1>9, <2>1 DEF ChooseAgents, ChooseCalls, ChooseLeads, ChooseCampaigns, Views
<1>10. CASE Poll
  <2>1. /\ view \in Views \ {"agent"} /\ filter' \in Filters /\ Send(filter, TRUE)
        /\ doing' \subseteq doing
        /\ UNCHANGED <<opened, list, records, outdone, unheard, clicks>>
        /\ UNCHANGED <<opened, details>>
    BY <1>1, <1>10 DEF Poll, Views
  <2> QED
    BY <1>1, <1>6, <1>7, <2>1
\* Answers.
<1>11. ASSUME NEW q \in asking, Loaded(q)
       PROVE  ListingsInv'
  BY <1>7, <1>11, PageShows DEF Loaded, Show
<1>12. ASSUME NEW q \in asking, LeadsLoaded(q)
       PROVE  ListingsInv'
  <2>1. Show(q) /\ view' = "results" /\ q.rows \in Tables
    BY <1>1, <1>12 DEF LeadsLoaded, Show, opened, Questions
  <2>2. drawer' \in DrawerRows
    BY <1>1, <1>2, <1>3, <1>12, <2>1 DEF LeadsLoaded
  <2>3. DetailsKept'
    BY <2>1 DEF DetailsKept
  <2> QED
    BY <2>1, <2>2, <2>3, PageShows
<1>13. ASSUME NEW q \in asking, Polled(q)
       PROVE  ListingsInv'
  <2>1. /\ Show(q) /\ view' = view /\ q.rows \in Tables /\ chosen' = chosen
        /\ heard' = (heard \/ (drawer' # Gone /\ drawer'.row.recorded))
    BY <1>1, <1>13 DEF Polled, Show, opened, Questions
  <2>2. CASE drawer # Gone /\ drawer.of \in DOMAIN q.rows
    <3>1. PICK b \in BOOLEAN : b <=> drawer.row.recorded \/ q.rows[drawer.of].recorded
      OBVIOUS
    <3>2. /\ drawer \in [of : Rows, row : RowRecords] /\ drawer.of \in Rows
          /\ drawer.row.recorded \in BOOLEAN /\ q.rows[drawer.of].status \in RowStatuses
          /\ q.rows[drawer.of].recorded \in BOOLEAN
      BY <1>1, <1>2, <2>1, <2>2 DEF DrawerRows, RowRecords
    <3> DEFINE rec == [status |-> q.rows[drawer.of].status, recorded |-> b]
    <3>3. rec \in RowRecords /\ rec.recorded = b
      BY <3>2 DEF RowRecords
    <3>4. drawer' = [of |-> drawer.of, row |-> rec]
      BY <1>13, <2>2, <3>1, <3>2 DEF Polled
    <3> HIDE DEF rec
    <3>5. drawer' \in DrawerRows /\ drawer' # Gone /\ drawer'.of = drawer.of
          /\ drawer'.row.recorded = b
      BY <1>3, <3>2, <3>3, <3>4
    <3>6. DetailsKept'
      <4>1. heard' <=> heard \/ b
        BY <2>1, <3>5
      <4> QED
        BY <2>1, <2>2, <3>1, <3>5, <4>1 DEF ListingsInv, DetailsKept
    <3> QED
      BY <2>1, <3>5, <3>6, PageShows
  <2>3. CASE ~(drawer # Gone /\ drawer.of \in DOMAIN q.rows)
    <3>1. drawer' = drawer
      BY <1>13, <2>3 DEF Polled
    <3>2. DetailsKept'
      BY <2>1, <3>1 DEF ListingsInv, DetailsKept
    <3> QED
      BY <1>1, <2>1, <3>1, <3>2, PageShows
  <2> QED
    BY <2>2, <2>3
\* What the reader opens and closes.
<1>14. ASSUME NEW r \in Rows, SelectCall(r) \/ SelectLead(r)
       PROVE  ListingsInv'
  <2>1. /\ Select(r) /\ view \in {"calls", "results"} /\ r \in DOMAIN list.rows
        /\ list.rows \in Tables
    BY <1>14 DEF SelectCall, SelectLead, Select, ListingsInv, ListingTypes
  <2>2. /\ drawer' = [of |-> r, row |-> list.rows[r]] /\ chosen' = r
        /\ heard' = list.rows[r].recorded /\ r # Gone
    BY <2>1, ListingsAssumption DEF Select
  <2>3. drawer' \in DrawerRows /\ drawer' # Gone
    BY <1>2, <1>3, <2>1, <2>2
  <2>4. DetailsKept'
    BY <2>2, <2>3 DEF DetailsKept
  <2> QED
    BY <2>1, <2>3, <2>4, ReaderLooks DEF Select
<1>15. CASE CloseDetails
  <2>1. drawer' = Gone /\ chosen' = Gone /\ drawer # Gone
    BY <1>15 DEF CloseDetails
  <2>2. drawer' \in DrawerRows /\ DetailsKept' /\ view # "none"
    BY <2>1 DEF DrawerRows, DetailsKept, ListingsInv, ClickedThere
  <2> QED
    BY <1>15, <2>2, ReaderLooks DEF CloseDetails
\* Clicks and their handlers.
<1>16. ASSUME NEW r \in Rows,
              \/ ToggleAgent(r) \/ DuplicateAgent(r) \/ ToggleThis(r) \/ SaveThis(r)
              \/ MarkHot(r) \/ ToggleCampaign(r)
       PROVE  ListingsInv'
  <2>1. PICK what \in Clickable :
           /\ Click(what, r) /\ view # "none"
           /\ what = "hot" => view = "results"
           /\ what = "campaign" => view = "campaigns"
           /\ view = "agent" => r \in DOMAIN list.rows
    BY <1>16 DEF ToggleAgent, DuplicateAgent, ToggleThis, SaveThis, MarkHot, ToggleCampaign,
                 Clickable
  <2>2. view = "agent" => list.no = 1
    BY <2>1 DEF ListingsInv, ListingTypes, Numbered, ClickedThere
  <2> QED
    BY <2>1, <2>2, ReaderClicks
<1>17. ASSUME NEW c \in doing, c.at # "written", doing' = doing \ {c},
              UNCHANGED <<opened, filter, asking, list, details, records, outdone, strayed,
                          unheard, sent, clicks>>
       PROVE  ListingsInv'
  <2>1. PICK D : D = {}
    OBVIOUS
  <2>2. doing' = (doing \ {c}) \cup D
    BY <1>17, <2>1
  <2>3. \A d \in D : d \in Handlers /\ d.what = c.what /\ d.what # "hot" /\ d.asOf = c.asOf
    BY <2>1
  <2> QED
    BY <1>17, <2>2, <2>3, HandlerMoves
<1>18. ASSUME NEW c \in doing, NEW anew, Over(c, anew), c.at # "written",
              anew \in BOOLEAN, anew => view \in Views \ {"agent"}, UNCHANGED <<opened, details>>,
              UNCHANGED <<list, records, outdone, unheard, clicks>>
       PROVE  ListingsInv'
  <2>1. doing' = doing \ {c} /\ filter' = filter
    BY <1>18 DEF Over
  <2>2. CASE anew
    <3>1. Send(c.under, FALSE) /\ c.under \in Filters
      BY <1>1, <1>18, <2>2 DEF Over, Handlers
    <3> QED
      BY <1>1, <1>6, <1>7, <1>18, <2>1, <2>2, <3>1
  <2>3. CASE ~anew
    <3>1. UNCHANGED <<asking, strayed, sent>>
      BY <1>18, <2>3 DEF Over
    <3> QED
      BY <1>17, <1>18, <2>1, <3>1
  <2> QED
    BY <2>2, <2>3
<1>19. ASSUME NEW c \in doing, ReadAgent(c)
       PROVE  ListingsInv'
  <2>1. /\ c.at = "clicked" /\ c \in Handlers /\ c.what # "hot"
        /\ UNCHANGED <<opened, list, details, records, outdone, unheard, clicks>>
    BY <1>1, <1>19 DEF ReadAgent
  <2>2. CASE Over(c, view = "agents")
    BY <1>18, <2>1, <2>2 DEF Views
  <2>3. CASE /\ row[c.of] # Gone
             /\ \E status \in IF c.what = "duplicate" THEN {row[c.of].status}
                              ELSE IF row[c.of].status = "ready" THEN {"paused"} ELSE {"ready"} :
                   doing' = (doing \ {c}) \cup {[c EXCEPT !.at = "read", !.status = status]}
             /\ UNCHANGED <<filter, asking, loading, strayed, sent>>
    <3>1. PICK status : /\ status \in {row[c.of].status, "paused", "ready"}
                        /\ doing' = (doing \ {c}) \cup
                               {[c EXCEPT !.at = "read", !.status = status]}
      BY <2>3
    <3>2. status \in RowStatuses
      BY <1>1, <2>1, <2>3, <3>1 DEF Handlers, RowRecords, RowStatuses
    <3> DEFINE e == [c EXCEPT !.at = "read", !.status = status]
    <3>3. e \in Handlers /\ e.what = c.what /\ e.asOf = c.asOf
      BY <2>1, <3>2 DEF Handlers
    <3> HIDE DEF e
    <3>4. PICK D : D = {e}
      OBVIOUS
    <3>5. doing' = (doing \ {c}) \cup D
      BY <3>1, <3>4 DEF e
    <3>6. \A d \in D : d \in Handlers /\ d.what = c.what /\ d.what # "hot" /\ d.asOf = c.asOf
      BY <2>1, <3>3, <3>4
    <3>7. UNCHANGED <<opened, filter, asking, list, details, records, outdone, strayed,
                      unheard, sent, clicks>>
      BY <2>1, <2>3
    <3> QED
      BY <2>1, <3>5, <3>6, <3>7, HandlerMoves
  <2> QED
    BY <1>19, <2>2, <2>3 DEF ReadAgent
<1>20. ASSUME NEW c \in doing, PatchAgent(c)
       PROVE  ListingsInv'
  <2>1. /\ c.at # "written" /\ c \in Handlers /\ c.what # "hot"
        /\ UNCHANGED <<opened, list, details, outdone, clicks>>
    BY <1>1, <1>20 DEF PatchAgent
  <2>2. CASE /\ row[c.of] # Gone
             /\ \E status \in {IF c.what = "save" THEN row[c.of].status ELSE c.status} :
                   /\ row' = [row EXCEPT ![c.of].status = status]
                   /\ Written(c, status)
    <3>1. PICK status : /\ status = IF c.what = "save" THEN row[c.of].status ELSE c.status
                        /\ row' = [row EXCEPT ![c.of].status = status]
                        /\ Written(c, status)
      BY <2>2
    <3>2. c.of \in Rows /\ row[c.of] \in RowRecords /\ status \in RowStatuses
      BY <1>1, <2>1, <2>2, <3>1 DEF Handlers, RowRecords
    <3>3. [row[c.of] EXCEPT !.status = status] \in RowRecords
      BY <3>2 DEF RowRecords
    <3>4. row' \in [Rows -> {Gone} \cup RowRecords]
      BY <1>1, <3>1, <3>2, <3>3
    <3> QED
      BY <2>1, <3>1, <3>2, <3>4, HandlerWrites
  <2>3. CASE /\ \E anew \in {FALSE, view = "agents"} : Over(c, anew)
             /\ UNCHANGED <<records, unheard>>
    <3>1. Over(c, FALSE) \/ Over(c, view = "agents")
      BY <2>3
    <3> QED
      BY <1>18, <2>1, <2>3, <3>1 DEF Views
  <2> QED
    BY <1>20, <2>2, <2>3 DEF PatchAgent
<1>21. ASSUME NEW c \in doing, CreateCopy(c)
       PROVE  ListingsInv'
  <2>1. /\ c.at # "written" /\ c \in Handlers /\ c.what # "hot"
        /\ UNCHANGED <<opened, list, details, outdone, clicks>>
    BY <1>1, <1>21 DEF CreateCopy
  <2>2. ASSUME NEW r \in Rows,
               row' = [row EXCEPT ![r] = [status |-> c.status, recorded |-> FALSE]],
               Written(c, c.status)
        PROVE  ListingsInv'
    <3>1. c.status \in RowStatuses /\ [status |-> c.status, recorded |-> FALSE] \in RowRecords
      BY <2>1 DEF Handlers, RowRecords
    <3>2. row' \in [Rows -> {Gone} \cup RowRecords]
      BY <1>1, <2>2, <3>1
    <3> QED
      BY <2>1, <2>2, <3>1, <3>2, HandlerWrites
  <2>3. CASE Over(c, FALSE) /\ UNCHANGED <<records, unheard>>
    BY <1>18, <2>1, <2>3
  <2> QED
    BY <1>21, <2>2, <2>3 DEF CreateCopy
<1>22. ASSUME NEW c \in doing, Finish(c)
       PROVE  ListingsInv'
  <2>1. /\ view \in Views \ {"agent"} /\ Send(c.under, FALSE) /\ c.under \in Filters
        /\ filter' = filter /\ doing' \subseteq doing /\ UNCHANGED <<opened, details>>
        /\ UNCHANGED <<opened, list, records, outdone, unheard, clicks>>
    BY <1>1, <1>22 DEF Finish, Over, Views, Handlers
  <2> QED
    BY <1>1, <1>6, <1>7, <2>1
<1>23. ASSUME NEW c \in doing, ShowHot(c)
       PROVE  ListingsInv'
  <2>1. /\ view = "results" /\ c \in Handlers /\ c.what = "hot"
        /\ UNCHANGED <<opened, list, records, outdone, unheard, clicks>>
    BY <1>1, <1>23 DEF ShowHot, ListingsInv, ClickedThere
  <2>2. ASSUME NEW leads \in LeadsFor("all"), c.of \in DOMAIN leads, Over(c, TRUE),
               drawer' = [of |-> c.of, row |-> [leads[c.of] EXCEPT !.status = "hot"]]
        PROVE  ListingsInv'
    <3>1. leads \in Answers("all")
      BY <2>1 DEF Answers
    <3>2. leads \in Tables
      BY <2>1, <3>1, AnswerIsTable DEF ListingsInv
    <3>3. leads[c.of] \in RowRecords /\ c.of \in Rows
      BY <1>2, <2>2, <3>2
    <3>4. [leads[c.of] EXCEPT !.status = "hot"] \in RowRecords
      BY <3>3 DEF RowRecords, RowStatuses
    <3>5. drawer' \in DrawerRows
      BY <1>3, <2>2, <3>3, <3>4
    <3>6. DetailsKept'
      BY <2>1 DEF DetailsKept, opened
    <3>7. Send(c.under, FALSE) /\ c.under \in Filters /\ filter' = filter /\ doing' \subseteq doing
      BY <2>1, <2>2 DEF Over, Handlers
    <3> QED
      BY <1>1, <1>6, <2>1, <3>5, <3>6, <3>7 DEF Views
  <2>3. CASE Over(c, FALSE) /\ UNCHANGED drawer
    <3>1. UNCHANGED <<opened, details>> /\ c.at # "written"
      BY <1>23, <2>1, <2>3 DEF ShowHot, details, ListingsInv, ClickedThere
    <3> QED
      BY <1>18, <2>1, <2>3, <3>1
  <2> QED
    BY <1>23, <2>2, <2>3 DEF ShowHot
<1>24. ASSUME NEW c \in doing, PauseCampaign(c)
       PROVE  ListingsInv'
  <2>1. /\ view = "campaigns" /\ Send(c.under, FALSE) /\ c.under \in Filters
        /\ filter' = filter /\ doing' \subseteq doing /\ UNCHANGED <<opened, details>>
        /\ UNCHANGED <<opened, list, records, outdone, unheard, clicks>>
    BY <1>1, <1>24 DEF PauseCampaign, Over, Handlers, ListingsInv, ClickedThere
  <2> QED
    BY <1>1, <1>6, <1>7, <2>1 DEF Views
<1>25. CASE UNCHANGED listing
  <2>1. ListingTypes' /\ Numbered' /\ ClickedThere' /\ DetailsKept'
    BY <1>25 DEF listing, ListingsInv, ListingTypes, Numbered, ClickedThere, DetailsKept
  <2>2. NewestAsked' /\ AskedAsChosen' /\ ChangeAsked'
    BY <1>25 DEF listing, ListingsInv, NewestAsked, AskedAsChosen, ChangeAsked
  <2> QED
    BY <2>1, <2>2 DEF ListingsInv
<1> QED
  BY <1>5, <1>9, <1>10, <1>11, <1>12, <1>13, <1>14, <1>15, <1>16, <1>19, <1>20, <1>21, <1>22,
     <1>23, <1>24, <1>25, ServerAnswers, AgentTold, RowsChange DEF ListingsNext

(***************************************************************************)
(* Both pages that make, and both that call.                               *)
(***************************************************************************)

\* A campaign that is made can be called, and a sheet is started once, unless the wizard
\* was not told that it runs (campaigns/route.ts, start/route.ts, campaign-wizard.tsx).
THEOREM DeskHolds == Spec => [](Diallable /\ SheetStartedOnce)
<1>1. Init => DeskInv
  BY DeskStart DEF Init
<1>2. DeskInv /\ [Next]_vars => DeskInv'
  <2> SUFFICES ASSUME DeskInv, [Next]_vars PROVE DeskInv'
    OBVIOUS
  <2>1. [DeskNext]_desk
    BY DEF Next, vars
  <2> QED
    BY <2>1, DeskStep
<1>3. DeskInv => Diallable /\ SheetStartedOnce
  BY DEF DeskInv
<1> QED
  BY <1>1, <1>2, <1>3, PTL DEF Spec

\* What the page of new agents and the wizard of campaigns report as made is made, once,
\* and can be called (agents/new/page.tsx, campaign-wizard.tsx, and their routes).
THEOREM MadeAsAskedAlways == Spec => []MadeAsAsked
<1>1. CreationAnswered /\ (Diallable /\ SheetStartedOnce) => MadeAsAsked
  BY DEF MadeAsAsked
<1> QED
  BY <1>1, CreationAnsweredAlways, DeskHolds, PTL

\* The test call in the browser and the instant call to a lead are what their pages say
\* (browser-call-playground.tsx, calling/instant/page.tsx).
THEOREM CallsShownAlways == Spec => []CallsShown
<1>1. ASSUME DialInv PROVE CallShown
  BY <1>1 DEF DialInv, Shown, CallShown
<1>2. CallAccounted /\ (ContactsInv /\ DialInv) => CallsShown
  BY <1>1 DEF CallsShown
<1> QED
  BY <1>2, CallAccountedAlways, ContactsAndDials, PTL

\* A page that lists settles on what its reader asked for last and on nothing older than
\* what it changed itself, but for the three exceptions; and the details of a call stay
\* open, with the recording once heard there (agents/page.tsx, agents/[id]/page.tsx,
\* calls/page.tsx, results/page.tsx, calling/campaigns/page.tsx).
THEOREM PagesToldAlways == Spec => []PagesTold
<1>1. Init => ListingsInv
  BY ListingsStart DEF Init
<1>2. ListingsInv /\ [Next]_vars => ListingsInv'
  <2> SUFFICES ASSUME ListingsInv, [Next]_vars PROVE ListingsInv'
    OBVIOUS
  <2>1. [ListingsNext]_listing
    BY DEF Next, vars
  <2> QED
    BY <2>1, ListingsStep
<1>3. ListingsInv => PagesTold
  BY ListingsPromise DEF ListingsInv, PagesTold
<1> QED
  BY <1>1, <1>2, <1>3, PTL DEF Spec
==============================================================================
