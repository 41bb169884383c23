-------------------------------- MODULE Team --------------------------------
(***************************************************************************)
(* One workspace: its members and their roles, the invitations that add    *)
(* members, and the accounts behind them.  Every request reads what it     *)
(* needs in one query after another and writes at the end; only accepting  *)
(* an invitation and founding a workspace are transactions.                *)
(*                                                                         *)
(* A person is known by email.  An invitation is the one pending row of an *)
(* email, [id, token, role, live]: inviting again gives it a new token, so *)
(* a row outlives its tokens, and a token may be out in the mail after its *)
(* row has moved on.                                                       *)
(***************************************************************************)
EXTENDS Integers, Sequences, FiniteSets, Functions

CONSTANTS
    Users, Founder,
    Requests,     \* requests of the team page being served at a time
    Tabs,         \* browser tabs with an invitation open
    NewRoles,     \* roles asked for: viewers and members are told apart by no rule here
    NoInvite,
    MaxTokens, MaxAsks, MaxSignups   \* bounds

ASSUME TeamAssumption ==
    /\ IsFiniteSet(Users) /\ Founder \in Users
    /\ NewRoles \subseteq {"viewer", "member", "admin", "owner"}
    /\ MaxTokens \in Nat /\ MaxAsks \in Nat /\ MaxSignups \in Nat

VARIABLES
    role,       \* the member rows: a role, or "none"
    account,    \* who has an account
    own,        \* who has a workspace of their own
    signup,     \* signup[u]: "no" -> "account" -> "done", or "cut"
    invite,     \* invite[u]: the pending row, or NoInvite
    tokens,     \* tokens made so far
    mailed,     \* what was mailed: [user, token, role]
    granted,    \* the invitations accepted, in order (a history variable)
    removed,    \* who has been removed (a history variable)
    raced,      \* whether a request wrote over a change it had not seen (history)
    request, tab, asks, signups

team == <<role, account, own, signup, invite, tokens, mailed, granted, removed, raced,
          request, tab, asks, signups>>

people == <<account, own, signup, signups>>
mail == <<invite, tokens, mailed, granted>>

RANK == [none |-> -1, viewer |-> 0, member |-> 1, admin |-> 2, owner |-> 3]
Roles == DOMAIN RANK \ {"none"}
Idle == [at |-> "idle"]

canManageTeam(r) == RANK[r] >= RANK["admin"]
Members == {u \in Users : role[u] # "none"}
Owners == {u \in Users : role[u] = "owner"}

\* No reason to refuse a change of role.
MayChange(actor, target, new, owners) ==
    /\ canManageTeam(actor)
    /\ actor # "owner" => {target, new} \cap {"owner", "admin"} = {}
    /\ target = "owner" /\ new # "owner" => owners > 1

\* No reason to refuse a removal.
MayRemove(actor, target, owners) ==
    /\ canManageTeam(actor)
    /\ actor # "owner" => target \notin {"owner", "admin"}
    /\ target = "owner" => owners > 1

TeamInit ==
    /\ role = [u \in Users |-> IF u = Founder THEN "owner" ELSE "none"]
    /\ account = {Founder} /\ own = {Founder}
    /\ signup = [u \in Users |-> IF u = Founder THEN "done" ELSE "no"]
    /\ invite = [u \in Users |-> NoInvite]
    /\ tokens = 0 /\ mailed = {} /\ granted = <<>> /\ removed = {} /\ raced = FALSE
    /\ request = [q \in Requests |-> Idle]
    /\ tab = [t \in Tabs |-> Idle]
    /\ asks = 0 /\ signups = 0

(***************************************************************************)
(* Accounts.                                                               *)
(***************************************************************************)

\* The account is made before its workspace; an email that has one is refused.
Signup(u) ==
    /\ u \notin account /\ signups < MaxSignups
    /\ account' = account \cup {u}
    /\ signup' = [signup EXCEPT ![u] = "account"]
    /\ signups' = signups + 1
    /\ UNCHANGED <<role, own, mail, removed, raced, request, tab, asks>>

\* The workspace and its owner are one transaction.
Found(u) ==
    /\ signup[u] = "account"
    /\ own' = own \cup {u}
    /\ signup' = [signup EXCEPT ![u] = "done"]
    /\ UNCHANGED <<role, account, signups, mail, removed, raced, request, tab, asks>>

\* The request ends between the two.  Signing up again is refused for good.
CutSignup(u) ==
    /\ signup[u] = "account"
    /\ signup' = [signup EXCEPT ![u] = "cut"]
    /\ UNCHANGED <<role, account, own, signups, mail, removed, raced, request, tab, asks>>

\* Founding another workspace takes one to come from.
FoundAnother(u) ==
    /\ u \in account \ own /\ u \in Members
    /\ own' = own \cup {u}
    /\ UNCHANGED <<role, account, signup, signups, mail, removed, raced, request, tab, asks>>

(***************************************************************************)
(* The team page's requests.                                               *)
(***************************************************************************)

To(q, r) == request' = [request EXCEPT ![q] = r]
Refuse(q) == To(q, Idle)

\* getOrgContext: the actor's role is read once, here.
Ask(q, kind, actor, u, new) ==
    /\ request[q] = Idle /\ asks < MaxAsks
    /\ actor \in Members \cap account /\ canManageTeam(role[actor])
    /\ To(q, [at |-> "asked", kind |-> kind, as |-> role[actor], user |-> u, new |-> new])
    /\ asks' = asks + 1
    /\ UNCHANGED <<role, people, mail, removed, raced, tab>>

Checked(r) == [at |-> "checked", kind |-> "invite", user |-> r.user, new |-> r.new,
               was |-> role[r.user]]

\* a mutant: a member may be invited
CheckAnyone(q) ==
    /\ request[q].at = "asked" /\ request[q].kind = "invite"
    /\ IF request[q].new # "owner" /\ MayChange(request[q].as, "viewer", request[q].new, 0)
       THEN To(q, Checked(request[q])) ELSE Refuse(q)
    /\ UNCHANGED <<role, people, mail, removed, raced, tab, asks>>

\* POST: no owner is invited, and no member.
CheckInvite(q) ==
    /\ request[q].at = "asked" /\ request[q].kind = "invite"
    /\ IF /\ request[q].new # "owner" /\ request[q].user \notin Members
          /\ MayChange(request[q].as, "viewer", request[q].new, 0)
       THEN To(q, Checked(request[q])) ELSE Refuse(q)
    /\ UNCHANGED <<role, people, mail, removed, raced, tab, asks>>

\* The pending row is made, or gets a new token, role and expiry.
Store(q) ==
    LET r == request[q]
        row == invite[r.user]
        token == tokens + 1
    IN  /\ r.at = "checked" /\ tokens < MaxTokens
        /\ tokens' = token
        /\ invite' = [invite EXCEPT ![r.user] =
              [id |-> IF row = NoInvite THEN token ELSE row.id, token |-> token,
               role |-> r.new, live |-> TRUE]]
        /\ To(q, [at |-> "stored", kind |-> "invite", user |-> r.user, new |-> r.new,
                  id |-> invite'[r.user].id, token |-> token])
        /\ raced' = (raced \/ role[r.user] # r.was)
        /\ UNCHANGED <<role, people, mailed, granted, removed, tab, asks>>

\* The mail goes out, or it seems not to have: then the row is revoked if it is still
\* pending, even when it has a newer token.
Mail(q) ==
    LET r == request[q]
        sent == mailed \cup {[user |-> r.user, token |-> r.token, role |-> r.new]}
        row == invite[r.user]
    IN  /\ r.at = "stored"
        /\ \/ mailed' = sent /\ UNCHANGED invite
           \/ /\ mailed' \in {mailed, sent}
              /\ invite' = IF row # NoInvite /\ row.id = r.id
                           THEN [invite EXCEPT ![r.user] = NoInvite] ELSE invite
        /\ Refuse(q)
        /\ UNCHANGED <<role, people, tokens, granted, removed, raced, tab, asks>>

\* PATCH and DELETE: the target's role is read ...
ReadTarget(q) ==
    LET r == request[q] IN
    /\ r.at = "asked" /\ r.kind # "invite"
    /\ IF r.user \in Members
       THEN To(q, [at |-> "read", kind |-> r.kind, as |-> r.as, user |-> r.user, new |-> r.new,
                   was |-> role[r.user]])
       ELSE Refuse(q)
    /\ UNCHANGED <<role, people, mail, removed, raced, tab, asks>>

\* ... the owners are counted if it is an owner ...
Judge(q) ==
    LET r == request[q]
        owners == IF r.was = "owner" THEN Cardinality(Owners) ELSE 0
    IN  /\ r.at = "read"
        /\ IF \/ r.kind = "change" /\ MayChange(r.as, r.was, r.new, owners)
              \/ r.kind = "remove" /\ MayRemove(r.as, r.was, owners)
           THEN To(q, [at |-> "judged", kind |-> r.kind, user |-> r.user, new |-> r.new,
                       was |-> r.was, owners |-> owners])
           ELSE Refuse(q)
        /\ UNCHANGED <<role, people, mail, removed, raced, tab, asks>>

\* ... and the member row is written, made anew if it has gone, or deleted.
Write(q) ==
    LET r == request[q] IN
    /\ r.at = "judged"
    /\ \/ /\ r.kind = "change"
          /\ role' = [role EXCEPT ![r.user] = r.new]
          /\ UNCHANGED removed
       \/ /\ r.kind = "remove"
          /\ role' = [role EXCEPT ![r.user] = "none"]
          /\ removed' = removed \cup {r.user}
    /\ raced' = (raced \/ role[r.user] # r.was \/ Cardinality(Owners) < r.owners)
    /\ Refuse(q)
    /\ UNCHANGED <<people, mail, tab, asks>>

(***************************************************************************)
(* Accepting an invitation.                                                *)
(***************************************************************************)

\* Seven days pass.
Expire(u) ==
    /\ invite[u] # NoInvite /\ invite[u].live
    /\ invite' = [invite EXCEPT ![u].live = FALSE]
    /\ UNCHANGED <<role, people, tokens, mailed, granted, removed, raced, request, tab, asks>>

\* The row and the account are looked up ...
Find(t, m) ==
    LET row == invite[m.user] IN
    /\ tab[t] = Idle /\ m \in mailed
    /\ row # NoInvite /\ row.token = m.token /\ row.live
    /\ tab' = [tab EXCEPT ![t] = [at |-> "found", user |-> m.user, id |-> row.id,
                                  token |-> m.token, known |-> m.user \in account]]
    /\ UNCHANGED <<role, people, mail, removed, raced, request, asks>>

\* a mutant: the account is made before the transaction
ClaimAfterAccount(t) ==
    LET a == tab[t]
        row == invite[a.user]
    IN  /\ a.at = "found"
        /\ account' = account \cup {a.user}
        /\ IF row # NoInvite /\ row.id = a.id /\ row.token = a.token /\ row.live
           THEN /\ invite' = [invite EXCEPT ![a.user] = NoInvite]
                /\ role' = [role EXCEPT ![a.user] = row.role]
                /\ granted' = Append(granted, [user |-> a.user, token |-> a.token,
                                               role |-> row.role])
           ELSE UNCHANGED <<role, invite, granted>>
        /\ tab' = [tab EXCEPT ![t] = Idle]
        /\ UNCHANGED <<own, signup, signups, tokens, mailed, removed, raced, request, asks>>

\* a mutant: any token of the row will do
ClaimById(t) ==
    LET a == tab[t]
        row == invite[a.user]
    IN  /\ a.at = "found"
        /\ IF /\ row # NoInvite /\ row.id = a.id /\ row.live
              /\ a.known \/ a.user \notin account
           THEN /\ invite' = [invite EXCEPT ![a.user] = NoInvite]
                /\ account' = account \cup {a.user}
                /\ role' = [role EXCEPT ![a.user] = row.role]
                /\ granted' = Append(granted, [user |-> a.user, token |-> a.token,
                                               role |-> row.role])
           ELSE UNCHANGED <<role, account, invite, granted>>
        /\ tab' = [tab EXCEPT ![t] = Idle]
        /\ UNCHANGED <<own, signup, signups, tokens, mailed, removed, raced, request, asks>>

\* ... and in one transaction the row is claimed as it was found, the account made if
\* there was none, and the member row written, whatever role it had.
Claim(t) ==
    LET a == tab[t]
        row == invite[a.user]
    IN  /\ a.at = "found"
        /\ IF /\ row # NoInvite /\ row.id = a.id /\ row.token = a.token /\ row.live
              /\ a.known \/ a.user \notin account
           THEN /\ invite' = [invite EXCEPT ![a.user] = NoInvite]
                /\ account' = account \cup {a.user}
                /\ role' = [role EXCEPT ![a.user] = row.role]
                /\ granted' = Append(granted, [user |-> a.user, token |-> a.token,
                                               role |-> row.role])
           ELSE UNCHANGED <<role, account, invite, granted>>
        /\ tab' = [tab EXCEPT ![t] = Idle]
        /\ UNCHANGED <<own, signup, signups, tokens, mailed, removed, raced, request, asks>>

Manage(q) ==
    \/ \E actor, u \in Users :
          \/ \E kind \in {"invite", "change"}, new \in NewRoles : Ask(q, kind, actor, u, new)
          \/ Ask(q, "remove", actor, u, "none")
    \/ CheckInvite(q) \/ Store(q) \/ Mail(q)
    \/ ReadTarget(q) \/ Judge(q) \/ Write(q)

TeamNext ==
    \/ \E u \in Users : Signup(u) \/ Found(u) \/ CutSignup(u) \/ FoundAnother(u) \/ Expire(u)
    \/ \E q \in Requests : Manage(q)
    \/ \E t \in Tabs : Claim(t) \/ \E m \in mailed : Find(t, m)
=============================================================================
