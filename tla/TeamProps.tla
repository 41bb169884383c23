------------------------------ MODULE TeamProps ------------------------------
(***************************************************************************)
(* What must hold of a workspace's members, invitations and accounts.      *)
(***************************************************************************)
EXTENDS Team

\* "A token can grant access once" (accept/route.ts:64), and it grants the role its
\* mail names: also when the invitation is sent again with another role, revoked,
\* expired or opened in two tabs while it is being accepted.
GrantedAsMailed ==
    /\ \A i \in DOMAIN granted : granted[i] \in mailed
    /\ IsInjective([i \in DOMAIN granted |-> granted[i].token])

\* The workspace keeps an owner as long as no request writes over a change it did not
\* see: no change of role, removal or invitation, in whatever order they come, takes
\* the last one away.
OwnerRemains == ~raced => Owners # {}

\* Nobody is left with an account and no workspace to use it in, unless the signup was
\* cut short or the person was removed: an invited account is only ever made together
\* with its membership.
Housed ==
    \A u \in account : u \in own \cup Members \cup removed \/ signup[u] \in {"account", "cut"}
==============================================================================
