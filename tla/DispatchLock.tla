---------------------------- MODULE DispatchLock ----------------------------
(***************************************************************************)
(* sigulon:campaign:{id}:dispatch_lock, which serialises everything that   *)
(* moves contacts of one campaign from pending to queued: start requests   *)
(* in the web processes and refills in the worker replicas.                *)
(*                                                                         *)
(* Each request or refill is one operation and draws one token, so the     *)
(* operation stands for its token.  A start keeps its token in a map of    *)
(* its process, keyed by campaign; a refill keeps it in a local variable.  *)
(***************************************************************************)
EXTENDS Naturals

CONSTANTS
    Starts,     \* POST /start requests for the campaign
    Refills,    \* refills by worker sweeps
    Processes,  \* web processes
    ProcessOf   \* the process that serves a start

Ops == Starts \cup Refills
None == "none"

ASSUME LockAssumption ==
    /\ Starts \cap Refills = {} /\ None \notin Ops
    /\ ProcessOf \in [Starts -> Processes]

VARIABLES
    lock,    \* the value of the key, or None
    tokens,  \* dispatchLockTokens.get(campaign), per process
    pc,      \* where each operation is
    own,     \* the token a releasing operation compares with
    lapsed,  \* operations whose lock expired before it was released
    robber   \* robber[o]: the other operation whose release removed o's lock, or None

vars == <<lock, tokens, pc, own, lapsed, robber>>

Init ==
    /\ lock = None
    /\ tokens = [p \in Processes |-> None]
    /\ pc = [o \in Ops |-> "idle"]
    /\ own = [o \in Ops |-> None]
    /\ lapsed = {}
    /\ robber = [o \in Ops |-> None]

Goto(o, label) == pc' = [pc EXCEPT ![o] = label]

\* SET NX EX; an operation that does not get the lock does nothing more
Acquire(o) ==
    /\ pc[o] = "idle"
    /\ IF lock = None
       THEN lock' = o /\ Goto(o, IF o \in Starts THEN "won" ELSE "dispatch")
       ELSE UNCHANGED lock /\ Goto(o, "done")
    /\ UNCHANGED <<tokens, own, lapsed, robber>>

\* the reply of Redis reaches the request
Remember(s) ==
    /\ pc[s] = "won"
    /\ tokens' = [tokens EXCEPT ![ProcessOf[s]] = s]
    /\ Goto(s, "dispatch")
    /\ UNCHANGED <<lock, own, lapsed, robber>>

\* any operation may outlive the TTL of its lock
Expire ==
    /\ lock # None
    /\ lapsed' = lapsed \cup {lock}
    /\ lock' = None
    /\ UNCHANGED <<tokens, pc, own, robber>>

\* the finally block takes the process's token, whosever it is
TakeToken(s) ==
    LET p == ProcessOf[s]
    IN /\ s \in Starts
       /\ pc[s] = "dispatch"
       /\ own' = [own EXCEPT ![s] = tokens[p]]
       /\ tokens' = [tokens EXCEPT ![p] = None]
       /\ Goto(s, IF tokens[p] = None THEN "done" ELSE "delete")
       /\ UNCHANGED <<lock, lapsed, robber>>

\* what a release removes, if it is not its own, is some other operation's lock
Rob(o) ==
    robber' = IF lock' # lock /\ lock # o THEN [robber EXCEPT ![lock] = o] ELSE robber

\* a mutant: the release does not compare
FreedAlways(o) == None

\* the Lua script: compare and delete in one step
Freed(s) == IF lock = own[s] THEN None ELSE lock

Delete(s) ==
    /\ s \in Starts
    /\ pc[s] = "delete"
    /\ lock' = Freed(s)
    /\ Rob(s)
    /\ Goto(s, "done")
    /\ UNCHANGED <<tokens, own, lapsed>>

\* a refill reads the key first ...
Compare(r) ==
    /\ r \in Refills
    /\ pc[r] = "dispatch"
    /\ Goto(r, IF lock = r THEN "delete" ELSE "done")
    /\ UNCHANGED <<lock, tokens, own, lapsed, robber>>

\* ... and deletes whatever is there when it gets to it
DeleteUnread(r) ==
    /\ r \in Refills
    /\ pc[r] = "delete"
    /\ lock' = None
    /\ Rob(r)
    /\ Goto(r, "done")
    /\ UNCHANGED <<tokens, own, lapsed>>

Next ==
    \/ \E o \in Ops : Acquire(o)
    \/ \E s \in Starts : Remember(s) \/ TakeToken(s) \/ Delete(s)
    \/ \E r \in Refills : Compare(r) \/ DeleteUnread(r)
    \/ Expire

Spec == Init /\ [][Next]_vars

-----------------------------------------------------------------------------
Dispatching(o) == pc[o] \in {"won", "dispatch"}

Lost(o) == o \in lapsed \/ robber[o] # None

\* How a release can hit a lock that is not its own: a refill deletes what it has
\* not read again, a start takes the token another left in their process.
Misled(o, victim) ==
    \/ o \in Refills
    \/ {o, victim} \subseteq Starts /\ ProcessOf[o] = ProcessOf[victim]

\* Two operations dispatch at once only after one of them lost its lock: to the TTL,
\* or to the release of an operation that had lost its own and was misled in one of
\* these two ways.  No other release removes a lock that is not its own, whatever
\* outlives its lock (campaign-queue.ts:59-63, queueing.py:45-47 promise it of all).
Exclusive ==
    \A a, b \in Ops : a # b /\ Dispatching(a) /\ Dispatching(b) =>
        \E v \in {a, b} :
            \/ v \in lapsed
            \/ robber[v] # None /\ Lost(robber[v]) /\ Misled(robber[v], v)
=============================================================================
