---------------------------- MODULE AgentCreation ----------------------------
(***************************************************************************)
(* The page on which a member has an agent's script written, edits it and  *)
(* saves it as a new agent.  The script comes from a model in at most two  *)
(* attempts, over a stream; if the stream ends without one, the page asks  *)
(* again without streaming.  Both requests count against the               *)
(* organisation's limit.  The buttons stay live while requests are under   *)
(* way, except the one that started them.                                  *)
(***************************************************************************)
EXTENDS Integers, FiniteSets, Sequences

CONSTANTS
    NoScript,
    RateLimit,    \* generations per window
    MaxAsked, MaxEdits, MaxSaves, MaxLost   \* bounds

ASSUME CreationAssumption ==
    /\ RateLimit \in Nat /\ MaxAsked \in Nat /\ MaxEdits \in Nat
    /\ MaxSaves \in Nat /\ MaxLost \in Nat

VARIABLES
    stage,       \* "input" or "script"
    asked,       \* how often a script was asked for
    writing,     \* the request for a script that the page waits for: [via, at]
    failed,      \* generationError is set
    script,      \* the script in the page: [of, edits, valid], or NoScript
    used,        \* the limiter's count in the current window
    saving,      \* isSaving: the request that saves, or 0
    posts,       \* posts[i]: the i-th request to save: [script, at]
    made,        \* the scripts of the agents that were made
    page,        \* "open", "leaving" once an agent was made, "left"
    again,       \* saves clicked while the page was being left (history)
    lost         \* answers that never came

creation == <<stage, asked, writing, failed, script, used, saving, posts, made, page, again,
              lost>>
pageSide == <<stage, asked, writing, failed, script>>
saveSide == <<saving, posts, made, page, again>>

NoWriting == [via |-> "none", at |-> "none"]

CreationInit ==
    /\ stage = "input" /\ asked = 0 /\ writing = NoWriting /\ failed = FALSE
    /\ script = NoScript /\ used = 0
    /\ saving = 0 /\ posts = <<>> /\ made = <<>>
    /\ page = "open" /\ again = 0 /\ lost = 0

Lose == lost < MaxLost /\ lost' = lost + 1
WriteTo(via, at) == writing' = [via |-> via, at |-> at]

\* handleGenerate: a description that is too short is refused in the page; the last
\* script stays until there is another.
Generate ==
    /\ page # "left" /\ writing = NoWriting
    /\ \/ /\ asked < MaxAsked
          /\ asked' = asked + 1 /\ failed' = FALSE
          /\ WriteTo("stream", "limit")
       \/ failed' = TRUE /\ UNCHANGED <<asked, writing>>
    /\ UNCHANGED <<stage, script, used, saveSide, lost>>

\* Every error is caught, shown and ends the waiting.
Fail == writing' = NoWriting /\ failed' = TRUE

\* The limiter counts in the memory of one process; the count goes with the window.
CheckLimit ==
    /\ writing.at = "limit"
    /\ IF used < RateLimit
       THEN used' = used + 1 /\ WriteTo(writing.via, "first") /\ UNCHANGED failed
       ELSE Fail /\ UNCHANGED used
    /\ UNCHANGED <<stage, asked, script, saveSide, lost>>

WindowEnds ==
    /\ used > 0 /\ used' = 0
    /\ UNCHANGED <<pageSide, saveSide, lost>>

\* One attempt of the model: a valid script, one that cannot be repaired, or none in
\* time.  Only the second is tried again, once.
Infer ==
    /\ writing.at \in {"first", "second"}
    /\ \/ WriteTo(writing.via, "complete")
       \/ writing.at = "first" /\ WriteTo(writing.via, "second")
       \/ WriteTo(writing.via, "error")
    /\ UNCHANGED <<stage, asked, failed, script, used, saveSide, lost>>

\* The page shows the script in place of what it had, edited or not.
ShowScript ==
    /\ writing.at = "complete"
    /\ script' = [of |-> asked, edits |-> 0, valid |-> TRUE]
    /\ stage' = "script" /\ writing' = NoWriting
    /\ UNCHANGED <<asked, failed, used, saveSide, lost>>

GenerationFails ==
    /\ writing.at = "error"
    /\ Fail
    /\ UNCHANGED <<stage, asked, script, used, saveSide, lost>>

\* The connection goes.  A stream that just ends is followed by a request without
\* one; anything else is an error.
Disconnected ==
    /\ writing.at \in {"first", "second", "complete", "error"}
    /\ Lose
    /\ \/ writing.via = "stream" /\ WriteTo("plain", "limit") /\ UNCHANGED failed
       \/ Fail
    /\ UNCHANGED <<stage, asked, script, used, saveSide>>

\* The script is shown in one stage only; only another generation leads back to it.
BackToInput ==
    /\ page # "left" /\ stage = "script"
    /\ stage' = "input"
    /\ UNCHANGED <<asked, writing, failed, script, used, saveSide, lost>>

Edit ==
    /\ page # "left" /\ stage = "script" /\ script.edits < MaxEdits
    /\ \E ok \in BOOLEAN :
          script' = [script EXCEPT !.edits = @ + 1, !.valid = ok]
    /\ UNCHANGED <<stage, asked, writing, failed, used, saveSide, lost>>

\* handleSaveAgent.  The page stays usable while it is being left.
SaveAgent ==
    /\ page # "left" /\ stage = "script" /\ script.valid /\ Len(posts) < MaxSaves
    /\ saving = 0
    /\ posts' = Append(posts, [script |-> script, at |-> "sent"])
    /\ saving' = Len(posts')
    /\ again' = IF page = "leaving" THEN again + 1 ELSE again
    /\ UNCHANGED <<pageSide, used, made, page, lost>>

PostTo(i, at) == posts' = [posts EXCEPT ![i].at = at]

\* POST validates the script by the same rules and makes the agent; nothing tells a
\* request that is repeated from a new one.
CreateAgent(i) ==
    /\ posts[i].at = "sent"
    /\ \/ /\ PostTo(i, "created")
          /\ made' = Append(made, posts[i].script)
       \/ PostTo(i, "error") /\ UNCHANGED made
    /\ UNCHANGED <<pageSide, used, saving, page, again, lost>>

\* The answer: to the new agent's page, or an error in this one.
SaveAnswered(i) ==
    /\ saving = i /\ posts[i].at \in {"created", "error"}
    /\ saving' = 0
    /\ page' = IF posts[i].at = "created" THEN "leaving" ELSE page
    /\ UNCHANGED <<pageSide, used, posts, made, again, lost>>

\* No answer comes, whether or not the agent was or will be made.
SaveLost(i) ==
    /\ saving = i /\ Lose
    /\ saving' = 0
    /\ UNCHANGED <<pageSide, used, posts, made, page, again>>

LeavePage ==
    /\ page = "leaving" /\ page' = "left"
    /\ UNCHANGED <<pageSide, used, saving, posts, made, again, lost>>

CreationNext ==
    \/ Generate \/ CheckLimit \/ WindowEnds \/ Infer \/ ShowScript \/ GenerationFails
    \/ Disconnected \/ BackToInput \/ Edit \/ SaveAgent \/ LeavePage
    \/ \E i \in DOMAIN posts : CreateAgent(i) \/ SaveAnswered(i) \/ SaveLost(i)

-----------------------------------------------------------------------------
\* A script that was asked for is answered: by itself, however stream and second request
\* end, or by an error.  (The error is rendered in the input stage only.)
AskedIsAnswered == writing = NoWriting /\ asked > 0 => failed \/ script.of = asked

\* One page makes one agent, unless the answer to a save was lost, which the page
\* cannot tell from a failure, or the member saved again on a page that was being left.
MadeOnce == Len(made) <= 1 + lost + again

\* What the page is told is what happened.
CreationAnswered == AskedIsAnswered /\ MadeOnce
==============================================================================
