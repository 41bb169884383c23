----------------------------- MODULE DraftProps -----------------------------
(***************************************************************************)
(* What must hold of an agent's draft and of its published versions.       *)
(***************************************************************************)
EXTENDS AgentDraft

\* A version is the row as it is at the moment the version appears, however many
\* saves and other publishes ran since the transaction began; versions are never
\* changed or removed.
VersionsAreSnapshots ==
    [][versions' # versions =>
          versions' = Append(versions, [bundle |-> doc.bundle, prompt |-> doc.prompt,
                                        voice |-> doc.voice, number |-> Len(versions) + 1])]_vars

\* The last edits of a page are never forgotten: one that is not in a save the server
\* answered is carried by the timer or by a request on its way.  One timer serves
\* scripts and voices, so each new edit must take over what the last had to save.
EditsCarried ==
    \A p \in opened :
        LET OnItsWay == {r \in saves : r.page = p /\ r.at = "sent"}
            Pending == IF timer[p] = NoTimer THEN OnItsWay ELSE OnItsWay \cup {timer[p]}
        IN  /\ shown[p] \in written \cup dropped \cup {r.bundle : r \in Pending}
            /\ voice[p] \in written \cup dropped \cup {r.voice : r \in Pending}

\* A page never asks to publish before the save of the script it is to publish has
\* been answered, whatever the answer.
PublishAfterSave ==
    \A p \in Pages : publish[p] \in {"sent", "begun"} => wanted[p] \in written \cup dropped
=============================================================================
