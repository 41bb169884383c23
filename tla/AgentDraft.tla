----------------------------- MODULE AgentDraft -----------------------------
(***************************************************************************)
(* One agent: its row, its published versions, the editor pages open on it *)
(* and the other requests that write it.  A page saves by itself a moment  *)
(* after the last edit; its requests may overtake one another, be lost, or *)
(* be answered after the page has moved on.  Each route reads the row and  *)
(* writes later what it read; publishing is one transaction.               *)
(*                                                                         *)
(* A script and a voice are tokens, a new one for each edit; the prompt is *)
(* the token of the script it was compiled from.                           *)
(***************************************************************************)
EXTENDS Integers, Sequences, FiniteSets

CONSTANTS
    Pages,       \* editor pages open on the agent
    Invalid,     \* edits whose script the schema refuses
    NoTimer,
    MaxEdits, MaxFaults, MaxClicks   \* bounds: edits, lost requests, buttons pressed

ASSUME DraftAssumption ==
    /\ Invalid \subseteq 1..MaxEdits
    /\ MaxEdits \in Nat /\ MaxFaults \in Nat
    /\ MaxClicks \in Nat
    /\ NoTimer \notin [bundle : Nat, voice : Nat]

VARIABLES
    doc,        \* the row: [bundle, prompt, voice, active, pvn]
    versions,   \* the published versions, by number
    opened,     \* pages that have loaded the agent
    shown, voice,   \* what the page shows
    dirty,      \* hasUnsavedChanges
    saving,     \* isSaving
    timer,      \* the save to come: [bundle, voice], or NoTimer
    saves,      \* the page's PATCH requests: [id, page, bundle, voice, then, at]
    publish,    \* publish[p]: "no" -> "saving" -> "sent" -> "begun" -> "no"
    wanted,     \* wanted[p]: the script p is publishing
    base,       \* base[p]: the row as p's transaction read it
    regen,      \* regen[p]: idle, "sent", "read" or "done", with the voice it read
    toggle,     \* the pause button elsewhere: [at, active, voice, prompt]
    detail,     \* the agent's other page: [at, prompt], what it has loaded
    written,    \* scripts and voices ever written to the row (a history variable)
    dropped,    \* scripts and voices of saves that failed (a history variable)
    edits, faults, clicks

vars == <<doc, versions, opened, shown, voice, dirty, saving, timer, saves, publish, wanted,
          base, regen, toggle, detail, written, dropped, edits, faults, clicks>>

page == <<opened, shown, voice, dirty, timer>>
server == <<doc, versions, written, dropped>>
elsewhere == <<toggle, detail>>
bounds == <<edits, faults, clicks>>

Idle == [at |-> "idle"]

Blank == [bundle |-> 0, prompt |-> 0, voice |-> 0, active |-> FALSE, pvn |-> 0]

Init ==
    /\ doc = Blank
    /\ versions = <<>>
    /\ opened = {}
    /\ shown = [p \in Pages |-> 0] /\ voice = [p \in Pages |-> 0]
    /\ dirty = [p \in Pages |-> FALSE] /\ saving = [p \in Pages |-> FALSE]
    /\ timer = [p \in Pages |-> NoTimer]
    /\ saves = {}
    /\ publish = [p \in Pages |-> "no"] /\ base = [p \in Pages |-> Blank]
    /\ wanted = [p \in Pages |-> 0]
    /\ regen = [p \in Pages |-> Idle]
    /\ toggle = Idle /\ detail = Idle
    /\ written = {0} /\ dropped = {}
    /\ edits = 0 /\ faults = 0 /\ clicks = 0

(***************************************************************************)
(* The page.                                                               *)
(***************************************************************************)

\* fetchAgent.
Load(p) ==
    /\ p \notin opened
    /\ opened' = opened \cup {p}
    /\ shown' = [shown EXCEPT ![p] = doc.bundle]
    /\ voice' = [voice EXCEPT ![p] = doc.voice]
    /\ UNCHANGED <<server, dirty, timer, saving, saves, publish, wanted, base, regen, elsewhere,
                   bounds>>

\* handleUpdateBundle: every edit starts the timer anew, with what is shown now.
EditBundle(p) ==
    /\ edits < MaxEdits /\ edits' = edits + 1
    /\ shown' = [shown EXCEPT ![p] = edits']
    /\ timer' = [timer EXCEPT ![p] = [bundle |-> edits', voice |-> voice[p]]]
    /\ dirty' = [dirty EXCEPT ![p] = TRUE]
    /\ UNCHANGED <<server, opened, voice, saving, saves, publish, wanted, base, regen, elsewhere,
                   faults, clicks>>

\* a mutant: the timer's closure still holds the voice before the change
ChangeVoiceStale(p) ==
    /\ edits < MaxEdits /\ edits' = edits + 1
    /\ voice' = [voice EXCEPT ![p] = edits']
    /\ timer' = [timer EXCEPT ![p] = [bundle |-> shown[p], voice |-> voice[p]]]
    /\ dirty' = [dirty EXCEPT ![p] = TRUE]
    /\ UNCHANGED <<server, opened, shown, saving, saves, publish, wanted, base, regen, elsewhere,
                   faults, clicks>>

\* handleVoiceChange: the same timer, so it must carry a pending script too.
ChangeVoice(p) ==
    /\ edits < MaxEdits /\ edits' = edits + 1
    /\ voice' = [voice EXCEPT ![p] = edits']
    /\ timer' = [timer EXCEPT ![p] = [bundle |-> shown[p], voice |-> edits']]
    /\ dirty' = [dirty EXCEPT ![p] = TRUE]
    /\ UNCHANGED <<server, opened, shown, saving, saves, publish, wanted, base, regen, elsewhere,
                   faults, clicks>>

\* saveDraft: the request leaves.
Send(p, b, v, then) ==
    /\ \E id \in 0..Cardinality(saves) :
          /\ id \notin {r.id : r \in saves} /\ 0..(id - 1) \subseteq {r.id : r \in saves}
          /\ saves' = saves \cup {[id |-> id, page |-> p, bundle |-> b, voice |-> v,
                                   then |-> then, at |-> "sent"]}
    /\ saving' = [saving EXCEPT ![p] = TRUE]

Autosave(p) ==
    /\ timer[p] # NoTimer
    /\ Send(p, timer[p].bundle, timer[p].voice, "none")
    /\ timer' = [timer EXCEPT ![p] = NoTimer]
    /\ UNCHANGED <<server, opened, shown, voice, dirty, publish, wanted, base, regen, elsewhere,
                   edits, faults, clicks>>

Click == clicks < MaxClicks /\ clicks' = clicks + 1

\* "Save Draft Now".  The timer goes on.
SaveNow(p) ==
    /\ dirty[p] /\ ~saving[p] /\ Click
    /\ Send(p, shown[p], voice[p], "none")
    /\ UNCHANGED <<server, page, publish, wanted, base, regen, elsewhere, edits, faults>>

\* a mutant: publishing does not wait for the save
PublishAtOnce(p) ==
    /\ publish[p] = "no" /\ shown[p] \notin Invalid /\ Click
    /\ wanted' = [wanted EXCEPT ![p] = shown[p]]
    /\ Send(p, shown[p], voice[p], "none")
    /\ publish' = [publish EXCEPT ![p] = "sent"]
    /\ UNCHANGED <<server, page, base, regen, elsewhere, edits, faults>>

\* handlePublish: what is shown is validated, saved, and then published.
Publish(p) ==
    /\ publish[p] = "no" /\ shown[p] \notin Invalid /\ Click
    /\ wanted' = [wanted EXCEPT ![p] = shown[p]]
    /\ Send(p, shown[p], voice[p], "publish")
    /\ publish' = [publish EXCEPT ![p] = "saving"]
    /\ UNCHANGED <<server, page, base, regen, elsewhere, edits, faults>>

Regenerate(p) ==
    /\ regen[p] = Idle /\ Click
    /\ regen' = [regen EXCEPT ![p] = [at |-> "sent"]]
    /\ UNCHANGED <<server, page, saving, saves, publish, wanted, base, elsewhere, edits, faults>>

\* A save is answered.  Only an accepted one clears the mark, also when the page has
\* been edited since; a publish goes on either way.
Saved(r) ==
    /\ r.at \in {"ok", "failed"}
    /\ saves' = saves \ {r}
    /\ saving' = [saving EXCEPT ![r.page] = FALSE]
    /\ dirty' = [dirty EXCEPT ![r.page] = @ /\ r.at # "ok"]
    /\ publish' = [publish EXCEPT ![r.page] = IF r.then = "publish" THEN "sent" ELSE @]
    /\ UNCHANGED <<server, opened, shown, voice, timer, wanted, base, regen, elsewhere, bounds>>

\* The new script replaces what is shown, and the page counts as saved.  A timer that
\* is running is left alone.
Regenerated(p) ==
    /\ regen[p].at = "done"
    /\ regen' = [regen EXCEPT ![p] = Idle]
    /\ shown' = [shown EXCEPT ![p] = regen[p].bundle]
    /\ dirty' = [dirty EXCEPT ![p] = FALSE]
    /\ UNCHANGED <<server, opened, voice, timer, saving, saves, publish, wanted, base, elsewhere, bounds>>

(***************************************************************************)
(* The routes.                                                             *)
(***************************************************************************)

Write(new) ==
    /\ doc' = new
    /\ written' = written \cup {new.bundle, new.voice}

Answer(r, at) ==
    /\ saves' = (saves \ {r}) \cup {[r EXCEPT !.at = at]}
    /\ dropped' = IF at = "failed" THEN dropped \cup {r.bundle, r.voice} ELSE dropped

Fault == faults < MaxFaults /\ faults' = faults + 1

\* PATCH from the editor: script, prompt, greeting and voice all come from the
\* request.  The answer may be lost.
SaveDraft(r) ==
    /\ r.at = "sent"
    /\ IF r.bundle \in Invalid
       THEN Answer(r, "failed") /\ UNCHANGED <<doc, written, faults>>
       ELSE /\ Write([doc EXCEPT !.bundle = r.bundle, !.prompt = r.bundle, !.voice = r.voice])
            /\ \/ Answer(r, "ok") /\ UNCHANGED faults
               \/ Answer(r, "failed") /\ Fault
    /\ UNCHANGED <<versions, page, saving, publish, wanted, base, regen, elsewhere, edits, clicks>>

LoseSave(r) ==
    /\ r.at = "sent" /\ Answer(r, "failed") /\ Fault
    /\ UNCHANGED <<doc, versions, written, page, saving, publish, wanted, base, regen, elsewhere, edits, clicks>>

\* AgentRepository.publish: the row is read in a snapshot.
BeginPublish(p) ==
    /\ publish[p] = "sent"
    /\ base' = [base EXCEPT ![p] = doc]
    /\ publish' = [publish EXCEPT ![p] = "begun"]
    /\ UNCHANGED <<server, page, saving, saves, wanted, regen, elsewhere, bounds>>

\* The button works again when publish is answered.
Answered(p) ==
    /\ publish' = [publish EXCEPT ![p] = "no"]
    /\ wanted' = [wanted EXCEPT ![p] = 0]

\* a mutant: nothing notices that the row has changed since
CommitUnchecked(p) ==
    /\ publish[p] = "begun" /\ Answered(p)
    /\ versions' = Append(versions, [bundle |-> base[p].bundle, prompt |-> base[p].prompt,
                                     voice |-> base[p].voice, number |-> base[p].pvn + 1])
    /\ doc' = [doc EXCEPT !.pvn = base[p].pvn + 1, !.active = TRUE]
    /\ base' = [base EXCEPT ![p] = Blank]
    /\ UNCHANGED <<written, dropped, page, saving, saves, regen, elsewhere, bounds>>

\* The version and the row are written together, unless the row has changed: then the
\* transaction starts again, or gives up after its last attempt.
CommitPublish(p) ==
    /\ publish[p] = "begun"
    /\ \/ /\ doc = base[p] /\ Answered(p)
          /\ versions' = Append(versions, [bundle |-> doc.bundle, prompt |-> doc.prompt,
                                           voice |-> doc.voice, number |-> doc.pvn + 1])
          /\ doc' = [doc EXCEPT !.pvn = @ + 1, !.active = TRUE]
       \/ /\ doc # base[p]
          /\ Answered(p) \/ (publish' = [publish EXCEPT ![p] = "sent"] /\ UNCHANGED wanted)
          /\ UNCHANGED <<doc, versions>>
    /\ base' = [base EXCEPT ![p] = Blank]
    /\ UNCHANGED <<written, dropped, page, saving, saves, regen, elsewhere, bounds>>

\* regenerate reads the row before the language model runs ...
ReadForRegenerate(p) ==
    /\ regen[p].at = "sent"
    /\ regen' = [regen EXCEPT ![p] = [at |-> "read", voice |-> doc.voice]]
    /\ UNCHANGED <<server, page, saving, saves, publish, wanted, base, elsewhere, bounds>>

\* ... and writes the whole configuration it read back after it.
WriteRegenerated(p) ==
    /\ regen[p].at = "read"
    /\ \/ /\ edits < MaxEdits /\ edits' = edits + 1 /\ edits' \notin Invalid
          /\ Write([doc EXCEPT !.bundle = edits', !.prompt = edits', !.voice = regen[p].voice])
          /\ regen' = [regen EXCEPT ![p] = [at |-> "done", bundle |-> edits']]
       \/ /\ regen' = [regen EXCEPT ![p] = Idle]
          /\ UNCHANGED <<doc, written, edits>>
    /\ UNCHANGED <<versions, dropped, page, saving, saves, publish, wanted, base, elsewhere, faults, clicks>>

(***************************************************************************)
(* Other pages: the pause button reads the status and writes the opposite; *)
(* its PATCH reads the row twice, the voice first and then everything, and *)
(* writes both back with the status.                                       *)
(***************************************************************************)

PressPause ==
    /\ toggle = Idle /\ Click
    /\ toggle' = [at |-> "sent", active |-> ~doc.active]
    /\ UNCHANGED <<server, page, saving, saves, publish, wanted, base, regen, detail, edits, faults>>

ReadForPause ==
    /\ \/ /\ toggle.at = "sent"
          /\ toggle' = [at |-> "read", active |-> toggle.active, voice |-> doc.voice]
       \/ /\ toggle.at = "read"
          /\ toggle' = [at |-> "reread", active |-> toggle.active, voice |-> toggle.voice,
                        prompt |-> doc.prompt]
    /\ UNCHANGED <<server, page, saving, saves, publish, wanted, base, regen, detail, bounds>>

WritePause ==
    /\ toggle.at = "reread"
    /\ Write([doc EXCEPT !.active = toggle.active, !.voice = toggle.voice,
                         !.prompt = toggle.prompt])
    /\ toggle' = Idle
    /\ UNCHANGED <<versions, dropped, page, saving, saves, publish, wanted, base, regen, detail, bounds>>

\* The agent's other page loads the instructions and, when saved, sends them back.
LoadDetail ==
    /\ detail = Idle /\ Click
    /\ detail' = [at |-> "loaded", prompt |-> doc.prompt]
    /\ UNCHANGED <<server, page, saving, saves, publish, wanted, base, regen, toggle, edits, faults>>

SaveDetail ==
    /\ detail.at = "loaded"
    /\ Write([doc EXCEPT !.prompt = detail.prompt])
    /\ detail' = Idle
    /\ UNCHANGED <<versions, dropped, page, saving, saves, publish, wanted, base, regen, toggle, bounds>>

Rest ==
    /\ \A p \in Pages : timer[p] = NoTimer /\ publish[p] = "no" /\ regen[p] = Idle
    /\ saves = {} /\ toggle = Idle
    /\ UNCHANGED vars

UsePage(p) ==
    /\ p \in opened
    /\ \/ EditBundle(p) \/ ChangeVoice(p) \/ Autosave(p) \/ SaveNow(p)
       \/ Publish(p) \/ Regenerate(p) \/ Regenerated(p)
       \/ \E r \in saves : r.page = p /\ Saved(r)

Serve(p) ==
    \/ BeginPublish(p) \/ CommitPublish(p) \/ ReadForRegenerate(p) \/ WriteRegenerated(p)
    \/ \E r \in saves : r.page = p /\ (SaveDraft(r) \/ LoseSave(r))

Next ==
    \/ \E p \in Pages : Load(p) \/ UsePage(p) \/ Serve(p)
    \/ PressPause \/ ReadForPause \/ WritePause \/ LoadDetail \/ SaveDetail
    \/ Rest

Spec == Init /\ [][Next]_vars
=============================================================================
