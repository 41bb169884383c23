-------------------------- MODULE AgentDraftProofs --------------------------
(***************************************************************************)
(* For every number of pages, edits, lost requests and buttons pressed:    *)
(* no edit of a page is forgotten, a page publishes after its save, and a  *)
(* version is the row as it was.                                           *)
(***************************************************************************)
EXTENDS DraftProps, SequenceTheorems, TLAPS

Docs == [bundle : Nat, prompt : Nat, voice : Nat, active : BOOLEAN, pvn : Nat]
Versions == [bundle : Nat, prompt : Nat, voice : Nat, number : Nat]
Drafts == [bundle : Nat, voice : Nat]
Saves == [id : Nat, page : Pages, bundle : Nat, voice : Nat, then : {"none", "publish"},
          at : {"sent", "ok", "failed"}]

\* The type of every variable but those of the other pages.
PageType ==
    /\ opened \in SUBSET Pages
    /\ shown \in [Pages -> Nat] /\ voice \in [Pages -> Nat]
    /\ dirty \in [Pages -> BOOLEAN] /\ saving \in [Pages -> BOOLEAN]
    /\ timer \in [Pages -> Drafts \cup {NoTimer}]
    /\ saves \in SUBSET Saves
    /\ publish \in [Pages -> {"no", "saving", "sent", "begun"}]
    /\ wanted \in [Pages -> Nat]

ServerType ==
    /\ doc \in Docs
    /\ versions \in Seq(Versions)
    /\ base \in [Pages -> Docs]
    /\ written \in SUBSET Nat /\ dropped \in SUBSET Nat
    /\ edits \in Nat

\* What the requests that read first have read.
ReadType ==
    /\ DOMAIN regen = Pages
    /\ \A p \in Pages :
          /\ regen[p].at = "read" => regen[p].voice \in Nat
          /\ regen[p].at = "done" => regen[p].bundle \in written
    /\ toggle.at = "sent" => toggle.active \in BOOLEAN
    /\ toggle.at = "read" => toggle.active \in BOOLEAN /\ toggle.voice \in Nat
    /\ toggle.at = "reread" =>
          toggle.active \in BOOLEAN /\ toggle.voice \in Nat /\ toggle.prompt \in Nat
    /\ detail.at = "loaded" => detail.prompt \in Nat

\* The row is what was written, and counts the versions.
RowKnown ==
    /\ doc.bundle \in written /\ doc.voice \in written
    /\ doc.pvn = Len(versions)

\* A page's save that publishes is the one it waits for; one that was answered was
\* written or dropped.
SavesKnown ==
    /\ \A r \in saves :
          /\ r.at # "sent" => /\ r.bundle \in written \cup dropped
                             /\ r.voice \in written \cup dropped
          /\ r.then = "publish" => publish[r.page] = "saving" /\ wanted[r.page] = r.bundle
    /\ \A r, s \in saves :
          r.then = "publish" /\ s.then = "publish" /\ r.page = s.page => r = s

\* Where the script and the voice a page shows are.
Kept(p) ==
    /\ \/ shown[p] \in written \cup dropped
       \/ timer[p] # NoTimer /\ timer[p].bundle = shown[p]
       \/ \E r \in saves : r.page = p /\ r.at = "sent" /\ r.bundle = shown[p]
    /\ \/ voice[p] \in written \cup dropped
       \/ timer[p] # NoTimer /\ timer[p].voice = voice[p]
       \/ \E r \in saves : r.page = p /\ r.at = "sent" /\ r.voice = voice[p]

DraftInv ==
    /\ PageType /\ ServerType /\ ReadType /\ RowKnown /\ SavesKnown
    /\ \A p \in opened : Kept(p)
    /\ PublishAfterSave

-----------------------------------------------------------------------------
(* What the helpers of the model do. *)

\* A request that leaves is one more, on its way, with what it was given.
LEMMA SendEffect ==
    ASSUME PageType, NEW p \in Pages, NEW b \in Nat, NEW v \in Nat,
           NEW then \in {"none", "publish"}, Send(p, b, v, then)
    PROVE  /\ \E new \in Saves :
                 /\ new.page = p /\ new.bundle = b /\ new.voice = v /\ new.then = then
                 /\ new.at = "sent" /\ saves' = saves \cup {new}
           /\ saving' \in [Pages -> BOOLEAN]
<1>1. PICK id \in 0..Cardinality(saves) :
          saves' = saves \cup {[id |-> id, page |-> p, bundle |-> b, voice |-> v,
                                then |-> then, at |-> "sent"]}
  BY DEF Send
<1>2. id \in Nat
  BY <1>1
<1> DEFINE new == [id |-> id, page |-> p, bundle |-> b, voice |-> v,
                   then |-> then, at |-> "sent"]
<1>3. /\ new \in Saves /\ new.page = p /\ new.bundle = b /\ new.voice = v /\ new.then = then
      /\ new.at = "sent" /\ saves' = saves \cup {new}
  BY <1>1, <1>2 DEF Saves
<1>4. saving' \in [Pages -> BOOLEAN]
  BY DEF Send, PageType
<1> QED BY <1>3, <1>4

\* A request that is answered keeps what it carried; if it failed, that is dropped.
LEMMA AnswerEffect ==
    ASSUME PageType, NEW r \in saves, NEW at \in {"ok", "failed"}, Answer(r, at)
    PROVE  \E new \in Saves :
              /\ new.page = r.page /\ new.bundle = r.bundle /\ new.voice = r.voice
              /\ new.then = r.then /\ new.at = at /\ saves' = (saves \ {r}) \cup {new}
              /\ at = "failed" => dropped' = dropped \cup {r.bundle, r.voice}
              /\ at = "ok" => dropped' = dropped
<1>1. r \in Saves
  BY DEF PageType
<1> DEFINE new == [r EXCEPT !.at = at]
<1>2. /\ new \in Saves
      /\ new.page = r.page /\ new.bundle = r.bundle /\ new.voice = r.voice
      /\ new.then = r.then /\ new.at = at
  BY <1>1 DEF Saves
<1>3. /\ saves' = (saves \ {r}) \cup {new}
      /\ at = "failed" => dropped' = dropped \cup {r.bundle, r.voice}
      /\ at = "ok" => dropped' = dropped
  BY DEF Answer
<1> QED BY <1>2, <1>3

-----------------------------------------------------------------------------
(* What a step leaves alone it preserves. *)

\* What a page shows stays where it is, or reaches the row, or is dropped with its save.
LEMMA KeptFrame ==
    ASSUME NEW p \in Pages, Kept(p), shown'[p] = shown[p], voice'[p] = voice[p],
           timer'[p] = timer[p], written \subseteq written', dropped \subseteq dropped',
           \A r \in saves : r.page = p /\ r.at = "sent" =>
              \/ r \in saves'
              \/ r.bundle \in written' \cup dropped' /\ r.voice \in written' \cup dropped'
    PROVE  Kept(p)'
  BY DEF Kept

\* The saves under way stay what they are while no request of the pages moves.
LEMMA SavesFrame ==
    ASSUME SavesKnown, UNCHANGED saves, UNCHANGED wanted,
           \A p \in Pages : publish[p] = "saving" => publish'[p] = "saving", PageType,
           written \subseteq written', dropped \subseteq dropped'
    PROVE  SavesKnown'
  BY DEF SavesKnown, PageType, Saves

\* A page that publishes goes on doing so with what was written or dropped.
LEMMA PublishFrame ==
    ASSUME PublishAfterSave, UNCHANGED wanted,
           written \subseteq written', dropped \subseteq dropped',
           \A p \in Pages :
              publish'[p] \in {"sent", "begun"} => publish[p] \in {"sent", "begun"}
    PROVE  PublishAfterSave'
  BY DEF PublishAfterSave

\* What the requests elsewhere have read stays as it is while they do not move.
LEMMA ReadFrame ==
    ASSUME ReadType, UNCHANGED <<regen, toggle, detail>>, written \subseteq written'
    PROVE  ReadType'
  BY DEF ReadType

-----------------------------------------------------------------------------
(* The steps of the pages. *)

\* A page that is opened shows the row.
LEMMA LoadKeeps == ASSUME DraftInv, NEW p \in Pages, Load(p) PROVE DraftInv'
<1> USE DEF server, elsewhere, bounds
<1>1. /\ opened' = opened \cup {p} /\ p \notin opened
      /\ shown' = [shown EXCEPT ![p] = doc.bundle] /\ voice' = [voice EXCEPT ![p] = doc.voice]
      /\ UNCHANGED <<doc, versions, written, dropped, timer, dirty, saving, saves, publish,
                     wanted, base, regen, toggle, detail, edits>>
  BY DEF Load
<1>2. PageType' /\ ServerType'
  BY <1>1 DEF DraftInv, PageType, ServerType, Docs
<1>3. RowKnown' /\ ReadType' /\ SavesKnown' /\ PublishAfterSave'
  BY <1>1, ReadFrame, SavesFrame, PublishFrame DEF DraftInv, RowKnown
<1>4. ASSUME NEW q \in opened' PROVE Kept(q)'
  <2>1. CASE q = p
    BY <1>1, <2>1 DEF DraftInv, PageType, RowKnown, Kept
  <2>2. CASE q # p
    BY <1>1, <1>4, <2>2, KeptFrame DEF DraftInv, PageType
  <2> QED BY <2>1, <2>2
<1> QED BY <1>2, <1>3, <1>4 DEF DraftInv

\* An edit takes over what the timer was to save.
LEMMA EditKeeps ==
    ASSUME DraftInv, NEW p \in opened, EditBundle(p) \/ ChangeVoice(p)
    PROVE  DraftInv'
<1> USE DEF server, elsewhere
<1>1. /\ p \in Pages /\ edits' = edits + 1
      /\ timer' = [timer EXCEPT ![p] = [bundle |-> shown'[p], voice |-> voice'[p]]]
      /\ \/ shown' = [shown EXCEPT ![p] = edits'] /\ UNCHANGED voice
         \/ voice' = [voice EXCEPT ![p] = edits'] /\ UNCHANGED shown
      /\ dirty' = [dirty EXCEPT ![p] = TRUE]
      /\ UNCHANGED <<doc, versions, written, dropped, opened, saving, saves, publish, wanted,
                     base, regen, toggle, detail>>
  BY DEF EditBundle, ChangeVoice, DraftInv, PageType
<1>2. /\ shown' \in [Pages -> Nat] /\ voice' \in [Pages -> Nat] /\ edits' \in Nat
      /\ \A q \in Pages : q # p => shown'[q] = shown[q] /\ voice'[q] = voice[q]
  <2>1. edits' \in Nat /\ shown \in [Pages -> Nat] /\ voice \in [Pages -> Nat]
    BY <1>1 DEF DraftInv, PageType, ServerType
  <2>2. CASE shown' = [shown EXCEPT ![p] = edits'] /\ UNCHANGED voice
    BY <1>1, <2>1, <2>2
  <2>3. CASE voice' = [voice EXCEPT ![p] = edits'] /\ UNCHANGED shown
    BY <1>1, <2>1, <2>3
  <2> QED BY <1>1, <2>2, <2>3
<1>3. /\ timer' \in [Pages -> Drafts \cup {NoTimer}]
      /\ timer'[p] \in Drafts /\ timer'[p].bundle = shown'[p] /\ timer'[p].voice = voice'[p]
      /\ \A q \in Pages : q # p => timer'[q] = timer[q]
  <2>1. [bundle |-> shown'[p], voice |-> voice'[p]] \in Drafts
    BY <1>1, <1>2 DEF Drafts
  <2>2. timer'[p] = [bundle |-> shown'[p], voice |-> voice'[p]]
    BY <1>1 DEF DraftInv, PageType
  <2> QED BY <1>1, <2>1, <2>2 DEF DraftInv, PageType
<1>4. PageType' /\ ServerType'
  BY <1>1, <1>2, <1>3 DEF DraftInv, PageType, ServerType
<1>5. RowKnown' /\ ReadType' /\ SavesKnown' /\ PublishAfterSave'
  BY <1>1, ReadFrame, SavesFrame, PublishFrame DEF DraftInv, RowKnown
<1>6. ASSUME NEW q \in opened' PROVE Kept(q)'
  <2>1. CASE q = p
    BY <1>3, <2>1, DraftAssumption DEF Kept, Drafts
  <2>2. CASE q # p
    BY <1>1, <1>2, <1>3, <1>6, <2>2, KeptFrame DEF DraftInv, PageType
  <2> QED BY <2>1, <2>2
<1> QED BY <1>4, <1>5, <1>6 DEF DraftInv

\* The timer fires, or a button saves: what the timer carried is on its way.
LEMMA SendKeeps ==
    ASSUME DraftInv, NEW p \in opened, Autosave(p) \/ SaveNow(p) \/ Publish(p)
    PROVE  DraftInv'
<1> USE DEF server, elsewhere, page
<1>1. PICK b \in Nat, v \in Nat, then \in {"none", "publish"} :
        /\ Send(p, b, v, then)
        /\ \/ timer[p] # NoTimer /\ b = timer[p].bundle /\ v = timer[p].voice
              /\ then = "none" /\ timer' = [timer EXCEPT ![p] = NoTimer]
              /\ UNCHANGED <<publish, wanted>>
           \/ then = "none" /\ UNCHANGED <<timer, publish, wanted>>
           \/ /\ then = "publish" /\ UNCHANGED timer /\ publish[p] = "no"
              /\ publish' = [publish EXCEPT ![p] = "saving"]
              /\ b = shown[p] /\ wanted' = [wanted EXCEPT ![p] = b]
  <2>1. p \in Pages /\ shown[p] \in Nat /\ voice[p] \in Nat
    BY DEF DraftInv, PageType
  <2>2. CASE Autosave(p)
    <3>1. timer[p] # NoTimer /\ timer[p].bundle \in Nat /\ timer[p].voice \in Nat
      BY <2>1, <2>2 DEF Autosave, DraftInv, PageType, Drafts
    <3> QED BY <2>2, <3>1 DEF Autosave
  <2>3. CASE SaveNow(p)
    BY <2>1, <2>3 DEF SaveNow
  <2>4. CASE Publish(p)
    BY <2>1, <2>4 DEF Publish
  <2> QED BY <2>2, <2>3, <2>4
<1>2. UNCHANGED <<doc, versions, written, dropped, opened, shown, voice, dirty, base, regen,
                  toggle, detail, edits>>
  BY DEF Autosave, SaveNow, Publish
<1>3. p \in Pages /\ PageType
  BY DEF DraftInv, PageType
<1>4. PICK new \in Saves :
         /\ new.page = p /\ new.bundle = b /\ new.voice = v /\ new.then = then
         /\ new.at = "sent" /\ saves' = saves \cup {new}
  BY <1>1, <1>3, SendEffect
<1>5. saving' \in [Pages -> BOOLEAN]
  BY <1>1, <1>3, SendEffect
<1>6. /\ timer' \in [Pages -> Drafts \cup {NoTimer}]
      /\ publish' \in [Pages -> {"no", "saving", "sent", "begun"}] /\ wanted' \in [Pages -> Nat]
      /\ \A q \in Pages : q # p =>
            timer'[q] = timer[q] /\ publish'[q] = publish[q] /\ wanted'[q] = wanted[q]
  BY <1>1, <1>3 DEF PageType
<1>7. PageType' /\ ServerType'
  BY <1>2, <1>4, <1>5, <1>6 DEF DraftInv, PageType, ServerType
<1>8. RowKnown' /\ ReadType'
  BY <1>2, ReadFrame DEF DraftInv, RowKnown
<1>9. SavesKnown'
  <2>1. \A r \in saves : r.then = "publish" /\ r.page = p => publish[p] = "saving"
    BY DEF DraftInv, SavesKnown
  <2>2. CASE then = "none"
    BY <1>1, <1>2, <1>4, <2>2 DEF DraftInv, SavesKnown
  <2>3. CASE then = "publish"
    <3>1. \A r \in saves : r.then = "publish" => r.page # p /\ r.page \in Pages
      BY <1>1, <2>1, <2>3 DEF DraftInv, PageType, Saves
    <3>2. publish'[p] = "saving" /\ wanted'[p] = new.bundle
      BY <1>1, <1>3, <1>4, <2>3 DEF PageType
    <3> QED BY <1>2, <1>4, <1>6, <3>1, <3>2 DEF DraftInv, SavesKnown
  <2> QED BY <2>2, <2>3
<1>10. PublishAfterSave'
  BY <1>1, <1>2, <1>3, <1>6 DEF DraftInv, PublishAfterSave, PageType
<1>11. ASSUME NEW q \in opened' PROVE Kept(q)'
  <2>1. q \in opened /\ q \in Pages /\ Kept(q)
    BY <1>2, <1>11 DEF DraftInv, PageType
  <2>2. CASE timer'[q] = timer[q]
    BY <1>2, <1>4, <2>1, <2>2, KeptFrame
  <2>3. CASE q = p /\ timer[p] # NoTimer /\ b = timer[p].bundle /\ v = timer[p].voice
    BY <1>2, <1>4, <2>1, <2>3 DEF Kept
  <2> QED BY <1>1, <1>6, <2>1, <2>2, <2>3
<1> QED BY <1>7, <1>8, <1>9, <1>10, <1>11 DEF DraftInv

\* An answer is dealt with: what it carried was written or dropped before.
LEMMA SavedKeeps == ASSUME DraftInv, NEW r \in saves, Saved(r) PROVE DraftInv'
<1> USE DEF server, elsewhere, bounds
<1>1. /\ r.at \in {"ok", "failed"} /\ saves' = saves \ {r}
      /\ saving' = [saving EXCEPT ![r.page] = FALSE]
      /\ dirty' = [dirty EXCEPT ![r.page] = @ /\ r.at # "ok"]
      /\ publish' = [publish EXCEPT ![r.page] = IF r.then = "publish" THEN "sent" ELSE @]
      /\ UNCHANGED <<doc, versions, written, dropped, opened, shown, voice, timer, wanted, base,
                     regen, toggle, detail, edits>>
  BY DEF Saved
<1>2. r \in Saves /\ r.page \in Pages
  BY DEF DraftInv, PageType, Saves
<1>3. /\ publish' \in [Pages -> {"no", "saving", "sent", "begun"}]
      /\ \A q \in Pages : publish'[q] # publish[q] =>
            q = r.page /\ r.then = "publish" /\ publish'[q] = "sent"
  BY <1>1, <1>2 DEF DraftInv, PageType
<1>4. dirty' \in [Pages -> BOOLEAN]
  BY <1>1, <1>2 DEF DraftInv, PageType
<1>5. PageType' /\ ServerType'
  BY <1>1, <1>2, <1>3, <1>4 DEF DraftInv, PageType, ServerType
<1>6. RowKnown' /\ ReadType'
  BY <1>1, ReadFrame DEF DraftInv, RowKnown
<1>7. SavesKnown'
  <2>1. \A s \in saves' : s.then = "publish" => publish'[s.page] = publish[s.page]
    BY <1>1, <1>3 DEF DraftInv, SavesKnown, PageType, Saves
  <2> QED BY <1>1, <2>1 DEF DraftInv, SavesKnown
<1>8. PublishAfterSave'
  BY <1>1, <1>2, <1>3 DEF DraftInv, PublishAfterSave, SavesKnown
<1>9. ASSUME NEW q \in opened' PROVE Kept(q)'
  BY <1>1, <1>9, KeptFrame DEF DraftInv, PageType
<1> QED BY <1>5, <1>6, <1>7, <1>8, <1>9 DEF DraftInv

\* A new script is asked for, and shown once it has been written.
LEMMA RegenerateKeeps ==
    ASSUME DraftInv, NEW p \in opened, Regenerate(p) \/ Regenerated(p)
    PROVE  DraftInv'
<1> USE DEF server, elsewhere, page, bounds, Idle
<1>1. /\ p \in Pages
      /\ UNCHANGED <<doc, versions, written, dropped, opened, voice, timer, saving, saves,
                     publish, wanted, base, toggle, detail, edits>>
  BY DEF Regenerate, Regenerated, DraftInv, PageType
<1>2. /\ shown' \in [Pages -> Nat] /\ dirty' \in [Pages -> BOOLEAN]
      /\ \A q \in Pages : shown'[q] # shown[q] => shown'[q] \in written
  <2>1. CASE Regenerate(p)
    BY <2>1 DEF Regenerate, DraftInv, PageType
  <2>2. CASE Regenerated(p)
    <3>1. regen[p].bundle \in written /\ regen[p].bundle \in Nat
      BY <1>1, <2>2 DEF Regenerated, DraftInv, ReadType, ServerType
    <3> QED BY <1>1, <2>2, <3>1 DEF Regenerated, DraftInv, PageType
  <2> QED BY <2>1, <2>2
<1>3. PageType' /\ ServerType'
  BY <1>1, <1>2 DEF DraftInv, PageType, ServerType
<1>4. RowKnown' /\ SavesKnown' /\ PublishAfterSave'
  BY <1>1, SavesFrame, PublishFrame DEF DraftInv, RowKnown
<1>5. ReadType'
  <2>1. PICK at \in {"idle", "sent"} : regen' = [regen EXCEPT ![p] = [at |-> at]]
    BY DEF Regenerate, Regenerated
  <2> QED BY <1>1, <2>1 DEF DraftInv, ReadType
<1>6. ASSUME NEW q \in opened' PROVE Kept(q)'
  BY <1>1, <1>2, <1>6 DEF DraftInv, PageType, Kept
<1> QED BY <1>3, <1>4, <1>5, <1>6 DEF DraftInv

-----------------------------------------------------------------------------
(* The steps of the routes. *)

\* A save reaches the row, or is dropped.
LEMMA SaveKeeps ==
    ASSUME DraftInv, NEW r \in saves, SaveDraft(r) \/ LoseSave(r)
    PROVE  DraftInv'
<1> USE DEF elsewhere, page
<1>1. /\ r.at = "sent"
      /\ UNCHANGED <<versions, opened, shown, voice, dirty, timer, saving, publish, wanted,
                     base, regen, toggle, detail, edits>>
  BY DEF SaveDraft, LoseSave
<1>2. r \in Saves
  BY DEF DraftInv, PageType
<1>3. PICK at \in {"ok", "failed"} :
        /\ Answer(r, at)
        /\ \/ Write([doc EXCEPT !.bundle = r.bundle, !.prompt = r.bundle, !.voice = r.voice])
           \/ UNCHANGED <<doc, written>> /\ at = "failed"
  <2>1. CASE LoseSave(r)
    BY <2>1 DEF LoseSave
  <2>2. CASE SaveDraft(r)
    BY <2>2 DEF SaveDraft
  <2> QED BY <2>1, <2>2
<1>4. PICK new \in Saves :
         /\ new.page = r.page /\ new.bundle = r.bundle /\ new.voice = r.voice
         /\ new.then = r.then /\ new.at = at /\ saves' = (saves \ {r}) \cup {new}
         /\ at = "failed" => dropped' = dropped \cup {r.bundle, r.voice}
         /\ at = "ok" => dropped' = dropped
  BY <1>3, AnswerEffect DEF DraftInv
<1>5. /\ doc' \in Docs /\ doc'.pvn = doc.pvn
      /\ doc'.bundle \in written' /\ doc'.voice \in written'
      /\ written \subseteq written' /\ dropped \subseteq dropped'
      /\ written' \in SUBSET Nat /\ dropped' \in SUBSET Nat
      /\ r.bundle \in written' \cup dropped' /\ r.voice \in written' \cup dropped'
  <2>1. CASE Write([doc EXCEPT !.bundle = r.bundle, !.prompt = r.bundle, !.voice = r.voice])
    BY <1>2, <1>4, <2>1 DEF Write, DraftInv, ServerType, RowKnown, Docs, Saves
  <2>2. CASE UNCHANGED <<doc, written>> /\ at = "failed"
    BY <1>2, <1>4, <2>2 DEF DraftInv, ServerType, RowKnown, Saves
  <2> QED BY <1>3, <2>1, <2>2
<1>6. PageType' /\ ServerType'
  BY <1>1, <1>4, <1>5 DEF DraftInv, PageType, ServerType
<1>7. RowKnown' /\ ReadType' /\ PublishAfterSave'
  BY <1>1, <1>5, ReadFrame, PublishFrame DEF DraftInv, RowKnown
<1>8. SavesKnown'
  <2>1. \A s \in saves' :
          /\ s.at # "sent" =>
                s.bundle \in written' \cup dropped' /\ s.voice \in written' \cup dropped'
          /\ s.then = "publish" => publish'[s.page] = "saving" /\ wanted'[s.page] = s.bundle
    BY <1>1, <1>4, <1>5 DEF DraftInv, SavesKnown
  <2>2. \A s, t \in saves' :
          s.then = "publish" /\ t.then = "publish" /\ s.page = t.page => s = t
    <3>1. \A s \in saves \ {r} : ~(s.then = "publish" /\ r.then = "publish" /\ r.page = s.page)
      BY DEF DraftInv, SavesKnown
    <3> QED BY <1>4, <3>1 DEF DraftInv, SavesKnown
  <2> QED BY <2>1, <2>2 DEF SavesKnown
<1>9. ASSUME NEW q \in opened' PROVE Kept(q)'
  BY <1>1, <1>4, <1>5, <1>9, KeptFrame DEF DraftInv, PageType
<1> QED BY <1>6, <1>7, <1>8, <1>9 DEF DraftInv

\* Publishing reads the row, and writes it with the version unless it has changed.
LEMMA PublishKeeps ==
    ASSUME DraftInv, NEW p \in Pages, BeginPublish(p) \/ CommitPublish(p)
    PROVE  DraftInv'
<1> USE DEF elsewhere, server, page, bounds
<1>1. /\ UNCHANGED <<written, dropped, opened, shown, voice, dirty, timer, saving, saves, regen,
                     toggle, detail, edits>>
      /\ publish[p] \in {"sent", "begun"}
  BY DEF BeginPublish, CommitPublish
<1>2. /\ base' \in [Pages -> Docs] /\ wanted' \in [Pages -> Nat]
      /\ publish' \in [Pages -> {"no", "saving", "sent", "begun"}]
      /\ publish'[p] # "no" => wanted'[p] = wanted[p]
      /\ \A q \in Pages : q # p => publish'[q] = publish[q] /\ wanted'[q] = wanted[q]
  <2>1. Blank \in Docs
    BY DEF Blank, Docs
  <2>2. CASE BeginPublish(p)
    BY <2>2 DEF BeginPublish, DraftInv, PageType, ServerType
  <2>3. CASE CommitPublish(p)
    <3>1. base' \in [Pages -> Docs]
      BY <2>1, <2>3 DEF CommitPublish, DraftInv, ServerType
    <3>2. CASE Answered(p)
      BY <3>1, <3>2 DEF Answered, DraftInv, PageType
    <3>3. CASE publish' = [publish EXCEPT ![p] = "sent"] /\ UNCHANGED wanted
      BY <3>1, <3>3 DEF DraftInv, PageType
    <3> QED BY <2>3, <3>2, <3>3 DEF CommitPublish
  <2> QED BY <2>2, <2>3
<1>3. /\ doc' \in Docs /\ versions' \in Seq(Versions) /\ doc'.pvn = Len(versions')
      /\ doc'.bundle = doc.bundle /\ doc'.voice = doc.voice
  <2>1. CASE UNCHANGED <<doc, versions>>
    BY <2>1 DEF DraftInv, ServerType, RowKnown
  <2>2. CASE ~UNCHANGED <<doc, versions>>
    <3> DEFINE new == [bundle |-> doc.bundle, prompt |-> doc.prompt, voice |-> doc.voice,
                       number |-> doc.pvn + 1]
    <3>1. /\ versions' = Append(versions, new)
          /\ doc' = [doc EXCEPT !.pvn = @ + 1, !.active = TRUE]
      BY <2>2 DEF BeginPublish, CommitPublish
    <3>2. doc \in Docs /\ versions \in Seq(Versions) /\ doc.pvn = Len(versions)
      BY DEF DraftInv, ServerType, RowKnown
    <3>3. new \in Versions
      BY <3>2 DEF Docs, Versions
    <3>4. /\ doc' \in Docs /\ doc'.pvn = doc.pvn + 1
          /\ doc'.bundle = doc.bundle /\ doc'.voice = doc.voice
      <4>1. PICK n \in Nat : n = doc.pvn + 1
        BY <3>2 DEF Docs
      <4>2. doc' = [doc EXCEPT !.pvn = n, !.active = TRUE]
        BY <3>1, <4>1
      <4> QED BY <3>2, <4>1, <4>2 DEF Docs
    <3> HIDE DEF new
    <3>5. versions' \in Seq(Versions) /\ Len(versions') = Len(versions) + 1
      BY <3>1, <3>2, <3>3, AppendProperties
    <3> QED BY <3>2, <3>4, <3>5
  <2> QED BY <2>1, <2>2
<1>4. PageType' /\ ServerType' /\ RowKnown'
  BY <1>1, <1>2, <1>3 DEF DraftInv, PageType, ServerType, RowKnown
<1>5. ReadType'
  BY <1>1, ReadFrame DEF DraftInv
<1>6. SavesKnown'
  <2>1. \A r \in saves : r.then = "publish" => r.page # p /\ r.page \in Pages
    BY <1>1 DEF DraftInv, SavesKnown, PageType, Saves
  <2> QED BY <1>1, <1>2, <2>1 DEF DraftInv, SavesKnown
<1>7. PublishAfterSave'
  BY <1>1, <1>2 DEF DraftInv, PublishAfterSave
<1>8. ASSUME NEW q \in opened' PROVE Kept(q)'
  BY <1>1, <1>8, KeptFrame DEF DraftInv, PageType
<1> QED BY <1>4, <1>5, <1>6, <1>7, <1>8 DEF DraftInv

\* A route that writes the row beside the pages' saves: what it writes counts as written,
\* and it neither counts nor takes away versions.
LEMMA WriteKeeps ==
    ASSUME DraftInv, UNCHANGED <<versions, dropped, saving, saves, publish, wanted, base>>,
           UNCHANGED page, doc' \in Docs, doc'.pvn = doc.pvn, edits' \in Nat,
           \/ UNCHANGED <<doc, written>>
           \/ written' = written \cup {doc'.bundle, doc'.voice},
           ReadType'
    PROVE  DraftInv'
<1> USE DEF page
<1>1. /\ written \subseteq written' /\ written' \in SUBSET Nat
      /\ doc'.bundle \in written' /\ doc'.voice \in written'
  BY DEF DraftInv, ServerType, RowKnown, Docs
<1>2. PageType' /\ ServerType' /\ RowKnown'
  BY <1>1 DEF DraftInv, PageType, ServerType, RowKnown
<1>3. SavesKnown' /\ PublishAfterSave'
  BY <1>1, SavesFrame, PublishFrame DEF DraftInv
<1>4. ASSUME NEW q \in opened' PROVE Kept(q)'
  BY <1>1, <1>4, KeptFrame DEF DraftInv, PageType
<1> QED BY <1>2, <1>3, <1>4 DEF DraftInv

\* Regenerating reads the row and writes back what it read, with a script of its own.
LEMMA RegenerateWrites ==
    ASSUME DraftInv, NEW p \in Pages, ReadForRegenerate(p) \/ WriteRegenerated(p)
    PROVE  DraftInv'
<1> USE DEF elsewhere, server, bounds, page, Idle
<1>1. /\ UNCHANGED <<versions, dropped, saving, saves, publish, wanted, base, toggle, detail>>
      /\ UNCHANGED page
  BY DEF ReadForRegenerate, WriteRegenerated
<1>2. /\ doc \in Docs /\ edits \in Nat /\ DOMAIN regen = Pages
      /\ regen[p].at = "read" => regen[p].voice \in Nat
  BY DEF DraftInv, ServerType, ReadType
<1>3. CASE ReadForRegenerate(p)
  <2>1. ReadType'
    BY <1>1, <1>2, <1>3 DEF ReadForRegenerate, DraftInv, ReadType, Docs
  <2> QED BY <1>1, <1>2, <1>3, <2>1, WriteKeeps DEF ReadForRegenerate
<1>4. CASE WriteRegenerated(p) /\ UNCHANGED <<doc, written, edits>>
  <2>1. regen' = [regen EXCEPT ![p] = Idle] \/ edits' = edits + 1
    BY <1>4 DEF WriteRegenerated
  <2>2. regen' = [regen EXCEPT ![p] = Idle]
    BY <1>2, <1>4, <2>1
  <2>3. ReadType'
    BY <1>1, <1>2, <1>4, <2>2 DEF DraftInv, ReadType
  <2> QED BY <1>1, <1>2, <1>4, <2>3, WriteKeeps
<1>5. CASE WriteRegenerated(p) /\ ~UNCHANGED <<doc, written, edits>>
  <2>1. /\ regen[p].at = "read" /\ edits' = edits + 1
        /\ doc' = [doc EXCEPT !.bundle = edits', !.prompt = edits', !.voice = regen[p].voice]
        /\ written' = written \cup {doc'.bundle, doc'.voice}
        /\ regen' = [regen EXCEPT ![p] = [at |-> "done", bundle |-> edits']]
    BY <1>5 DEF WriteRegenerated, Write
  <2>2. /\ doc' \in Docs /\ doc'.pvn = doc.pvn /\ doc'.bundle = edits' /\ edits' \in Nat
        /\ edits' \in written'
    <3>1. edits' \in Nat /\ regen[p].voice \in Nat
      BY <1>2, <2>1
    <3>2. doc' \in Docs /\ doc'.pvn = doc.pvn /\ doc'.bundle = edits'
      BY <1>2, <2>1, <3>1 DEF Docs
    <3> QED BY <2>1, <3>1, <3>2
  <2>3. ReadType'
    BY <1>1, <1>2, <2>1, <2>2 DEF DraftInv, ReadType
  <2> QED BY <1>1, <2>1, <2>2, <2>3, WriteKeeps
<1> QED BY <1>3, <1>4, <1>5

\* The other pages read the row and write back what they read.
LEMMA ElsewhereKeeps ==
    ASSUME DraftInv, PressPause \/ ReadForPause \/ WritePause \/ LoadDetail \/ SaveDetail
    PROVE  DraftInv'
<1> USE DEF elsewhere, server, bounds, page, Idle
<1>1. /\ UNCHANGED <<versions, dropped, saving, saves, publish, wanted, base, regen, edits>>
      /\ UNCHANGED page
  BY DEF PressPause, ReadForPause, WritePause, LoadDetail, SaveDetail
<1>2. doc \in Docs /\ edits \in Nat
  BY DEF DraftInv, ServerType
<1>3. CASE PressPause \/ ReadForPause \/ LoadDetail
  <2>1. ReadType'
    <3>1. doc.active \in BOOLEAN /\ doc.voice \in Nat /\ doc.prompt \in Nat
      BY <1>2 DEF Docs
    <3>2. CASE PressPause
      <4>1. toggle'.at = "sent" /\ toggle'.active \in BOOLEAN
        BY <3>2 DEF PressPause
      <4> QED BY <1>1, <3>2, <4>1 DEF PressPause, DraftInv, ReadType
    <3>3. CASE ReadForPause
      BY <1>1, <3>1, <3>3 DEF ReadForPause, DraftInv, ReadType
    <3>4. CASE LoadDetail
      BY <1>1, <3>1, <3>4 DEF LoadDetail, DraftInv, ReadType
    <3> QED BY <1>3, <3>2, <3>3, <3>4
  <2> QED BY <1>1, <1>2, <1>3, <2>1, WriteKeeps DEF PressPause, ReadForPause, LoadDetail
<1>4. CASE WritePause
  <2>1. /\ toggle.at = "reread"
        /\ doc' = [doc EXCEPT !.active = toggle.active, !.voice = toggle.voice,
                              !.prompt = toggle.prompt]
        /\ written' = written \cup {doc'.bundle, doc'.voice}
        /\ toggle' = Idle /\ UNCHANGED detail
    BY <1>4 DEF WritePause, Write
  <2>2. doc' \in Docs /\ doc'.pvn = doc.pvn
    BY <1>2, <2>1 DEF Docs, DraftInv, ReadType
  <2>3. ReadType'
    BY <1>1, <2>1 DEF DraftInv, ReadType
  <2> QED BY <1>1, <1>2, <2>1, <2>2, <2>3, WriteKeeps
<1>5. CASE SaveDetail
  <2>1. /\ detail.at = "loaded" /\ doc' = [doc EXCEPT !.prompt = detail.prompt]
        /\ written' = written \cup {doc'.bundle, doc'.voice}
        /\ detail' = Idle /\ UNCHANGED toggle
    BY <1>5 DEF SaveDetail, Write
  <2>2. doc' \in Docs /\ doc'.pvn = doc.pvn
    BY <1>2, <2>1 DEF Docs, DraftInv, ReadType
  <2>3. ReadType'
    BY <1>1, <2>1 DEF DraftInv, ReadType
  <2> QED BY <1>1, <1>2, <2>1, <2>2, <2>3, WriteKeeps
<1> QED BY <1>3, <1>4, <1>5

-----------------------------------------------------------------------------
(* The invariant, and what follows from it. *)

\* An agent starts within the invariant.
LEMMA DraftInit == ASSUME Init PROVE DraftInv
<1>1. PageType /\ ServerType
  <2>1. Blank \in Docs /\ <<>> \in Seq(Versions)
    BY DEF Blank, Docs
  <2> QED BY <2>1 DEF Init, PageType, ServerType
<1>2. ReadType /\ SavesKnown /\ PublishAfterSave
  BY DEF Init, ReadType, SavesKnown, PublishAfterSave, Idle
<1>3. RowKnown
  BY DEF Init, RowKnown, Blank
<1> QED BY <1>1, <1>2, <1>3 DEF Init, DraftInv

\* Every step keeps it.
LEMMA DraftNext == ASSUME DraftInv, [Next]_vars PROVE DraftInv'
<1>1. ASSUME NEW p \in Pages, UsePage(p) PROVE DraftInv'
  BY <1>1, EditKeeps, SendKeeps, SavedKeeps, RegenerateKeeps DEF UsePage
<1>2. ASSUME NEW p \in Pages, Serve(p) PROVE DraftInv'
  BY <1>2, SaveKeeps, PublishKeeps, RegenerateWrites DEF Serve
<1>3. CASE UNCHANGED vars
  <2>1. PageType' /\ ServerType' /\ ReadType' /\ RowKnown' /\ SavesKnown' /\ PublishAfterSave'
    BY <1>3 DEF vars, DraftInv, PageType, ServerType, ReadType, RowKnown, SavesKnown,
                PublishAfterSave
  <2>2. \A p \in opened' : Kept(p)'
    BY <1>3 DEF vars, DraftInv, Kept
  <2> QED BY <2>1, <2>2 DEF DraftInv
<1> QED BY <1>1, <1>2, <1>3, LoadKeeps, ElsewhereKeeps DEF Next, Rest

\* However pages, requests and other pages interleave, an agent keeps the invariant.
THEOREM DraftInvariant == Spec => []DraftInv
  BY DraftInit, DraftNext, PTL DEF Spec

\* No edit a page shows is forgotten: it was written, or refused, or is on its way.
THEOREM DraftCarried == Spec => []EditsCarried
<1>1. ASSUME DraftInv PROVE EditsCarried
  <2> SUFFICES ASSUME NEW p \in opened
               PROVE  LET OnItsWay == {r \in saves : r.page = p /\ r.at = "sent"}
                          Pending == IF timer[p] = NoTimer THEN OnItsWay
                                                           ELSE OnItsWay \cup {timer[p]}
                      IN  /\ shown[p] \in written \cup dropped \cup {r.bundle : r \in Pending}
                          /\ voice[p] \in written \cup dropped \cup {r.voice : r \in Pending}
    BY DEF EditsCarried
  <2>1. Kept(p)
    BY <1>1 DEF DraftInv
  <2> QED BY <2>1 DEF Kept
<1> QED BY <1>1, DraftInvariant, PTL

\* A page publishes only after the save of what it publishes has been answered.
THEOREM DraftPublishes == Spec => []PublishAfterSave
<1>1. DraftInv => PublishAfterSave
  BY DEF DraftInv
<1> QED BY <1>1, DraftInvariant, PTL

\* A version is the row as it is when the version appears, and is never changed.
THEOREM DraftVersions == Spec => VersionsAreSnapshots
<1>1. ASSUME DraftInv, [Next]_vars
      PROVE  [versions' # versions =>
                 versions' = Append(versions,
                    [bundle |-> doc.bundle, prompt |-> doc.prompt,
                     voice |-> doc.voice, number |-> Len(versions) + 1])]_vars
  <2>1. CASE \E p \in Pages : CommitPublish(p)
    BY <1>1, <2>1 DEF CommitPublish, DraftInv, RowKnown
  <2>2. CASE UNCHANGED versions
    BY <2>2
  <2>3. CASE \E p \in Pages : Load(p) \/ UsePage(p)
    BY <2>2, <2>3 DEF Load, UsePage, EditBundle, ChangeVoice, Autosave, SaveNow, Publish,
                      Regenerate, Regenerated, Saved, server
  <2>4. CASE \E p \in Pages : Serve(p) /\ ~CommitPublish(p)
    BY <2>2, <2>4 DEF Serve, BeginPublish, ReadForRegenerate, WriteRegenerated, SaveDraft,
                      LoseSave, server
  <2>5. CASE PressPause \/ ReadForPause \/ WritePause \/ LoadDetail \/ SaveDetail \/ Rest
             \/ UNCHANGED vars
    BY <2>2, <2>5 DEF PressPause, ReadForPause, WritePause, LoadDetail, SaveDetail, Rest,
                      server, vars
  <2> QED BY <1>1, <2>1, <2>3, <2>4, <2>5 DEF Next
<1> QED BY <1>1, DraftInvariant, PTL DEF Spec, VersionsAreSnapshots
=============================================================================
