---------------------------- MODULE ScriptEditor ----------------------------
(***************************************************************************)
(* A script on the editor's page, one action per control, and the call     *)
(* that walks it once the schema accepts it.  The runner keeps a copy, so  *)
(* no edit reaches a running call: editing stops here when a call starts.  *)
(*                                                                         *)
(* The language model drives the runner by tool calls.  It may make        *)
(* several at once and it may name any target; a lock runs them in turn,   *)
(* and each changes the section first and the model's instructions next.   *)
(***************************************************************************)
EXTENDS ScriptGraph

VARIABLES
    bundle,    \* the script on the page
    edits,
    calling,   \* whether a call runs it
    current,   \* the runner's section
    told,      \* the section whose instructions the language model has
    previous,  \* the section to fall back to while told is being changed, or Nowhere
    asked,     \* tool calls not yet run: <<source, target>>
    asks

Generable == UNION {Generated(raw) : raw \in Raws}
Importable == {raw \in Raws : Valid(raw)}

vars == <<bundle, edits, calling, current, told, previous, asked, asks>>
call == <<calling, current, told, previous, asked, asks>>

ss == bundle.sections

Init ==
    /\ bundle \in {Deterministic, Migrated, Synthesised} \cup Generable
    /\ edits = 0 /\ calling = FALSE /\ asked = {} /\ asks = 0
    /\ current = Nowhere /\ told = Nowhere /\ previous = Nowhere

(***************************************************************************)
(* The page.                                                               *)
(***************************************************************************)

Edit(new) ==
    /\ ~calling /\ edits < MaxEdits
    /\ bundle' = new
    /\ edits' = edits + 1
    /\ UNCHANGED call

EditSections(new) == Edit([bundle EXCEPT !.sections = new])
EditVars(new) == Edit([bundle EXCEPT !.vars = new])

\* Changes are addressed by key, so they reach every section of that key.
UpdatedSection(key, F(_)) == [i \in DOMAIN ss |-> IF ss[i].key = key THEN F(ss[i]) ELSE ss[i]]
SetEdges(key, edges) ==
    LET With(s) == [s EXCEPT !.edges = edges] IN EditSections(UpdatedSection(key, With))
Find(key) == ss[CHOOSE i \in DOMAIN ss : ss[i].key = key /\ \A j \in 1..i - 1 : ss[j].key # key]

Toggle(key) ==
    \E on \in BOOLEAN :
        LET Set(s) == [s EXCEPT !.enabled = on] IN EditSections(UpdatedSection(key, Set))

\* Moving a section down is moving the next one up.
Move(i) ==
    /\ i + 1 \in DOMAIN ss
    /\ EditSections(Reindexed([ss EXCEPT ![i] = ss[i + 1], ![i + 1] = ss[i]]))

\* A new section goes before the close and leads there; nothing leads to it.
AddSection ==
    LET n == Len(ss) + 1
        new == Section(Numbered(n), n, <<CLOSE>>)
        closes == {i \in DOMAIN ss : ss[i].key = CLOSE}
        at == IF closes = {} THEN n ELSE CHOOSE i \in closes : \A j \in closes : i <= j
    IN  /\ n <= MaxSections
        /\ EditSections(Reindexed(InsertAt(ss, at, new)))

\* a mutant: the edges that lead to the section stay
DeleteUnrewired(key) ==
    /\ key \notin {FAQS, CLOSE}
    /\ EditSections(Reindexed(Filtered(ss, LAMBDA s : s.key # key)))

\* Whatever led to the deleted section leads to the close.
DeleteSection(key) ==
    LET To(t) == IF t = key THEN CLOSE ELSE t
        Rewired(s) == IF s.edges = Terminal THEN s
                      ELSE [s EXCEPT !.edges = [e \in DOMAIN @ |-> To(@[e])]]
        kept == Filtered(ss, LAMBDA s : s.key # key)
    IN  /\ key \notin {FAQS, CLOSE}
        /\ EditSections(Reindexed([i \in DOMAIN kept |-> Rewired(kept[i])]))

\* The edges of a section are shown unless they are null.
Linked == {key \in Keys(ss) : Find(key).edges # Terminal}

AddEdge(key) ==
    LET others == Filtered(ss, LAMBDA s : s.key # key)
        target == IF others = <<>> THEN CLOSE ELSE others[1].key
    IN  SetEdges(key, Append(Find(key).edges, target))

UpdateEdge(key, e) ==
    \E to \in Keys(ss) \ {key} : SetEdges(key, [Find(key).edges EXCEPT ![e] = to])

RemoveEdge(key, e) == SetEdges(key, RemoveAt(Find(key).edges, e))

Defined == {bundle.vars[i].key : i \in DOMAIN bundle.vars}

AddVariable(key) ==
    /\ key \notin Defined
    /\ \E pre, required \in BOOLEAN :
          EditVars(Append(bundle.vars, [key |-> key, pre |-> pre, required |-> required,
                                        phone |-> FALSE, lead |-> FALSE]))

DeleteVariable(key) ==
    /\ key \in Defined \ {"phone", "lead_name"}
    /\ EditVars(Filtered(bundle.vars, LAMBDA v : v.key # key))

ToggleRequired(key) ==
    /\ key \in Defined \ {"phone"}
    /\ EditVars([i \in DOMAIN bundle.vars |->
                    IF bundle.vars[i].key = key
                    THEN [bundle.vars[i] EXCEPT !.required = ~@] ELSE bundle.vars[i]])

\* A prompt is typed: it may mention any variable, defined or not, or drop one.
Mention(key) ==
    \E used \in {bundle.used \cup {key}, bundle.used \ {key}} :
        used # bundle.used /\ Edit([bundle EXCEPT !.used = used])

\* The assistant's answer is a repaired copy, and is not validated.
Assist == Edit(Repair(bundle))

\* A file is validated before it replaces the script, a regenerated one by the server.
Import == \E new \in Importable : Edit(new)
Regenerate == \E new \in Generable : Edit(new)

EditPage ==
    \/ \E key \in Keys(ss) : Toggle(key) \/ DeleteSection(key)
    \/ \E i \in DOMAIN ss : Move(i)
    \/ AddSection
    \/ \E key \in Linked :
          \/ AddEdge(key)
          \/ \E e \in DOMAIN Find(key).edges : UpdateEdge(key, e) \/ RemoveEdge(key, e)
    \/ \E key \in VarKeys \cup Defined :
          AddVariable(key) \/ DeleteVariable(key) \/ ToggleRequired(key) \/ Mention(key)
    \/ Assist
    \/ Import \/ Regenerate

(***************************************************************************)
(* The runner.                                                             *)
(***************************************************************************)

Enabled(sections) == Filtered(sections, LAMBDA s : s.enabled)
Spoken(s) == s.key # FAQS

\* a mutant: the sections are taken in the order of the document
EntryUnsorted(sections) ==
    LET on == SelectSeq(Enabled(sections), Spoken)
    IN  IF on # <<>> THEN on[1].key
        ELSE IF Enabled(sections) # <<>> THEN FAQS ELSE Nowhere

\* Where a call starts: the enabled section of lowest order, the FAQs only if alone.
Entry(sections) ==
    LET on == Enabled(sections)
        AnyOne(s) == TRUE
    IN  IF on = <<>> THEN Nowhere
        ELSE IF \E i \in DOMAIN on : Spoken(on[i]) THEN Lowest(on, Spoken) ELSE Lowest(on, AnyOne)

\* allowed_transitions: the enabled neighbours.
Allowed(sections, key) ==
    {to \in UNION {Targets(sections[i]) : i \in {j \in DOMAIN sections : sections[j].key = key}} :
        to # FAQS /\ to \in Keys(Enabled(sections))}

StartCall ==
    /\ ~calling /\ Valid(bundle)
    /\ calling' = TRUE
    /\ current' = Entry(ss) /\ told' = Entry(ss)
    /\ UNCHANGED <<bundle, edits, previous, asked, asks>>

\* The language model calls the tool from the section it was told of (any other
\* source is refused as a stale one is), for any target.
Ask(target) ==
    /\ calling /\ asks < MaxAsks
    /\ asked' = asked \cup {<<told, target>>}
    /\ asks' = asks + 1
    /\ UNCHANGED <<bundle, edits, calling, current, told, previous>>

\* The lock is free: the call is refused, or moves the runner and starts to update
\* the instructions.
Transition(request) ==
    /\ request \in asked /\ previous = Nowhere
    /\ asked' = asked \ {request}
    /\ IF current # Nowhere /\ request[1] = current /\ request[2] \in Allowed(ss, current)
       THEN current' = request[2] /\ previous' = current
       ELSE UNCHANGED <<current, previous>>
    /\ UNCHANGED <<bundle, edits, calling, told, asks>>

Updated ==
    /\ previous # Nowhere
    /\ told' = current /\ previous' = Nowhere
    /\ UNCHANGED <<bundle, edits, calling, current, asked, asks>>

\* a mutant: a failed update leaves the runner in the new section
UpdateFailedStays ==
    /\ previous # Nowhere
    /\ previous' = Nowhere
    /\ UNCHANGED <<bundle, edits, calling, current, told, asked, asks>>

\* The update fails or is cancelled: the runner goes back. The session is taken to be still
\* on its old instructions then, as the code assumes; what the library did is not in src/.
UpdateFailed ==
    /\ previous # Nowhere
    /\ current' = previous /\ previous' = Nowhere
    /\ UNCHANGED <<bundle, edits, calling, told, asked, asks>>

RunCall ==
    \/ StartCall
    \/ \E target \in Keys(ss) : Ask(target)
    \/ \E request \in asked : Transition(request)
    \/ Updated
    \/ UpdateFailed

Next == EditPage \/ RunCall

Spec == Init /\ [][Next]_vars
=============================================================================
