----------------------------- MODULE ScriptGraph -----------------------------
(***************************************************************************)
(* An agent's script: a graph of sections and a list of variables.  The    *)
(* editor changes it one click at a time, the language model's raw scripts *)
(* are repaired, the schema decides what may be stored, and the voice      *)
(* runtime walks the stored graph during a call.                           *)
(*                                                                         *)
(* A section is [key, order, enabled, edges]; its prose is left out, and   *)
(* with it the rules about wording and language.  A key is a tuple of      *)
(* words, so that a suffixed key is the key with one word more.            *)
(***************************************************************************)
EXTENDS Integers, Sequences, FiniteSets, SequencesExt

CONSTANTS
    Terminal,    \* null edges
    Nowhere,     \* no section
    Raws,        \* scripts as the language model or a file may give them
    VarKeys,     \* variables a user may add
    MaxSections, MaxEdits, MaxAsks   \* bounds

\* The shape of a script: a list of sections and one of variables.
IsList(list) == list \in Seq(ToSet(list))
IsSection(s) ==
    /\ DOMAIN s = {"key", "order", "enabled", "edges"}
    /\ s.enabled \in BOOLEAN
    /\ s.edges = Terminal \/ IsList(s.edges)
IsVariable(v) ==
    /\ DOMAIN v = {"key", "pre", "required", "phone", "lead"}
    /\ v.phone \in BOOLEAN
IsScript(b) ==
    /\ DOMAIN b = {"sections", "vars", "used"}
    /\ IsList(b.sections) /\ \A i \in DOMAIN b.sections : IsSection(b.sections[i])
    /\ IsList(b.vars) /\ \A i \in DOMAIN b.vars : IsVariable(b.vars[i])

ASSUME ScriptAssumption ==
    /\ \A raw \in Raws : IsScript(raw)
    /\ MaxSections \in Nat /\ MaxEdits \in Nat /\ MaxAsks \in Nat

FAQS == <<"faqs">>
CLOSE == <<"close">>
Numbered(n) == <<"section", n>>

Section(key, order, edges) ==
    [key |-> key, order |-> order, enabled |-> TRUE, edges |-> edges]
Keys(ss) == {ss[i].key : i \in DOMAIN ss}
Targets(s) == IF s.edges = Terminal THEN {} ELSE ToSet(s.edges)
Reindexed(ss) == [i \in DOMAIN ss |-> [ss[i] EXCEPT !.order = i]]

\* The elements of a list that stand at the given places, and those that satisfy P, in
\* their order: SelectSeq without its recursion, which no prover expands.
Picked(list, at) ==
    LET Rank(i) == Cardinality({j \in at : j <= i})
    IN  [k \in 1..Cardinality(at) |-> list[CHOOSE i \in at : Rank(i) = k]]
Filtered(list, P(_)) == Picked(list, {i \in DOMAIN list : P(list[i])})

Phone == [key |-> "phone", pre |-> TRUE, required |-> TRUE, phone |-> TRUE, lead |-> FALSE]
LeadName ==
    [key |-> "lead_name", pre |-> TRUE, required |-> FALSE, phone |-> FALSE, lead |-> TRUE]

(***************************************************************************)
(* The schema.                                                             *)
(***************************************************************************)

\* What is reached from section key start within n steps.
Reached(ss, start, n) ==
    LET r[k \in 0..n] ==
          IF k = 0 THEN {start}
          ELSE LET so_far == r[k - 1]
               IN  so_far \cup UNION {Targets(ss[i]) : i \in {j \in DOMAIN ss : ss[j].key \in so_far}}
    IN  r[n]

Lowest(ss, P(_)) ==
    LET those == {i \in DOMAIN ss : P(ss[i])}
    IN  ss[CHOOSE i \in those : \A j \in those : ss[i].order <= ss[j].order].key

ValidVars(vars, used) ==
    /\ IsInjective([i \in DOMAIN vars |-> vars[i].key])
    /\ \A i \in DOMAIN vars :
          /\ vars[i].phone => vars[i].key = "phone" /\ vars[i].pre /\ vars[i].required
          /\ vars[i].lead => vars[i].key = "lead_name"
    /\ Cardinality({i \in DOMAIN vars : vars[i].phone}) = 1
    /\ Cardinality({i \in DOMAIN vars : vars[i].lead}) = 1
    /\ used \subseteq {vars[i].key : i \in DOMAIN vars}

\* Every section but the FAQs can be reached from the one of lowest order, whether
\* sections are enabled or not.
ValidSections(ss) ==
    /\ ss # <<>>
    /\ IsInjective([i \in DOMAIN ss |-> ss[i].key])
    /\ {ss[i].order : i \in DOMAIN ss} = DOMAIN ss
    /\ \A i \in DOMAIN ss : ss[i].edges # <<>> /\ Targets(ss[i]) \subseteq Keys(ss)
    /\ LET AnySection(s) == TRUE
       IN  Keys(ss) \ {FAQS} \subseteq Reached(ss, Lowest(ss, AnySection), Len(ss))
    /\ \E i \in DOMAIN ss : ss[i].key = FAQS /\ ss[i].edges = Terminal

\* AgentBundleSchema, the schema of the routes that write and of the editor.
Valid(b) == ValidSections(b.sections) /\ ValidVars(b.vars, b.used)

\* a mutant: a section in the middle may be terminal
ValidInPackageLoosely(b) ==
    LET ss == b.sections
    IN  /\ ss # <<>>
        /\ IsInjective([i \in DOMAIN ss |-> ss[i].key])
        /\ \A i \in DOMAIN ss : Targets(ss[i]) \subseteq Keys(ss)
        /\ ss[Len(ss)].edges = Terminal
        /\ \E i \in DOMAIN ss : ss[i].key = CLOSE /\ ss[i].edges = Terminal

\* validateAgentBundle of the package agent-schema: a second set of rules, that of
\* POST /api/agents/[id]/validate.
ValidInPackage(b) ==
    LET ss == b.sections
        vars == b.vars
        last == Len(ss)
    IN  /\ ss # <<>>
        /\ IsInjective([i \in DOMAIN ss |-> ss[i].key])
        /\ {ss[i].order : i \in DOMAIN ss} = DOMAIN ss
        /\ \A i \in DOMAIN ss : Targets(ss[i]) \subseteq Keys(ss)
        /\ \A i \in 1..last - 1 : ss[i].edges \notin {Terminal, <<>>}
        /\ ss[last].edges = Terminal
        /\ FAQS \in Keys(ss)
        /\ \E i \in DOMAIN ss : ss[i].key = CLOSE /\ ss[i].edges = Terminal
        /\ IsInjective([i \in DOMAIN vars |-> vars[i].key])
        /\ \E i \in DOMAIN vars :
              /\ vars[i] = [Phone EXCEPT !.lead = vars[i].lead]
              /\ \A j \in 1..i - 1 : ~vars[j].phone

(***************************************************************************)
(* Repair of what the language model wrote.                                *)
(***************************************************************************)

\* The keys, a repeated one suffixed once with its place.
Deduped(keys) ==
    FoldLeft(LAMBDA done, key :
                 Append(done, IF key \in ToSet(done) THEN Append(key, Len(done) + 1) ELSE key),
             <<>>, keys)

WithKeys(ss) ==
    LET keys == Deduped([i \in DOMAIN ss |-> ss[i].key])
    IN  [i \in DOMAIN ss |-> [ss[i] EXCEPT !.key = keys[i]]]

\* The edges that lead somewhere, or one to the default target.
Cleaned(edges, keys, default) ==
    LET kept == IF edges = Terminal THEN <<>>
                ELSE Filtered(edges, LAMBDA to : to \in keys)
    IN  IF kept = <<>> THEN <<default>> ELSE kept

Ensured(ss, key) ==
    IF key \in Keys(ss) THEN ss ELSE Append(ss, Section(key, Len(ss) + 1, Terminal))

\* The default target of a section is the next one that is neither FAQs nor close.
Repaired(raw) ==
    LET ss == Reindexed(Ensured(Ensured(WithKeys(raw), FAQS), CLOSE))
        Following(i) == LET later == {j \in i + 1..Len(ss) : ss[j].key \notin {FAQS, CLOSE}}
                        IN  IF later = {} THEN CLOSE
                            ELSE ss[CHOOSE j \in later : \A k \in later : j <= k].key
    IN  [i \in DOMAIN ss |->
            [ss[i] EXCEPT !.edges = IF ss[i].key \in {FAQS, CLOSE} THEN Terminal
                                    ELSE Cleaned(@, Keys(ss), Following(i))]]

\* The variables: keys once, then exactly one phone and one lead_name.
RepairedVars(raw) ==
    LET kept == Picked(raw, {i \in DOMAIN raw : \A j \in 1..i - 1 : raw[j].key # raw[i].key})
        once == [i \in DOMAIN kept |->
                    [kept[i] EXCEPT !.phone = FALSE, !.lead = FALSE,
                                    !.required = kept[i].phone \/ kept[i].required]]
        Put(vs, v) == [i \in DOMAIN vs |-> IF vs[i].key = v.key THEN v ELSE vs[i]]
        Has(vs, v) == \E i \in DOMAIN vs : vs[i].key = v.key
        phoned == IF Has(once, Phone) THEN Put(once, Phone) ELSE <<Phone>> \o once
    IN  IF Has(phoned, LeadName) THEN Put(phoned, LeadName) ELSE Append(phoned, LeadName)

Repair(b) == [b EXCEPT !.sections = Repaired(@), !.vars = RepairedVars(@)]

\* The repair of the package agent-schema: a straight line instead, the FAQs before
\* the close.
PackageDefault ==
    << Section(<<"context_orient">>, 1, << <<"qualify_need">> >>),
       Section(<<"qualify_need">>, 2, <<CLOSE>>),
       Section(CLOSE, 3, Terminal) >>

Straightened(raw) ==
    LET ss == Reindexed(WithKeys(raw))
        last == Len(ss)
    IN  [i \in DOMAIN ss |->
            [ss[i] EXCEPT !.edges =
                IF i = last THEN Terminal ELSE Cleaned(@, Keys(ss), ss[i + 1].key)]]

WithFaqs(ss) ==
    LET closes == {i \in DOMAIN ss : ss[i].key = CLOSE}
        at == IF closes = {} THEN Len(ss) + 1 ELSE CHOOSE i \in closes : \A j \in closes : i <= j
        before == [i \in 1..at - 1 |->
                      IF i = at - 1 THEN [ss[i] EXCEPT !.edges = <<FAQS>>] ELSE ss[i]]
        after == IF closes = {} THEN <<Section(CLOSE, 0, Terminal)>>
                 ELSE <<[ss[at] EXCEPT !.edges = Terminal]>> \o SubSeq(ss, at + 1, Len(ss))
    IN  before \o <<Section(FAQS, 0, <<CLOSE>>)>> \o after

RepairedInPackage(raw) ==
    LET line == IF raw = <<>> THEN PackageDefault ELSE Straightened(raw)
        ss == Reindexed(IF FAQS \in Keys(line) THEN line ELSE WithFaqs(line))
    IN  [ss EXCEPT ![Len(ss)].edges = Terminal]

(***************************************************************************)
(* Scripts the program itself provides.                                    *)
(***************************************************************************)

\* The script of templates and tests.
Deterministic ==
    [sections |->
        << Section(<<"greeting">>, 1, << <<"qualify">>, CLOSE >>),
           Section(<<"qualify">>, 2, << <<"confirm">>, FAQS >>),
           Section(<<"confirm">>, 3, <<CLOSE>>),
           Section(FAQS, 4, Terminal),
           Section(CLOSE, 5, Terminal) >>,
     vars |-> << Phone, LeadName, [key |-> "need", pre |-> FALSE, required |-> FALSE,
                                   phone |-> FALSE, lead |-> FALSE] >>,
     used |-> {"phone", "lead_name"}]

\* The script the migration gives an agent that has none.
Migrated ==
    [sections |-> << Section(<<"greeting">>, 1, <<FAQS, CLOSE>>),
                     Section(FAQS, 2, Terminal),
                     Section(CLOSE, 3, Terminal) >>,
     vars |-> <<Phone, LeadName>>,
     used |-> {"phone", "lead_name"}]

\* The script the editor makes up for an agent that has none.
Synthesised == Repair([sections |-> <<>>, vars |-> <<>>, used |-> {"lead_name"}])

\* What generation returns for a raw script: itself, or its repair, if that passes.
Generated(raw) ==
    IF Valid(raw) THEN {raw} ELSE IF Valid(Repair(raw)) THEN {Repair(raw)} ELSE {}
==============================================================================
