----------------------------- MODULE ScriptProps -----------------------------
(***************************************************************************)
(* What must hold of scripts on the page and of the call that walks one.   *)
(***************************************************************************)
EXTENDS ScriptEditor

\* A script always has FAQs that lead nowhere and one phone variable, and, as long as
\* there is a close to fall back to, no edge that leads to a section that is not there,
\* however sections are added, moved, rewired, deleted and repaired; a call is in a
\* section of its script.
TypeOK ==
    /\ \A i \in DOMAIN ss :
          /\ ss[i].order \in Nat /\ ss[i].enabled \in BOOLEAN
          /\ Targets(ss[i]) \subseteq Keys(ss) \cup {CLOSE}
          /\ ss[i].key = FAQS => ss[i].edges = Terminal
    /\ FAQS \in Keys(ss)
    /\ CLOSE \in Keys(ss) => \A i \in DOMAIN ss : Targets(ss[i]) \subseteq Keys(ss)
    /\ Cardinality({i \in DOMAIN bundle.vars : bundle.vars[i].phone}) = 1
    /\ {current, told, previous} \subseteq Keys(ss) \cup {Nowhere}
    /\ asked \subseteq (Keys(ss) \cup {Nowhere}) \X Keys(ss)
    /\ edits \in 0..MaxEdits /\ asks \in 0..MaxAsks /\ calling \in BOOLEAN

\* What the schema calls reachable the runner reaches: although the two find their
\* entry and follow edges by different rules, a call of an accepted script whose
\* sections are all enabled can get to every section but the FAQs, and only there.
RunnerCoversScript ==
    Valid(bundle) /\ (\A i \in DOMAIN ss : ss[i].enabled) /\ Len(ss) > 1 =>
        LET walk[n \in 0..Len(ss)] ==
              IF n = 0 THEN {Entry(ss)}
              ELSE LET so_far == walk[n - 1]
                   IN  so_far \cup UNION {Allowed(ss, key) : key \in so_far}
        IN  walk[Len(ss)] = Keys(ss) \ {FAQS}

\* The language model never acts on the instructions of one section while the runner
\* stands in another: tool calls made together, stale ones and failed updates
\* included.
ToldIsCurrent ==
    IF previous = Nowhere THEN told = current
    ELSE told = previous /\ current \in Allowed(ss, previous)

\* The two sets of rules have nothing in common: what the routes that write accept,
\* the route that validates refuses, and the other way round.
NeverBothValid == ~(Valid(bundle) /\ ValidInPackage(bundle))
==============================================================================
