---------------------------- MODULE ScriptProofs ----------------------------
(***************************************************************************)
(* What holds of a script on the page and of the call that walks it,       *)
(* for all raw scripts, variables and bounds.                              *)
(***************************************************************************)
EXTENDS ScriptProps, FiniteSetTheorems, SequenceTheorems, WellFoundedInduction, TLAPS

(***************************************************************************)
(* Lists.                                                                  *)
(***************************************************************************)

\* What is defined on 1..n is a list.
LEMMA ListOf ==
    ASSUME NEW n \in Nat, NEW f, f = [i \in 1..n |-> f[i]]
    PROVE  IsList(f) /\ Len(f) = n /\ DOMAIN f = 1..n
<1>1. DOMAIN f = 1..n
  OBVIOUS
<1>2. \A i \in 1..n : f[i] \in ToSet(f)
  BY <1>1 DEF ToSet
<1>3. f \in [1..n -> ToSet(f)]
  BY <1>2
<1>4. f \in Seq(ToSet(f)) /\ Len(f) = n
  BY <1>3
<1> QED
  BY <1>1, <1>4 DEF IsList

\* A list is defined on 1..n.
LEMMA ListIs ==
    ASSUME NEW list, IsList(list)
    PROVE  /\ Len(list) \in Nat /\ DOMAIN list = 1..Len(list)
           /\ list = [i \in 1..Len(list) |-> list[i]]
BY LenProperties DEF IsList

\* A list of elements of S.
LEMMA ListsAre ==
    ASSUME NEW S, NEW list
    PROVE  list \in Seq(S) <=> IsList(list) /\ ToSet(list) \subseteq S
<1>1. ASSUME list \in Seq(S) PROVE IsList(list) /\ ToSet(list) \subseteq S
  <2>1. Len(list) \in Nat /\ DOMAIN list = 1..Len(list) /\ list = [i \in 1..Len(list) |-> list[i]]
    BY <1>1, LenProperties
  <2>2. \A i \in 1..Len(list) : list[i] \in S
    BY <1>1, ElementOfSeq
  <2> QED
    BY <2>1, <2>2, ListOf DEF ToSet
<1>2. ASSUME IsList(list), ToSet(list) \subseteq S PROVE list \in Seq(S)
  BY <1>2, SeqMonotonic DEF IsList
<1> QED
  BY <1>1, <1>2

\* One section more at the end.
LEMMA ListAppend ==
    ASSUME NEW list, IsList(list), NEW new
    PROVE  /\ IsList(Append(list, new)) /\ Len(Append(list, new)) = Len(list) + 1
           /\ \A i \in 1..Len(list) : Append(list, new)[i] = list[i]
           /\ Append(list, new)[Len(list) + 1] = new
<1> DEFINE S == ToSet(list) \cup {new}
<1>1. list \in Seq(S)
  BY SeqMonotonic DEF IsList
<1>2. /\ Append(list, new) \in Seq(S) /\ Len(Append(list, new)) = Len(list) + 1
      /\ \A i \in 1..Len(list) : Append(list, new)[i] = list[i]
      /\ Append(list, new)[Len(list) + 1] = new
  BY <1>1, AppendProperties
<1>3. Len(list) + 1 \in Nat
  BY ListIs
<1>4. Append(list, new) = [i \in 1..Len(list) + 1 |-> Append(list, new)[i]]
  BY <1>2, LenProperties
<1> QED
  BY <1>2, <1>3, <1>4, ListOf

\* One section more in between.
LEMMA ListInsert ==
    ASSUME NEW list, IsList(list), NEW at \in 1..Len(list) + 1, NEW new
    PROVE  /\ IsList(InsertAt(list, at, new)) /\ DOMAIN InsertAt(list, at, new) = 1..Len(list) + 1
           /\ \A j \in 1..Len(list) + 1 :
                 InsertAt(list, at, new)[j] = IF j < at THEN list[j]
                                              ELSE IF j = at THEN new ELSE list[j - 1]
<1> DEFINE S == ToSet(list) \cup {new}
<1>0. Len(list) \in Nat /\ at \in Nat /\ 1 <= at /\ at <= Len(list) + 1
  BY ListIs
<1>1. list \in Seq(S)
  BY ListsAre
<1>2. \A i \in 1..Len(list) : list[i] \in S
  BY <1>1, ElementOfSeq
<1>3. PICK before : before = SubSeq(list, 1, at - 1)
  OBVIOUS
<1>4. /\ before \in Seq(S) /\ Len(before) = at - 1
      /\ \A i \in 1..at - 1 : before[i] = list[i]
  <2>1. \A i \in 1..at - 1 : list[i] \in S
    BY <1>0, <1>2
  <2> QED
    BY <1>0, <1>3, <2>1, SubSeqProperties
<1>5. PICK after : after = SubSeq(list, at, Len(list))
  OBVIOUS
<1>6. /\ after \in Seq(S) /\ Len(after) = Len(list) - at + 1
      /\ \A i \in 1..Len(list) - at + 1 : after[i] = list[at + i - 1]
  <2>1. \A i \in at..Len(list) : list[i] \in S
    BY <1>0, <1>2
  <2>2. /\ after \in Seq(S)
        /\ Len(after) = IF at <= Len(list) THEN Len(list) - at + 1 ELSE 0
        /\ \A i \in 1..Len(list) - at + 1 : after[i] = list[at + i - 1]
    BY <1>0, <1>5, <2>1, SubSeqProperties
  <2> QED
    BY <1>0, <2>2
<1>7. <<new>> \in Seq(S) /\ Len(<<new>>) = 1 /\ <<new>>[1] = new
  OBVIOUS
<1>8. PICK upto : upto = before \o <<new>>
  OBVIOUS
<1>9. /\ upto \in Seq(S) /\ Len(upto) = at
      /\ \A i \in 1..at : upto[i] = IF i < at THEN list[i] ELSE new
  <2>1. /\ upto \in Seq(S) /\ Len(upto) = Len(before) + 1
        /\ \A i \in 1..Len(before) + 1 :
              upto[i] = IF i <= Len(before) THEN before[i] ELSE <<new>>[i - Len(before)]
    BY <1>4, <1>7, <1>8, ConcatProperties
  <2>2. Len(before) = at - 1 /\ Len(before) + 1 = at
    BY <1>0, <1>4
  <2>3. ASSUME NEW i \in 1..at PROVE upto[i] = IF i < at THEN list[i] ELSE new
    <3>1. CASE i < at
      BY <1>0, <1>4, <2>1, <2>2, <3>1
    <3>2. CASE ~(i < at)
      <4>1. i = at /\ ~(at <= at - 1) /\ at - (at - 1) = 1
        BY <1>0, <3>2
      <4> QED
        BY <1>0, <1>7, <2>1, <2>2, <4>1
    <3> QED
      BY <3>1, <3>2
  <2> QED
    BY <2>1, <2>2, <2>3
<1>10. PICK more : more = InsertAt(list, at, new)
  OBVIOUS
<1>11. /\ more \in Seq(S) /\ Len(more) = Len(list) + 1
       /\ \A j \in 1..Len(list) + 1 : more[j] = IF j <= at THEN upto[j] ELSE after[j - at]
  <2>1. more = upto \o after
    BY <1>3, <1>5, <1>8, <1>10 DEF InsertAt
  <2>2. /\ more \in Seq(S) /\ Len(more) = Len(upto) + Len(after)
        /\ \A j \in 1..Len(upto) + Len(after) :
              more[j] = IF j <= Len(upto) THEN upto[j] ELSE after[j - Len(upto)]
    BY <1>6, <1>9, <2>1, ConcatProperties
  <2>3. Len(upto) = at /\ Len(upto) + Len(after) = Len(list) + 1
    BY <1>0, <1>6, <1>9
  <2> QED
    BY <2>2, <2>3
<1>12. ASSUME NEW j \in 1..Len(list) + 1
       PROVE  more[j] = IF j < at THEN list[j] ELSE IF j = at THEN new ELSE list[j - 1]
  <2>1. CASE j <= at
    BY <1>0, <1>9, <1>11, <2>1
  <2>2. CASE ~(j <= at)
    <3>1. j - at \in 1..Len(list) - at + 1 /\ at + (j - at) - 1 = j - 1 /\ ~(j < at) /\ j # at
      BY <1>0, <2>2
    <3> QED
      BY <1>6, <1>11, <2>2, <3>1
  <2> QED
    BY <2>1, <2>2
<1>13. IsList(more) /\ DOMAIN more = 1..Len(list) + 1
  BY <1>11, ListsAre, LenProperties
<1> QED
  BY <1>10, <1>12, <1>13

\* Renumbering leaves a list.
LEMMA ListReindexed ==
    ASSUME NEW list, IsList(list)
    PROVE  IsList(Reindexed(list)) /\ Len(Reindexed(list)) = Len(list)
<1>1. Len(list) \in Nat /\ DOMAIN list = 1..Len(list)
  BY ListIs
<1>2. Reindexed(list) = [i \in 1..Len(list) |-> Reindexed(list)[i]]
  BY <1>1 DEF Reindexed
<1> QED
  BY <1>1, <1>2, ListOf

\* A set of places has a least one.
LEMMA LeastOf ==
    ASSUME NEW T \in SUBSET Nat, T # {}
    PROVE  \E m \in T : \A n \in T : m <= n
<1>1. PICK R : R = {p \in Nat \X Nat : p[1] < p[2]}
  OBVIOUS
<1>2. IsWellFoundedOn(R, Nat)
  BY <1>1, NatLessThanWellFounded DEF OpToRel
<1>3. PICK m \in T : \A n \in T : ~(<<n, m>> \in R)
  BY <1>2, WFMin
<1>4. \A n \in T : ~(n < m)
  BY <1>1, <1>3
<1> QED
  BY <1>4

\* The place of an element among those picked, and the element of a place.
Rank(at, i) == Cardinality({j \in at : j <= i})
Place(at, k) == CHOOSE i \in at : Rank(at, i) = k

\* Ranks number the places from 1.
LEMMA RanksNumber ==
    ASSUME NEW n \in Nat, NEW at \in SUBSET (1..n)
    PROVE  /\ Cardinality(at) \in Nat
           /\ \A i \in at : Rank(at, i) \in 1..Cardinality(at) /\ Place(at, Rank(at, i)) = i
           /\ \A k \in 1..Cardinality(at) : Place(at, k) \in at /\ Rank(at, Place(at, k)) = k
<1> DEFINE Upto(i) == {j \in at : j <= i}
<1>1. IsFiniteSet(at) /\ Cardinality(at) \in Nat
  <2>1. 1 \in Int /\ n \in Int
    OBVIOUS
  <2> QED
    BY <2>1, FS_Interval, FS_Subset, FS_CardinalityType
<1>2. \A i \in at : /\ IsFiniteSet(Upto(i)) /\ Cardinality(Upto(i)) \in Nat
                    /\ Cardinality(Upto(i)) <= Cardinality(at)
  <2> TAKE i \in at
  <2>1. Upto(i) \in SUBSET at
    OBVIOUS
  <2> QED
    BY <1>1, <2>1, FS_Subset, FS_CardinalityType
<1>3. \A i \in at : Cardinality(Upto(i)) # 0
  BY <1>2, FS_EmptySet
<1>4. \A i, j \in at : i < j => Cardinality(Upto(i)) # Cardinality(Upto(j))
  <2> SUFFICES ASSUME NEW i \in at, NEW j \in at, i < j
               PROVE  Cardinality(Upto(i)) # Cardinality(Upto(j))
    OBVIOUS
  <2>0. i \in Int /\ j \in Int /\ \A x \in at : x \in Int
    OBVIOUS
  <2>1. \A x \in at : x <= i => x <= j
    BY <2>0
  <2>2. j \in Upto(j) /\ j \notin Upto(i)
    BY <2>0
  <2>3. Upto(i) \in SUBSET Upto(j)
    BY <2>1
  <2> QED
    BY <1>2, <2>2, <2>3, FS_Subset
<1>5. \A i \in at : Rank(at, i) = Cardinality(Upto(i))
  BY DEF Rank
<1> HIDE DEF Upto
<1>6. \A i \in at : Rank(at, i) \in 1..Cardinality(at)
  BY <1>1, <1>2, <1>3, <1>5
<1>7. \A i, j \in at : Rank(at, i) = Rank(at, j) => i = j
  BY <1>4, <1>5
<1>8. \A k \in 1..Cardinality(at) : \E i \in at : Rank(at, i) = k
  <2>1. PICK f : f = [i \in at |-> Rank(at, i)]
    OBVIOUS
  <2>2. f \in Injection(at, 1..Cardinality(at))
    BY <1>6, <1>7, <2>1 DEF Injection, IsInjective
  <2>3. IsFiniteSet(1..Cardinality(at)) /\ Cardinality(1..Cardinality(at)) = Cardinality(at)
    <3>1. 1 \in Int /\ Cardinality(at) \in Int
      BY <1>1
    <3> QED
      BY <1>1, <3>1, FS_Interval
  <2>4. f \in Surjection(at, 1..Cardinality(at))
    BY <2>2, <2>3, FS_Injection
  <2> QED
    BY <2>1, <2>4 DEF Surjection
<1> QED
  BY <1>1, <1>6, <1>7, <1>8 DEF Place

\* What is picked: a list of the elements of those places, each once.
LEMMA PickedIs ==
    ASSUME NEW list, IsList(list), NEW at \in SUBSET DOMAIN list
    PROVE  /\ IsList(Picked(list, at)) /\ DOMAIN Picked(list, at) = 1..Cardinality(at)
           /\ \A k \in DOMAIN Picked(list, at) :
                 /\ Place(at, k) \in at /\ Rank(at, Place(at, k)) = k
                 /\ Picked(list, at)[k] = list[Place(at, k)]
           /\ \A i \in at : /\ Rank(at, i) \in DOMAIN Picked(list, at)
                            /\ Picked(list, at)[Rank(at, i)] = list[i]
<1>1. Len(list) \in Nat /\ at \in SUBSET (1..Len(list))
  BY ListIs
<1>2. Picked(list, at) = [k \in 1..Cardinality(at) |-> list[Place(at, k)]]
  BY DEF Picked, Place, Rank
<1>3. Picked(list, at) = [k \in 1..Cardinality(at) |-> Picked(list, at)[k]]
  BY <1>2
<1>4. Cardinality(at) \in Nat
  BY <1>1, RanksNumber
<1>5. IsList(Picked(list, at))
  BY <1>3, <1>4, ListOf
<1> QED
  BY <1>1, <1>2, <1>5, RanksNumber

\* What is picked has the elements of those places and no others.
LEMMA PickedHas ==
    ASSUME NEW list, IsList(list), NEW at \in SUBSET DOMAIN list
    PROVE  /\ IsList(Picked(list, at))
           /\ \A k \in DOMAIN Picked(list, at) : \E i \in at : Picked(list, at)[k] = list[i]
           /\ \A i \in at : \E k \in DOMAIN Picked(list, at) : Picked(list, at)[k] = list[i]
<1>1. PICK kept : kept = Picked(list, at)
  OBVIOUS
<1>2. /\ IsList(kept)
      /\ \A k \in DOMAIN kept : Place(at, k) \in at /\ kept[k] = list[Place(at, k)]
      /\ \A i \in at : Rank(at, i) \in DOMAIN kept /\ kept[Rank(at, i)] = list[i]
  BY <1>1, PickedIs
<1>3. /\ \A k \in DOMAIN kept : \E i \in at : kept[k] = list[i]
      /\ \A i \in at : \E k \in DOMAIN kept : kept[k] = list[i]
  BY <1>2
<1> QED
  BY <1>1, <1>2, <1>3

(***************************************************************************)
(* What repair, generation and the schema make of a script.                *)
(***************************************************************************)

\* A list of sections and one of variables, whatever they say.
IsSections(list) == IsList(list) /\ \A i \in DOMAIN list : IsSection(list[i])
IsVariables(list) == IsList(list) /\ \A i \in DOMAIN list : IsVariable(list[i])

\* What the page keeps of the sections.
IsWired(list) ==
    /\ IsList(list)
    /\ \A i \in DOMAIN list :
          /\ IsSection(list[i])
          /\ Targets(list[i]) \subseteq Keys(list) \cup {CLOSE}
          /\ list[i].key = FAQS => list[i].edges = Terminal
    /\ FAQS \in Keys(list)
IsGraph(list) == IsWired(list) /\ \A i \in DOMAIN list : list[i].order \in Nat

\* And of the variables: one, of key phone, is the phone.
HasOnePhone(list) ==
    /\ IsList(list)
    /\ \A i \in DOMAIN list :
          IsVariable(list[i]) /\ (list[i].phone => list[i].key = "phone")
    /\ \E i \in DOMAIN list : list[i].phone /\ \A j \in DOMAIN list : list[j].phone => j = i

IsPage(b) ==
    /\ DOMAIN b = {"sections", "vars", "used"}
    /\ IsGraph(b.sections) /\ HasOnePhone(b.vars)

\* The edges after cleaning lead to given keys or to the default target.
LEMMA CleanedIs ==
    ASSUME NEW edges, edges = Terminal \/ IsList(edges), NEW keys, NEW default
    PROVE  /\ IsList(Cleaned(edges, keys, default))
           /\ ToSet(Cleaned(edges, keys, default)) \subseteq keys \cup {default}
<1>1. IsList(<<default>>) /\ ToSet(<<default>>) = {default}
  BY DEF IsList, ToSet
<1>2. CASE edges = Terminal
  BY <1>1, <1>2 DEF Cleaned
<1>3. CASE edges # Terminal
  <2>1. PICK at : at = {i \in DOMAIN edges : edges[i] \in keys}
    OBVIOUS
  <2>2. IsList(edges) /\ at \in SUBSET DOMAIN edges
    BY <1>3, <2>1
  <2>3. PICK kept : kept = Picked(edges, at)
    OBVIOUS
  <2>4. IsList(kept) /\ ToSet(kept) \subseteq keys
    BY <2>1, <2>2, <2>3, PickedIs DEF ToSet
  <2>5. Cleaned(edges, keys, default) = IF kept = <<>> THEN <<default>> ELSE kept
    BY <1>3, <2>1, <2>3 DEF Cleaned, Filtered
  <2> QED
    BY <1>1, <2>4, <2>5
<1> QED
  BY <1>2, <1>3

\* The section that must be there is there.
LEMMA EnsuredIs ==
    ASSUME NEW list, IsSections(list), NEW key
    PROVE  /\ IsSections(Ensured(list, key))
           /\ Keys(list) \cup {key} \subseteq Keys(Ensured(list, key))
<1>1. CASE key \in Keys(list)
  BY <1>1 DEF Ensured
<1>2. CASE key \notin Keys(list)
  <2>1. PICK new : new = Section(key, Len(list) + 1, Terminal)
    OBVIOUS
  <2>2. PICK more : more = Append(list, new)
    OBVIOUS
  <2>3. Ensured(list, key) = more
    BY <1>2, <2>1, <2>2 DEF Ensured
  <2>4. /\ IsList(more) /\ Len(more) = Len(list) + 1
        /\ \A i \in 1..Len(list) : more[i] = list[i]
        /\ more[Len(list) + 1] = new
    BY <2>2, ListAppend DEF IsSections
  <2>5. /\ Len(list) \in Nat /\ DOMAIN list = 1..Len(list)
        /\ DOMAIN more = 1..Len(list) + 1
    BY <2>4, ListIs DEF IsSections
  <2>6. IsSection(new) /\ new.key = key
    BY <2>1 DEF Section, IsSection
  <2>7. \A i \in DOMAIN more : i \in DOMAIN list \/ i = Len(list) + 1
    BY <2>5
  <2>8. IsSections(more)
    BY <2>4, <2>5, <2>6, <2>7 DEF IsSections
  <2>9. \A i \in DOMAIN list : i \in DOMAIN more /\ more[i].key = list[i].key
    BY <2>4, <2>5
  <2>10. Len(list) + 1 \in DOMAIN more
    BY <2>5
  <2> QED
    BY <2>3, <2>4, <2>6, <2>8, <2>9, <2>10 DEF Keys
<1> QED
  BY <1>1, <1>2

\* Renumbering changes the orders alone.
LEMMA ReindexedIs ==
    ASSUME NEW list, IsSections(list)
    PROVE  /\ IsSections(Reindexed(list)) /\ Len(Reindexed(list)) = Len(list)
           /\ Keys(Reindexed(list)) = Keys(list)
           /\ \A i \in DOMAIN list :
                 /\ Reindexed(list)[i].order = i /\ i \in Nat
                 /\ Reindexed(list)[i].key = list[i].key
                 /\ Reindexed(list)[i].edges = list[i].edges
                 /\ Reindexed(list)[i].enabled = list[i].enabled
<1>1. PICK new : new = Reindexed(list)
  OBVIOUS
<1>2. /\ DOMAIN new = DOMAIN list
      /\ \A i \in DOMAIN list : new[i] = [list[i] EXCEPT !.order = i]
  BY <1>1 DEF Reindexed
<1>3. \A i \in DOMAIN list :
         /\ DOMAIN new[i] = DOMAIN list[i]
         /\ new[i].order = i /\ new[i].key = list[i].key
         /\ new[i].edges = list[i].edges /\ new[i].enabled = list[i].enabled
  BY <1>2 DEF IsSections, IsSection
<1>4. IsList(new) /\ Len(new) = Len(list)
  BY <1>1, ListReindexed DEF IsSections
<1>5. \A i \in DOMAIN list : i \in Nat
  BY ListIs DEF IsSections
<1>6. Keys(new) = Keys(list)
  BY <1>2, <1>3 DEF Keys
<1>7. IsSections(new)
  BY <1>2, <1>3, <1>4 DEF IsSections, IsSection
<1> QED
  BY <1>1, <1>3, <1>4, <1>5, <1>6, <1>7

\* Repaired sections are a graph.
LEMMA RepairedIsGraph ==
    ASSUME NEW raw, IsSections(raw)
    PROVE  IsGraph(Repaired(raw))
<1>1. PICK keyed : keyed = WithKeys(raw)
  OBVIOUS
<1>2. IsSections(keyed)
  <2>1. PICK keys : keys = Deduped([i \in DOMAIN raw |-> raw[i].key])
    OBVIOUS
  <2>2. keyed = [i \in DOMAIN raw |-> [raw[i] EXCEPT !.key = keys[i]]]
    BY <1>1, <2>1 DEF WithKeys
  <2>3. IsList(keyed)
    <3>1. Len(raw) \in Nat /\ keyed = [i \in 1..Len(raw) |-> keyed[i]]
      BY <2>2, ListIs DEF IsSections
    <3> QED
      BY <3>1, ListOf
  <2>4. \A i \in DOMAIN keyed : IsSection(keyed[i])
    BY <2>2 DEF IsSections, IsSection
  <2> QED
    BY <2>3, <2>4 DEF IsSections
<1>3. PICK two : two = Ensured(Ensured(keyed, FAQS), CLOSE)
  OBVIOUS
<1>4. IsSections(two) /\ FAQS \in Keys(two) /\ CLOSE \in Keys(two)
  BY <1>2, <1>3, EnsuredIs
<1>5. PICK list : list = Reindexed(two)
  OBVIOUS
<1>6. /\ IsSections(list) /\ FAQS \in Keys(list) /\ CLOSE \in Keys(list)
      /\ DOMAIN list = DOMAIN two
      /\ \A i \in DOMAIN list : list[i].order \in Nat
  <2>1. DOMAIN list = DOMAIN two
    BY <1>5 DEF Reindexed
  <2> QED
    BY <1>4, <1>5, <2>1, ReindexedIs
<1> DEFINE Later(i) == {j \in i + 1..Len(list) : list[j].key \notin {FAQS, CLOSE}}
           Following(i) == IF Later(i) = {} THEN CLOSE
                           ELSE list[CHOOSE j \in Later(i) : \A k \in Later(i) : j <= k].key
           Edges(i) == IF list[i].key \in {FAQS, CLOSE} THEN Terminal
                       ELSE Cleaned(list[i].edges, Keys(list), Following(i))
<1>7. PICK graph : graph = Repaired(raw)
  OBVIOUS
<1>8. /\ DOMAIN graph = DOMAIN list
      /\ \A i \in DOMAIN list : graph[i] = [list[i] EXCEPT !.edges = Edges(i)]
  BY <1>1, <1>3, <1>5, <1>7 DEF Repaired
<1>9. \A i \in DOMAIN list : Following(i) \in Keys(list)
  <2> SUFFICES ASSUME NEW i \in DOMAIN list, Later(i) # {} PROVE Following(i) \in Keys(list)
    BY <1>6
  <2>1. Len(list) \in Nat /\ DOMAIN list = 1..Len(list)
    BY <1>6, ListIs DEF IsSections
  <2>2. Later(i) \subseteq DOMAIN list /\ Later(i) \subseteq Nat
    BY <2>1
  <2> HIDE DEF Later
  <2>3. PICK m \in Later(i) : \A k \in Later(i) : m <= k
    BY <2>2, LeastOf
  <2>4. (CHOOSE j \in Later(i) : \A k \in Later(i) : j <= k) \in Later(i)
    BY <2>3
  <2> QED
    BY <2>2, <2>4 DEF Keys
<1> HIDE DEF Following
<1>10. \A i \in DOMAIN list : /\ Edges(i) = Terminal \/ IsList(Edges(i))
                              /\ Edges(i) = Terminal \/ ToSet(Edges(i)) \subseteq Keys(list)
                              /\ list[i].key = FAQS => Edges(i) = Terminal
  BY <1>6, <1>9, CleanedIs DEF IsSections, IsSection
<1> HIDE DEF Edges
<1>11. \A i \in DOMAIN list :
          /\ DOMAIN graph[i] = DOMAIN list[i]
          /\ graph[i].order = list[i].order /\ graph[i].key = list[i].key
          /\ graph[i].edges = Edges(i) /\ graph[i].enabled = list[i].enabled
  BY <1>6, <1>8 DEF IsSections, IsSection
<1>12. Keys(graph) = Keys(list)
  BY <1>8, <1>11 DEF Keys
<1>13. IsList(graph)
  <2>1. Len(list) \in Nat /\ graph = [i \in 1..Len(list) |-> graph[i]]
    <3>1. Len(list) \in Nat /\ DOMAIN list = 1..Len(list)
      BY <1>6, ListIs DEF IsSections
    <3>2. graph = [i \in DOMAIN list |-> [list[i] EXCEPT !.edges = Edges(i)]]
      BY <1>1, <1>3, <1>5, <1>7 DEF Repaired, Edges, Following
    <3> QED
      BY <3>1, <3>2
  <2> QED
    BY <2>1, ListOf
<1>14. \A i \in DOMAIN graph :
          /\ IsSection(graph[i]) /\ graph[i].order \in Nat
          /\ Targets(graph[i]) \subseteq Keys(graph)
          /\ graph[i].key = FAQS => graph[i].edges = Terminal
  BY <1>6, <1>8, <1>10, <1>11, <1>12 DEF IsSections, IsSection, Targets
<1>15. IsGraph(graph)
  BY <1>6, <1>12, <1>13, <1>14 DEF IsGraph, IsWired
<1> QED
  BY <1>7, <1>15

\* The places where a key occurs first, and a list with the marks taken off.
Firsts(raw) == {i \in DOMAIN raw : \A j \in 1..i - 1 : raw[j].key # raw[i].key}
Unmarked(list) ==
    [i \in DOMAIN list |-> [list[i] EXCEPT !.phone = FALSE, !.lead = FALSE,
                                           !.required = list[i].phone \/ list[i].required]]

\* The first variable of each key, its marks taken off.
LEMMA UnmarkedOnce ==
    ASSUME NEW raw, IsVariables(raw), NEW once, once = Unmarked(Picked(raw, Firsts(raw)))
    PROVE  /\ IsVariables(once) /\ \A k \in DOMAIN once : once[k].phone = FALSE
           /\ \A k, l \in DOMAIN once : once[k].key = once[l].key => k = l
<1>1. PICK at : at = Firsts(raw)
  OBVIOUS
<1>2. at \in SUBSET DOMAIN raw /\ IsList(raw)
  BY <1>1 DEF IsVariables, Firsts
<1>0. PICK kept : kept = Picked(raw, at)
  OBVIOUS
<1>3. /\ IsList(kept)
      /\ \A k \in DOMAIN kept : /\ Place(at, k) \in at /\ Rank(at, Place(at, k)) = k
                                /\ kept[k] = raw[Place(at, k)]
  BY <1>0, <1>2, PickedIs
<1>4. \A k \in DOMAIN kept : IsVariable(kept[k])
  BY <1>2, <1>3 DEF IsVariables
<1>5. DOMAIN once = DOMAIN kept
  BY <1>0, <1>1 DEF Unmarked
<1>6. \A k \in DOMAIN once :
         /\ DOMAIN once[k] = DOMAIN kept[k]
         /\ once[k].phone = FALSE /\ once[k].key = kept[k].key
  BY <1>0, <1>1, <1>4 DEF IsVariable, Unmarked
<1>7. IsList(once)
  <2>1. Len(kept) \in Nat /\ DOMAIN kept = 1..Len(kept)
    BY <1>3, ListIs
  <2>2. once = [i \in 1..Len(kept) |-> once[i]]
    BY <1>0, <1>1, <2>1 DEF Unmarked
  <2> QED
    BY <2>1, <2>2, ListOf
<1>8. IsVariables(once)
  BY <1>4, <1>5, <1>6, <1>7 DEF IsVariables, IsVariable
<1>9. \A i, j \in at : raw[i].key = raw[j].key => i = j
  <2>0. Len(raw) \in Nat /\ DOMAIN raw = 1..Len(raw)
    BY <1>2, ListIs
  <2>1. \A i \in at : i \in Int /\ 1 <= i
    BY <1>2, <2>0
  <2>2. \A i, j \in at : i < j => raw[i].key # raw[j].key
    <3> SUFFICES ASSUME NEW i \in at, NEW j \in at, i < j PROVE raw[i].key # raw[j].key
      OBVIOUS
    <3>1. i \in 1..j - 1
      <4>1. i \in Int /\ j \in Int /\ 1 <= i
        BY <2>1
      <4> QED
        BY <4>1
    <3> QED
      BY <1>1, <3>1 DEF Firsts
  <2>3. \A i, j \in at : i < j \/ j < i \/ i = j
    <3>1. \A i, j \in Int : i < j \/ j < i \/ i = j
      OBVIOUS
    <3> QED
      BY <2>1, <3>1
  <2> QED
    BY <2>2, <2>3
<1>10. \A k, l \in DOMAIN once : once[k].key = once[l].key => k = l
  <2> SUFFICES ASSUME NEW k \in DOMAIN once, NEW l \in DOMAIN once, once[k].key = once[l].key
               PROVE  k = l
    OBVIOUS
  <2>1. kept[k].key = kept[l].key
    BY <1>6
  <2>2. /\ Place(at, k) \in at /\ kept[k] = raw[Place(at, k)]
        /\ Place(at, l) \in at /\ kept[l] = raw[Place(at, l)]
    BY <1>3, <1>5
  <2>3. Place(at, k) = Place(at, l)
    BY <1>9, <2>1, <2>2
  <2> QED
    BY <1>3, <1>5, <2>3
<1> QED
  BY <1>6, <1>8, <1>10

\* Putting a variable in the place of the one of its key.
LEMMA PutIs ==
    ASSUME NEW list, IsVariables(list), NEW v, IsVariable(v), NEW put,
           put = [i \in DOMAIN list |-> IF list[i].key = v.key THEN v ELSE list[i]]
    PROVE  /\ IsVariables(put) /\ DOMAIN put = DOMAIN list
           /\ \A i \in DOMAIN list : /\ put[i].key = list[i].key
                                     /\ put[i] = IF list[i].key = v.key THEN v ELSE list[i]
<1>1. IsList(put)
  <2>1. Len(list) \in Nat /\ DOMAIN list = 1..Len(list)
    BY ListIs DEF IsVariables
  <2>2. put = [i \in 1..Len(list) |-> put[i]]
    BY <2>1
  <2> QED
    BY <2>1, <2>2, ListOf
<1> QED
  BY <1>1 DEF IsVariables

\* Repaired variables have one phone.
LEMMA RepairedHasOnePhone ==
    ASSUME NEW raw, IsVariables(raw)
    PROVE  HasOnePhone(RepairedVars(raw))
<1> DEFINE Put(vs, v) == [i \in DOMAIN vs |-> IF vs[i].key = v.key THEN v ELSE vs[i]]
           Has(vs, v) == \E i \in DOMAIN vs : vs[i].key = v.key
<1>2. PICK once : once = Unmarked(Picked(raw, Firsts(raw)))
  OBVIOUS
<1>3. PICK phoned : phoned = IF Has(once, Phone) THEN Put(once, Phone) ELSE <<Phone>> \o once
  OBVIOUS
<1>4. PICK new :
          new = IF Has(phoned, LeadName) THEN Put(phoned, LeadName) ELSE Append(phoned, LeadName)
  OBVIOUS
<1>5. new = RepairedVars(raw)
  BY <1>2, <1>3, <1>4 DEF RepairedVars, Unmarked, Firsts
<1>6. /\ IsVariables(once) /\ \A k \in DOMAIN once : once[k].phone = FALSE
      /\ \A k, l \in DOMAIN once : once[k].key = once[l].key => k = l
  BY <1>2, UnmarkedOnce
<1>7. /\ IsVariable(Phone) /\ Phone.phone /\ Phone.key = "phone"
      /\ IsVariable(LeadName) /\ LeadName.phone = FALSE /\ LeadName.key = "lead_name"
  BY DEF Phone, LeadName, IsVariable
<1>8. HasOnePhone(phoned)
  <2>1. CASE Has(once, Phone)
    <3>1. phoned = Put(once, Phone)
      BY <1>3, <2>1
    <3>2. /\ IsVariables(phoned) /\ DOMAIN phoned = DOMAIN once
          /\ \A i \in DOMAIN once :
                /\ phoned[i].key = once[i].key
                /\ phoned[i] = IF once[i].key = Phone.key THEN Phone ELSE once[i]
      BY <1>6, <1>7, <3>1, PutIs
    <3>3. PICK i \in DOMAIN once : once[i].key = Phone.key
      BY <2>1
    <3> QED
      BY <1>6, <1>7, <3>2, <3>3 DEF HasOnePhone, IsVariables
  <2>2. CASE ~Has(once, Phone)
    <3>1. phoned = <<Phone>> \o once
      BY <1>3, <2>2
    <3>2. Len(once) \in Nat /\ DOMAIN once = 1..Len(once)
      BY <1>6, ListIs DEF IsVariables
    <3>3. /\ Len(phoned) = Len(once) + 1 /\ DOMAIN phoned = 1..Len(once) + 1
          /\ phoned[1] = Phone /\ \A i \in 2..Len(once) + 1 : phoned[i] = once[i - 1]
          /\ IsList(phoned)
      <4> DEFINE S == ToSet(once) \cup {Phone}
      <4>1. once \in Seq(S) /\ <<Phone>> \in Seq(S)
        BY <1>6, SeqMonotonic DEF IsVariables, IsList
      <4>2. /\ phoned \in Seq(S) /\ Len(phoned) = 1 + Len(once)
            /\ \A i \in 1..1 + Len(once) :
                  phoned[i] = IF i <= 1 THEN <<Phone>>[i] ELSE once[i - 1]
        BY <3>1, <4>1, ConcatProperties
      <4>3. DOMAIN phoned = 1..Len(once) + 1 /\ phoned = [i \in 1..Len(once) + 1 |-> phoned[i]]
        BY <3>2, <4>2
      <4>4. IsList(phoned)
        BY <3>2, <4>3, ListOf
      <4>5. phoned[1] = Phone
        BY <3>2, <4>2
      <4>6. \A i \in 2..Len(once) + 1 : phoned[i] = once[i - 1]
        <5>1. \A i \in 2..Len(once) + 1 : i \in 1..1 + Len(once) /\ ~(i <= 1)
          BY <3>2
        <5> QED
          BY <4>2, <5>1
      <4>7. Len(phoned) = Len(once) + 1
        BY <3>2, <4>2
      <4> QED
        BY <4>3, <4>4, <4>5, <4>6, <4>7
    <3>4. \A i \in DOMAIN phoned : i = 1 \/ (i \in 2..Len(once) + 1 /\ i - 1 \in DOMAIN once)
      BY <3>2, <3>3
    <3>5. \A i \in DOMAIN phoned : IsVariable(phoned[i]) /\ (phoned[i].phone => i = 1)
      BY <1>6, <1>7, <3>3, <3>4 DEF IsVariables
    <3>6. 1 \in DOMAIN phoned
      BY <3>2, <3>3
    <3> QED
      BY <1>7, <3>3, <3>5, <3>6 DEF HasOnePhone
  <2> QED
    BY <2>1, <2>2
<1>9. IsVariables(phoned)
  BY <1>8 DEF HasOnePhone, IsVariables
<1>10. PICK p \in DOMAIN phoned : phoned[p].phone /\ \A j \in DOMAIN phoned : phoned[j].phone => j = p
  BY <1>8 DEF HasOnePhone
<1>11. \A i \in DOMAIN phoned : phoned[i].phone => phoned[i].key = "phone"
  BY <1>8 DEF HasOnePhone
<1>12. CASE Has(phoned, LeadName)
  <2>1. new = Put(phoned, LeadName)
    BY <1>4, <1>12
  <2>2. /\ IsVariables(new) /\ DOMAIN new = DOMAIN phoned
        /\ \A i \in DOMAIN phoned :
              /\ new[i].key = phoned[i].key
              /\ new[i] = IF phoned[i].key = LeadName.key THEN LeadName ELSE phoned[i]
    BY <1>7, <1>9, <2>1, PutIs
  <2>3. \A i \in DOMAIN phoned : new[i].phone = phoned[i].phone
    BY <1>7, <1>9, <1>11, <2>2 DEF IsVariables, IsVariable
  <2> QED
    BY <1>5, <1>10, <1>11, <2>2, <2>3 DEF HasOnePhone, IsVariables
<1>13. CASE ~Has(phoned, LeadName)
  <2>1. new = Append(phoned, LeadName)
    BY <1>4, <1>13
  <2>2. /\ IsList(new) /\ Len(new) = Len(phoned) + 1
        /\ \A i \in 1..Len(phoned) : new[i] = phoned[i]
        /\ new[Len(phoned) + 1] = LeadName
    BY <1>9, <2>1, ListAppend DEF IsVariables
  <2>3. /\ Len(phoned) \in Nat /\ DOMAIN phoned = 1..Len(phoned)
        /\ DOMAIN new = 1..Len(phoned) + 1
    BY <1>9, <2>2, ListIs DEF IsVariables
  <2>4. \A i \in DOMAIN new : i \in DOMAIN phoned \/ i = Len(phoned) + 1
    BY <2>3
  <2>5. \A i \in DOMAIN phoned : i \in DOMAIN new
    BY <2>3
  <2> QED
    BY <1>5, <1>7, <1>9, <1>10, <1>11, <2>2, <2>3, <2>4, <2>5 DEF HasOnePhone, IsVariables
<1> QED
  BY <1>12, <1>13

\* Repair makes a page of any script.
LEMMA RepairIsPage ==
    ASSUME NEW b, IsScript(b)
    PROVE  IsPage(Repair(b))
<1>1. IsSections(b.sections) /\ IsVariables(b.vars)
  BY DEF IsScript, IsSections, IsVariables
<1>2. PICK new : new = Repair(b)
  OBVIOUS
<1>3. /\ DOMAIN new = {"sections", "vars", "used"}
      /\ new.sections = Repaired(b.sections) /\ new.vars = RepairedVars(b.vars)
  BY <1>2 DEF Repair, IsScript
<1> QED
  BY <1>1, <1>2, <1>3, RepairedIsGraph, RepairedHasOnePhone DEF IsPage

\* A page is a script.
LEMMA PageIsScript ==
    ASSUME NEW b, IsPage(b)
    PROVE  IsScript(b)
BY DEF IsPage, IsGraph, IsWired, HasOnePhone, IsScript

\* One phone, counted.
LEMMA OnePhoneCounted ==
    ASSUME NEW list, IsVariables(list)
    PROVE  Cardinality({i \in DOMAIN list : list[i].phone}) = 1
              <=> \E i \in DOMAIN list : list[i].phone
                                         /\ \A j \in DOMAIN list : list[j].phone => j = i
<1>1. PICK phones : phones = {i \in DOMAIN list : list[i].phone}
  OBVIOUS
<1>2. IsFiniteSet(phones)
  <2>1. DOMAIN list = 1..Len(list) /\ 1 \in Int /\ Len(list) \in Int
    BY ListIs DEF IsVariables
  <2>2. IsFiniteSet(DOMAIN list) /\ phones \in SUBSET DOMAIN list
    BY <1>1, <2>1, FS_Interval
  <2> QED
    BY <2>2, FS_Subset
<1>3. Cardinality(phones) = 1 <=> \E i : phones = {i}
  BY <1>2, FS_Singleton
<1> QED
  BY <1>1, <1>3

\* A valid script is a page.
LEMMA ValidIsPage ==
    ASSUME NEW b, IsScript(b), Valid(b)
    PROVE  IsPage(b)
<1>1. PICK list : list = b.sections
  OBVIOUS
<1>2. PICK variables : variables = b.vars
  OBVIOUS
<1>3. ValidSections(list) /\ ValidVars(variables, b.used) /\ IsSections(list) /\ IsVariables(variables)
  BY <1>1, <1>2 DEF Valid, IsScript, IsSections, IsVariables
<1>4. \A i \in DOMAIN list : i \in Nat
  BY <1>3, ListIs DEF IsSections
<1>5. \A i \in DOMAIN list : list[i].order \in Nat
  BY <1>3, <1>4 DEF ValidSections
<1>6. \A i, j \in DOMAIN list : list[i].key = list[j].key => i = j
  BY <1>3 DEF ValidSections, IsInjective
<1>7. PICK f \in DOMAIN list : list[f].key = FAQS /\ list[f].edges = Terminal
  BY <1>3 DEF ValidSections
<1>8. \A i \in DOMAIN list : Targets(list[i]) \subseteq Keys(list)
  BY <1>3 DEF ValidSections
<1>9. IsGraph(list)
  BY <1>3, <1>5, <1>6, <1>7, <1>8 DEF IsGraph, IsWired, IsSections, Keys
<1>10. HasOnePhone(variables)
  <2>1. \A i \in DOMAIN variables : variables[i].phone => variables[i].key = "phone"
    BY <1>3 DEF ValidVars
  <2>2. Cardinality({i \in DOMAIN variables : variables[i].phone}) = 1
    BY <1>3 DEF ValidVars
  <2>3. \E i \in DOMAIN variables :
           variables[i].phone /\ \A j \in DOMAIN variables : variables[j].phone => j = i
    BY <1>3, <2>2, OnePhoneCounted
  <2> QED
    BY <1>3, <2>1, <2>3 DEF HasOnePhone, IsVariables
<1> QED
  BY <1>1, <1>2, <1>9, <1>10 DEF IsPage, IsScript

\* What is generated or imported is a page.
LEMMA GenerableIsPage ==
    /\ \A new \in Generable : IsPage(new)
    /\ \A new \in Importable : IsPage(new)
<1>1. \A raw \in Raws : IsScript(raw)
  BY ScriptAssumption
<1>2. \A raw \in Raws : \A new \in Generated(raw) : new = Repair(raw) \/ (new = raw /\ Valid(raw))
  BY DEF Generated
<1>3. \A new \in Generable :
         \E raw \in Raws : new = Repair(raw) \/ (new = raw /\ Valid(raw))
  BY <1>2 DEF Generable
<1> QED
  BY <1>1, <1>3, RepairIsPage, ValidIsPage DEF Importable

(***************************************************************************)
(* The page.                                                               *)
(***************************************************************************)

\* The inductive invariant of the page and the call.
ScriptInv ==
    /\ IsPage(bundle)
    /\ edits \in 0..MaxEdits /\ asks \in 0..MaxAsks /\ calling \in BOOLEAN
    /\ ~calling => current = Nowhere /\ told = Nowhere /\ previous = Nowhere /\ asked = {}
    /\ {current, told, previous} \subseteq Keys(ss) \cup {Nowhere}
    /\ asked \subseteq (Keys(ss) \cup {Nowhere}) \X Keys(ss)
    /\ ToldIsCurrent

\* What an edit does: it leaves a page, and no call.
Edited == ~calling /\ IsPage(bundle') /\ edits' \in 0..MaxEdits /\ UNCHANGED call

\* A page for a page, as long as edits are left.
LEMMA EditCounted ==
    ASSUME ScriptInv, NEW new, IsPage(new), Edit(new)
    PROVE  Edited
<1>1. edits < MaxEdits /\ edits' = edits + 1 /\ edits \in 0..MaxEdits
  BY DEF Edit, ScriptInv
<1>2. edits' \in 0..MaxEdits
  BY <1>1, ScriptAssumption
<1> QED
  BY <1>2 DEF Edit, Edited

\* A changed list of sections is the only thing an edit of the graph changes.
LEMMA SectionsEdited ==
    ASSUME ScriptInv, NEW new, IsGraph(new), EditSections(new)
    PROVE  Edited
<1>1. PICK page : page = [bundle EXCEPT !.sections = new]
  OBVIOUS
<1>2. DOMAIN page = DOMAIN bundle /\ page.sections = new /\ page.vars = bundle.vars
  BY <1>1 DEF ScriptInv, IsPage
<1>3. IsPage(page)
  BY <1>2 DEF ScriptInv, IsPage
<1> QED
  BY <1>1, <1>3, EditCounted DEF EditSections

\* And a changed list of variables.
LEMMA VarsEdited ==
    ASSUME ScriptInv, NEW new, HasOnePhone(new), EditVars(new)
    PROVE  Edited
<1>1. PICK page : page = [bundle EXCEPT !.vars = new]
  OBVIOUS
<1>2. DOMAIN page = DOMAIN bundle /\ page.vars = new /\ page.sections = bundle.sections
  BY <1>1 DEF ScriptInv, IsPage
<1>3. IsPage(page)
  BY <1>2 DEF ScriptInv, IsPage
<1> QED
  BY <1>1, <1>3, EditCounted DEF EditVars

\* Find returns a section of the page that has the key.
LEMMA FindIs ==
    ASSUME ScriptInv, NEW key \in Keys(ss)
    PROVE  \E i \in DOMAIN ss : Find(key) = ss[i] /\ ss[i].key = key
<1>1. PICK those : those = {i \in DOMAIN ss : ss[i].key = key}
  OBVIOUS
<1>2. Len(ss) \in Nat /\ DOMAIN ss = 1..Len(ss)
  BY ListIs DEF ScriptInv, IsPage, IsGraph, IsWired, ss
<1>3. those \subseteq Nat /\ those # {}
  BY <1>1, <1>2 DEF Keys
<1>4. PICK m \in those : \A n \in those : m <= n
  BY <1>3, LeastOf
<1>5. \A j \in 1..m - 1 : j \notin those
  BY <1>3, <1>4
<1>6. \A j \in 1..m - 1 : j \in DOMAIN ss
  BY <1>1, <1>2
<1>7. \A j \in 1..m - 1 : ss[j].key # key
  BY <1>1, <1>5, <1>6
<1>8. PICK f : f = CHOOSE i \in DOMAIN ss : ss[i].key = key /\ \A j \in 1..i - 1 : ss[j].key # key
  OBVIOUS
<1>9. f \in DOMAIN ss /\ ss[f].key = key
  BY <1>1, <1>7, <1>8
<1> QED
  BY <1>8, <1>9 DEF Find

\* Edges set on a section other than the FAQs, to sections or the close.
LEMMA EdgesEdited ==
    ASSUME ScriptInv, NEW key, key # FAQS, NEW edges \in Seq(Keys(ss) \cup {CLOSE}),
           SetEdges(key, edges)
    PROVE  Edited
<1>0. IsGraph(ss)
  BY DEF ScriptInv, IsPage, ss
<1>1. PICK new : /\ EditSections(new)
                 /\ new = [i \in DOMAIN ss |-> IF ss[i].key = key
                                               THEN [ss[i] EXCEPT !.edges = edges] ELSE ss[i]]
  BY DEF SetEdges, UpdatedSection
<1>2. IsList(edges) /\ ToSet(edges) \subseteq Keys(ss) \cup {CLOSE}
  BY ListsAre
<1>3. IsList(new)
  <2>1. Len(ss) \in Nat /\ DOMAIN ss = 1..Len(ss)
    BY <1>0, ListIs DEF IsGraph, IsWired
  <2>2. new = [i \in 1..Len(ss) |-> new[i]]
    BY <1>1, <2>1
  <2> QED
    BY <2>1, <2>2, ListOf
<1>4. DOMAIN new = DOMAIN ss
  BY <1>1
<1>5. \A i \in DOMAIN ss :
         /\ new[i].key = ss[i].key /\ new[i].order = ss[i].order
         /\ new[i].enabled = ss[i].enabled /\ DOMAIN new[i] = DOMAIN ss[i]
         /\ new[i].edges = IF ss[i].key = key THEN edges ELSE ss[i].edges
  BY <1>0, <1>1 DEF IsGraph, IsWired, IsSection
<1>6. Keys(new) = Keys(ss)
  BY <1>4, <1>5 DEF Keys
<1>7. \A i \in DOMAIN ss : Targets(new[i]) \subseteq Targets(ss[i]) \cup Keys(ss) \cup {CLOSE}
  BY <1>2, <1>5 DEF Targets
<1>8. IsGraph(new)
  BY <1>0, <1>2, <1>3, <1>4, <1>5, <1>6, <1>7 DEF IsGraph, IsWired, IsSection
<1> QED
  BY <1>1, <1>8, SectionsEdited

\* The sections the page shows edges of, and their edges.
LEMMA LinkedHas ==
    ASSUME ScriptInv, NEW key \in Linked
    PROVE  key # FAQS /\ Find(key).edges \in Seq(Keys(ss) \cup {CLOSE})
<1>1. PICK i \in DOMAIN ss : Find(key) = ss[i] /\ ss[i].key = key
  BY FindIs DEF Linked
<1>2. ss[i].edges # Terminal
  BY <1>1 DEF Linked
<1>3. IsSection(ss[i]) /\ Targets(ss[i]) \subseteq Keys(ss) \cup {CLOSE} /\ ss[i].key # FAQS
  BY <1>2 DEF ScriptInv, IsPage, IsGraph, IsWired, ss
<1>4. IsList(ss[i].edges) /\ ToSet(ss[i].edges) \subseteq Keys(ss) \cup {CLOSE}
  BY <1>2, <1>3 DEF IsSection, Targets
<1> QED
  BY <1>1, <1>3, <1>4, ListsAre

\* What may join the sections that are there: it leads nowhere but to the close.
Fits(s) == IsSection(s) /\ s.key # FAQS /\ Targets(s) \subseteq {CLOSE}

\* The same sections in another order, perhaps with such ones, are wired as before.
LEMMA RearrangedIsWired ==
    ASSUME NEW list, IsWired(list), NEW more, IsList(more),
           \A j \in DOMAIN more : (\E i \in DOMAIN list : more[j] = list[i]) \/ Fits(more[j]),
           \A i \in DOMAIN list : \E j \in DOMAIN more : more[j] = list[i]
    PROVE  IsWired(more)
<1>1. Keys(list) \subseteq Keys(more)
  BY DEF Keys
<1> QED
  BY <1>1 DEF IsWired, Fits

\* Renumbered, they are a graph.
LEMMA ReindexedIsGraph ==
    ASSUME NEW list, IsWired(list)
    PROVE  IsGraph(Reindexed(list))
<1>1. PICK new : new = Reindexed(list)
  OBVIOUS
<1>2. IsSections(list)
  BY DEF IsWired, IsSections
<1>3. /\ IsSections(new) /\ Keys(new) = Keys(list)
      /\ \A i \in DOMAIN list : /\ new[i].order \in Nat /\ new[i].key = list[i].key
                                /\ new[i].edges = list[i].edges
  BY <1>1, <1>2, ReindexedIs
<1>4. DOMAIN new = DOMAIN list
  BY <1>1 DEF Reindexed
<1>5. \A i \in DOMAIN list : Targets(new[i]) = Targets(list[i])
  BY <1>3 DEF Targets
<1>6. IsGraph(new)
  BY <1>3, <1>4, <1>5 DEF IsGraph, IsWired, IsSections
<1> QED
  BY <1>1, <1>6

\* Enabling or disabling a section, by its key.
LEMMA ToggleEdits ==
    ASSUME ScriptInv, NEW key, Toggle(key)
    PROVE  Edited
<1>0. IsGraph(ss)
  BY DEF ScriptInv, IsPage, ss
<1>1. PICK on \in BOOLEAN :
         EditSections([i \in DOMAIN ss |-> IF ss[i].key = key
                                           THEN [ss[i] EXCEPT !.enabled = on] ELSE ss[i]])
  BY DEF Toggle, UpdatedSection
<1>2. PICK new : new = [i \in DOMAIN ss |-> IF ss[i].key = key
                                            THEN [ss[i] EXCEPT !.enabled = on] ELSE ss[i]]
  OBVIOUS
<1>3. IsList(new)
  <2>1. Len(ss) \in Nat /\ DOMAIN ss = 1..Len(ss)
    BY <1>0, ListIs DEF IsGraph, IsWired
  <2>2. new = [i \in 1..Len(ss) |-> new[i]]
    BY <1>2, <2>1
  <2> QED
    BY <2>1, <2>2, ListOf
<1>4. DOMAIN new = DOMAIN ss
  BY <1>2
<1>5. \A i \in DOMAIN ss :
         /\ new[i].key = ss[i].key /\ new[i].order = ss[i].order /\ new[i].edges = ss[i].edges
         /\ new[i].enabled \in BOOLEAN /\ DOMAIN new[i] = DOMAIN ss[i]
  BY <1>0, <1>2 DEF IsGraph, IsWired, IsSection
<1>6. Keys(new) = Keys(ss)
  BY <1>4, <1>5 DEF Keys
<1>7. IsGraph(new)
  BY <1>0, <1>3, <1>4, <1>5, <1>6 DEF IsGraph, IsWired, IsSection, Targets
<1> QED
  BY <1>1, <1>2, <1>7, SectionsEdited

\* Two neighbours changing places.
LEMMA MoveEdits ==
    ASSUME ScriptInv, NEW i \in DOMAIN ss, Move(i)
    PROVE  Edited
<1>0. IsGraph(ss) /\ IsList(ss)
  BY DEF ScriptInv, IsPage, IsGraph, IsWired, ss
<1>1. PICK moved : /\ EditSections(Reindexed(moved))
                   /\ moved = [ss EXCEPT ![i] = ss[i + 1], ![i + 1] = ss[i]]
  BY DEF Move
<1>2. i + 1 \in DOMAIN ss /\ i \in Nat
  BY <1>0, ListIs DEF Move
<1>3. /\ DOMAIN moved = DOMAIN ss
      /\ \A j \in DOMAIN ss : moved[j] = IF j = i + 1 THEN ss[i]
                                         ELSE IF j = i THEN ss[i + 1] ELSE ss[j]
  BY <1>1, <1>2
<1>4. IsList(moved)
  <2>1. Len(ss) \in Nat /\ DOMAIN ss = 1..Len(ss)
    BY <1>0, ListIs
  <2>2. moved = [j \in 1..Len(ss) |-> moved[j]]
    BY <1>1, <2>1
  <2> QED
    BY <2>1, <2>2, ListOf
<1>5. \A j \in DOMAIN moved : \E k \in DOMAIN ss : moved[j] = ss[k]
  BY <1>2, <1>3
<1>6. \A k \in DOMAIN ss : \E j \in DOMAIN moved : moved[j] = ss[k]
  <2>1. moved[i] = ss[i + 1] /\ moved[i + 1] = ss[i]
    BY <1>2, <1>3
  <2> QED
    BY <1>2, <1>3, <2>1
<1>7. IsWired(moved)
  BY <1>0, <1>4, <1>5, <1>6, RearrangedIsWired DEF IsGraph
<1> QED
  BY <1>1, <1>7, ReindexedIsGraph, SectionsEdited

\* A section added before the close, or at the end where there is none.
LEMMA AddSectionEdits ==
    ASSUME ScriptInv, AddSection
    PROVE  Edited
<1>0. IsGraph(ss) /\ IsList(ss)
  BY DEF ScriptInv, IsPage, IsGraph, IsWired, ss
<1>0a. Len(ss) \in Nat /\ DOMAIN ss = 1..Len(ss)
  BY <1>0, ListIs
<1>1. PICK closes : closes = {i \in DOMAIN ss : ss[i].key = CLOSE}
  OBVIOUS
<1>2. PICK new : new = Section(Numbered(Len(ss) + 1), Len(ss) + 1, <<CLOSE>>)
  OBVIOUS
<1>3. PICK at : at = IF closes = {} THEN Len(ss) + 1
                     ELSE CHOOSE i \in closes : \A j \in closes : i <= j
  OBVIOUS
<1>4. PICK more : more = InsertAt(ss, at, new)
  OBVIOUS
<1>5. EditSections(Reindexed(more))
  BY <1>1, <1>2, <1>3, <1>4 DEF AddSection
<1>6. at \in 1..Len(ss) + 1
  <2>1. CASE closes = {}
    BY <1>0a, <1>3, <2>1
  <2>2. CASE closes # {}
    <3>1. PICK m \in closes : \A j \in closes : m <= j
      BY <1>0a, <1>1, <2>2, LeastOf
    <3>2. at \in closes
      BY <1>3, <2>2, <3>1
    <3> QED
      BY <1>0a, <1>1, <3>2
  <2> QED
    BY <2>1, <2>2
<1>7. /\ IsList(more) /\ DOMAIN more = 1..Len(ss) + 1
      /\ \A j \in 1..Len(ss) + 1 : more[j] = IF j < at THEN ss[j]
                                             ELSE IF j = at THEN new ELSE ss[j - 1]
  BY <1>0, <1>4, <1>6, ListInsert
<1>8. Fits(new)
  <2>1. /\ DOMAIN new = {"key", "order", "enabled", "edges"}
        /\ new.key = Numbered(Len(ss) + 1) /\ new.enabled = TRUE /\ new.edges = <<CLOSE>>
    BY <1>2 DEF Section
  <2>2. Numbered(Len(ss) + 1) # FAQS
    BY DEF Numbered, FAQS
  <2>3. IsList(<<CLOSE>>) /\ ToSet(<<CLOSE>>) = {CLOSE}
    BY DEF IsList, ToSet
  <2> QED
    BY <2>1, <2>2, <2>3 DEF Fits, IsSection, Targets
<1>9. ASSUME NEW j \in DOMAIN more
      PROVE  (\E i \in DOMAIN ss : more[j] = ss[i]) \/ Fits(more[j])
  <2>1. CASE j < at
    <3>1. j \in DOMAIN ss
      BY <1>0a, <1>6, <1>7, <2>1
    <3> QED
      BY <1>7, <2>1, <3>1
  <2>2. CASE j = at
    BY <1>6, <1>7, <1>8, <2>2
  <2>3. CASE ~(j < at) /\ j # at
    <3>1. j - 1 \in DOMAIN ss
      BY <1>0a, <1>6, <1>7, <2>3
    <3> QED
      BY <1>7, <2>3, <3>1
  <2> QED
    BY <2>1, <2>2, <2>3
<1>10. ASSUME NEW i \in DOMAIN ss PROVE \E j \in DOMAIN more : more[j] = ss[i]
  <2>1. CASE i < at
    <3>1. i \in DOMAIN more
      BY <1>0a, <1>7
    <3> QED
      BY <1>7, <2>1, <3>1
  <2>2. CASE ~(i < at)
    <3>1. i + 1 \in DOMAIN more /\ ~(i + 1 < at) /\ i + 1 # at /\ (i + 1) - 1 = i
      BY <1>0a, <1>6, <1>7, <2>2
    <3> QED
      BY <1>7, <3>1
  <2> QED
    BY <2>1, <2>2
<1>11. IsWired(more)
  BY <1>0, <1>7, <1>9, <1>10, RearrangedIsWired DEF IsGraph
<1> QED
  BY <1>5, <1>11, ReindexedIsGraph, SectionsEdited

\* A section deleted, and the edges to it led to the close.
LEMMA DeleteSectionEdits ==
    ASSUME ScriptInv, NEW key, DeleteSection(key)
    PROVE  Edited
<1> DEFINE To(t) == IF t = key THEN CLOSE ELSE t
           Rewired(s) == IF s.edges = Terminal THEN s
                         ELSE [s EXCEPT !.edges = [e \in DOMAIN @ |-> To(@[e])]]
<1>0. IsGraph(ss) /\ IsWired(ss) /\ IsList(ss) /\ key \notin {FAQS, CLOSE}
  BY DEF ScriptInv, IsPage, IsGraph, IsWired, ss, DeleteSection
<1>1. PICK at : at = {i \in DOMAIN ss : ss[i].key # key}
  OBVIOUS
<1>2. PICK kept : kept = Picked(ss, at)
  OBVIOUS
<1>3. PICK new : new = [i \in DOMAIN kept |-> Rewired(kept[i])]
  OBVIOUS
<1>4. EditSections(Reindexed(new))
  BY <1>1, <1>2, <1>3 DEF DeleteSection, Filtered
<1>5. /\ IsList(kept)
      /\ \A k \in DOMAIN kept : \E i \in DOMAIN ss : kept[k] = ss[i]
      /\ \A i \in DOMAIN ss : ss[i].key # key => \E k \in DOMAIN kept : kept[k] = ss[i]
  <2>1. at \in SUBSET DOMAIN ss
    BY <1>1
  <2>2. /\ IsList(kept)
        /\ \A k \in DOMAIN kept : \E i \in at : kept[k] = ss[i]
        /\ \A i \in at : \E k \in DOMAIN kept : kept[k] = ss[i]
    BY <1>0, <1>2, <2>1, PickedHas
  <2> QED
    BY <1>1, <2>2
<1>6. ASSUME NEW s, IsSection(s)
      PROVE  /\ IsSection(Rewired(s)) /\ Rewired(s).key = s.key
             /\ s.edges = Terminal => Rewired(s).edges = Terminal
             /\ Targets(Rewired(s)) \subseteq (Targets(s) \ {key}) \cup {CLOSE}
  <2>1. CASE s.edges = Terminal
    BY <1>6, <2>1 DEF Targets
  <2>2. CASE s.edges # Terminal
    <3>1. PICK edges : edges = [e \in DOMAIN s.edges |-> To(s.edges[e])]
      OBVIOUS
    <3>2. IsList(s.edges)
      BY <1>6, <2>2 DEF IsSection
    <3>3. Len(s.edges) \in Nat /\ DOMAIN s.edges = 1..Len(s.edges)
      BY <3>2, ListIs
    <3>4. edges = [e \in 1..Len(s.edges) |-> edges[e]]
      BY <3>1, <3>3
    <3>5. IsList(edges)
      BY <3>3, <3>4, ListOf
    <3>6. Rewired(s) = [s EXCEPT !.edges = edges]
      BY <2>2, <3>1
    <3>7. /\ DOMAIN Rewired(s) = DOMAIN s /\ Rewired(s).edges = edges
          /\ Rewired(s).key = s.key /\ Rewired(s).enabled = s.enabled
      BY <1>6, <3>6 DEF IsSection
    <3>8. ToSet(edges) \subseteq (ToSet(s.edges) \ {key}) \cup {CLOSE}
      BY <1>0, <3>1 DEF ToSet
    <3> HIDE DEF Rewired
    <3> QED
      BY <1>6, <2>2, <3>5, <3>7, <3>8 DEF IsSection, Targets
  <2> QED
    BY <2>1, <2>2
<1> HIDE DEF Rewired
<1>7. \A k \in DOMAIN kept :
         /\ IsSection(kept[k]) => IsSection(new[k]) /\ new[k].key = kept[k].key
         /\ kept[k].edges = Terminal => new[k].edges = Terminal
         /\ Targets(new[k]) \subseteq (Targets(kept[k]) \ {key}) \cup {CLOSE}
  BY <1>0, <1>3, <1>5, <1>6 DEF IsWired
<1>8. DOMAIN new = DOMAIN kept /\ new = [k \in DOMAIN kept |-> new[k]]
  BY <1>3
<1>9. IsList(new)
  <2>1. Len(kept) \in Nat /\ new = [k \in 1..Len(kept) |-> new[k]]
    BY <1>5, <1>8, ListIs
  <2> QED
    BY <2>1, ListOf
<1>10. \A k \in DOMAIN kept :
          /\ IsSection(new[k]) /\ new[k].key = kept[k].key
          /\ Targets(new[k]) \subseteq (Keys(ss) \ {key}) \cup {CLOSE}
          /\ new[k].key = FAQS => new[k].edges = Terminal
  BY <1>0, <1>5, <1>7 DEF IsWired
<1>11. Keys(ss) \ {key} \subseteq Keys(new)
  <2>1. \A i \in DOMAIN ss : ss[i].key # key => \E k \in DOMAIN new : new[k].key = ss[i].key
    BY <1>5, <1>8, <1>10
  <2> QED
    BY <2>1 DEF Keys
<1>12. IsWired(new)
  BY <1>0, <1>8, <1>9, <1>10, <1>11 DEF IsWired
<1> QED
  BY <1>4, <1>12, ReindexedIsGraph, SectionsEdited

\* A variable added: it is no phone.
LEMMA AddVariableEdits ==
    ASSUME ScriptInv, NEW key, AddVariable(key)
    PROVE  Edited
<1>1. HasOnePhone(bundle.vars)
  BY DEF ScriptInv, IsPage
<1>2. PICK v : v.phone = FALSE /\ IsVariable(v) /\ EditVars(Append(bundle.vars, v))
  BY DEF AddVariable, IsVariable
<1>3. PICK list : list = bundle.vars
  OBVIOUS
<1>4. PICK new : new = Append(list, v)
  OBVIOUS
<1>5. /\ IsList(new) /\ Len(new) = Len(list) + 1
      /\ \A i \in 1..Len(list) : new[i] = list[i]
      /\ new[Len(list) + 1] = v
  BY <1>1, <1>3, <1>4, ListAppend DEF HasOnePhone
<1>6. Len(list) \in Nat /\ DOMAIN list = 1..Len(list) /\ DOMAIN new = 1..Len(list) + 1
  BY <1>1, <1>3, <1>5, ListIs DEF HasOnePhone
<1>7. \A i \in DOMAIN new : i \in DOMAIN list \/ i = Len(list) + 1
  BY <1>6
<1>8. \A i \in DOMAIN list : i \in DOMAIN new /\ new[i] = list[i]
  BY <1>5, <1>6
<1>9. HasOnePhone(new)
  <2>1. PICK p \in DOMAIN list : list[p].phone /\ \A j \in DOMAIN list : list[j].phone => j = p
    BY <1>1, <1>3 DEF HasOnePhone
  <2>2. \A i \in DOMAIN new : IsVariable(new[i]) /\ (new[i].phone => new[i].key = "phone")
    BY <1>1, <1>2, <1>3, <1>5, <1>7, <1>8 DEF HasOnePhone
  <2>3. p \in DOMAIN new /\ new[p].phone /\ \A j \in DOMAIN new : new[j].phone => j = p
    BY <1>2, <1>5, <1>7, <1>8, <2>1
  <2> QED
    BY <1>5, <2>2, <2>3 DEF HasOnePhone
<1> QED
  BY <1>2, <1>3, <1>4, <1>9, VarsEdited

\* A variable deleted: the phone stays, it cannot be deleted.
LEMMA DeleteVariableEdits ==
    ASSUME ScriptInv, NEW key, DeleteVariable(key)
    PROVE  Edited
<1>1. HasOnePhone(bundle.vars) /\ key # "phone"
  BY DEF ScriptInv, IsPage, DeleteVariable
<1>2. PICK list : list = bundle.vars
  OBVIOUS
<1>3. PICK at : at = {i \in DOMAIN list : list[i].key # key}
  OBVIOUS
<1>4. PICK new : new = Picked(list, at)
  OBVIOUS
<1>5. EditVars(new)
  BY <1>2, <1>3, <1>4 DEF DeleteVariable, Filtered
<1>6. IsList(list) /\ at \in SUBSET DOMAIN list
  BY <1>1, <1>2, <1>3 DEF HasOnePhone
<1>7. /\ IsList(new)
      /\ \A k \in DOMAIN new : /\ Place(at, k) \in at /\ Rank(at, Place(at, k)) = k
                               /\ new[k] = list[Place(at, k)]
      /\ \A i \in at : Rank(at, i) \in DOMAIN new /\ new[Rank(at, i)] = list[i]
  BY <1>4, <1>6, PickedIs
<1>8. PICK p \in DOMAIN list : list[p].phone /\ \A j \in DOMAIN list : list[j].phone => j = p
  BY <1>1, <1>2 DEF HasOnePhone
<1>9. p \in at
  BY <1>1, <1>2, <1>3, <1>8 DEF HasOnePhone
<1>10. \A k \in DOMAIN new : IsVariable(new[k]) /\ (new[k].phone => new[k].key = "phone")
  BY <1>1, <1>2, <1>6, <1>7 DEF HasOnePhone
<1>11. Rank(at, p) \in DOMAIN new /\ new[Rank(at, p)].phone
  BY <1>7, <1>8, <1>9
<1>12. ASSUME NEW k \in DOMAIN new, new[k].phone PROVE k = Rank(at, p)
  <2>1. Place(at, k) = p
    BY <1>6, <1>7, <1>8, <1>12
  <2> QED
    BY <1>7, <2>1
<1>13. HasOnePhone(new)
  BY <1>7, <1>10, <1>11, <1>12 DEF HasOnePhone
<1> QED
  BY <1>5, <1>13, VarsEdited

\* A variable required or no longer required.
LEMMA ToggleRequiredEdits ==
    ASSUME ScriptInv, NEW key, ToggleRequired(key)
    PROVE  Edited
<1>1. HasOnePhone(bundle.vars)
  BY DEF ScriptInv, IsPage
<1>2. PICK list : list = bundle.vars
  OBVIOUS
<1>3. PICK new : new = [i \in DOMAIN list |-> IF list[i].key = key
                                             THEN [list[i] EXCEPT !.required = ~@] ELSE list[i]]
  OBVIOUS
<1>4. EditVars(new)
  BY <1>2, <1>3 DEF ToggleRequired
<1>5. IsList(new)
  <2>1. Len(list) \in Nat /\ DOMAIN list = 1..Len(list)
    BY <1>1, <1>2, ListIs DEF HasOnePhone
  <2>2. new = [i \in 1..Len(list) |-> new[i]]
    BY <1>3, <2>1
  <2> QED
    BY <2>1, <2>2, ListOf
<1>6. /\ DOMAIN new = DOMAIN list
      /\ \A i \in DOMAIN list : /\ new[i].key = list[i].key /\ new[i].phone = list[i].phone
                                /\ DOMAIN new[i] = DOMAIN list[i]
  BY <1>1, <1>2, <1>3 DEF HasOnePhone, IsVariable
<1>7. HasOnePhone(new)
  BY <1>1, <1>2, <1>5, <1>6 DEF HasOnePhone, IsVariable
<1> QED
  BY <1>4, <1>7, VarsEdited

\* Every control of the page leaves a page, and no call.
LEMMA PageEdits ==
    ASSUME ScriptInv, EditPage
    PROVE  Edited
<1>0. IsPage(bundle)
  BY DEF ScriptInv
<1>1. ASSUME NEW key \in Linked, AddEdge(key) PROVE Edited
  <2>1. PICK at : at = {i \in DOMAIN ss : ss[i].key # key}
    OBVIOUS
  <2>2. PICK others : others = Picked(ss, at)
    OBVIOUS
  <2>3. PICK target : target = IF others = <<>> THEN CLOSE ELSE others[1].key
    OBVIOUS
  <2>4. SetEdges(key, Append(Find(key).edges, target))
    BY <1>1, <2>1, <2>2, <2>3 DEF AddEdge, Filtered
  <2>5. IsList(ss) /\ at \in SUBSET DOMAIN ss
    BY <1>0, <2>1 DEF IsPage, IsGraph, IsWired, ss
  <2>6. IsList(others) /\ \A k \in DOMAIN others : \E i \in at : others[k] = ss[i]
    BY <2>2, <2>5, PickedHas
  <2>7. target \in Keys(ss) \cup {CLOSE}
    <3>1. CASE others = <<>>
      BY <2>3, <3>1
    <3>2. CASE others # <<>>
      <4>1. Len(others) \in Nat /\ DOMAIN others = 1..Len(others) /\ Len(others) # 0
        BY <2>6, <3>2, ListIs
      <4>2. 1 \in DOMAIN others
        BY <4>1
      <4> QED
        BY <2>3, <2>5, <2>6, <3>2, <4>2 DEF Keys
    <3> QED
      BY <3>1, <3>2
  <2>8. key # FAQS /\ Find(key).edges \in Seq(Keys(ss) \cup {CLOSE})
    BY LinkedHas
  <2>9. Append(Find(key).edges, target) \in Seq(Keys(ss) \cup {CLOSE})
    BY <2>7, <2>8, AppendProperties
  <2> QED
    BY <2>4, <2>8, <2>9, EdgesEdited
<1>2. ASSUME NEW key \in Linked, NEW e \in DOMAIN Find(key).edges, UpdateEdge(key, e)
      PROVE  Edited
  <2>1. PICK to \in Keys(ss) : SetEdges(key, [Find(key).edges EXCEPT ![e] = to])
    BY <1>2 DEF UpdateEdge
  <2>2. key # FAQS /\ Find(key).edges \in Seq(Keys(ss) \cup {CLOSE})
    BY LinkedHas
  <2>3. [Find(key).edges EXCEPT ![e] = to] \in Seq(Keys(ss) \cup {CLOSE})
    BY <2>2, ExceptSeq, LenProperties
  <2> QED
    BY <2>1, <2>2, <2>3, EdgesEdited
<1>3. ASSUME NEW key \in Linked, NEW e \in DOMAIN Find(key).edges, RemoveEdge(key, e)
      PROVE  Edited
  <2>1. PICK edges : edges = Find(key).edges
    OBVIOUS
  <2>2. key # FAQS /\ edges \in Seq(Keys(ss) \cup {CLOSE})
    BY <2>1, LinkedHas
  <2>3. e \in 1..Len(edges) /\ Len(edges) \in Nat
    BY <2>1, <2>2, LenProperties
  <2>4. RemoveAt(edges, e) \in Seq(Keys(ss) \cup {CLOSE})
    <3> DEFINE S == Keys(ss) \cup {CLOSE}
    <3>1. \A i \in 1..Len(edges) : edges[i] \in S
      BY <2>2, ElementOfSeq
    <3> HIDE DEF S
    <3>2. SubSeq(edges, 1, e - 1) \in Seq(S)
      <4>1. \A i \in 1..e - 1 : edges[i] \in S
        BY <2>3, <3>1
      <4> QED
        BY <2>3, <4>1, SubSeqProperties
    <3>3. SubSeq(edges, e + 1, Len(edges)) \in Seq(S)
      <4>1. \A i \in e + 1..Len(edges) : edges[i] \in S
        BY <2>3, <3>1
      <4> QED
        BY <2>3, <4>1, SubSeqProperties
    <3>4. RemoveAt(edges, e) \in Seq(S)
      BY <3>2, <3>3, ConcatProperties DEF RemoveAt
    <3> QED
      BY <3>4 DEF S
  <2> QED
    BY <1>3, <2>1, <2>2, <2>4, EdgesEdited DEF RemoveEdge
<1>4. ASSUME NEW key, Mention(key) PROVE Edited
  <2>1. PICK used : Edit([bundle EXCEPT !.used = used])
    BY <1>4 DEF Mention
  <2>2. IsPage([bundle EXCEPT !.used = used])
    BY <1>0 DEF IsPage
  <2> QED
    BY <2>1, <2>2, EditCounted
<1>5. CASE Assist
  BY <1>0, <1>5, PageIsScript, RepairIsPage, EditCounted DEF Assist
<1>6. CASE Import \/ Regenerate
  BY <1>6, GenerableIsPage, EditCounted DEF Import, Regenerate
<1> QED
  BY <1>1, <1>2, <1>3, <1>4, <1>5, <1>6, ToggleEdits, MoveEdits, AddSectionEdits,
     DeleteSectionEdits, AddVariableEdits, DeleteVariableEdits, ToggleRequiredEdits DEF EditPage

(***************************************************************************)
(* The runner.                                                             *)
(***************************************************************************)

\* A call starts in a section of the script, if it starts in one.
LEMMA EntryIs ==
    ASSUME NEW list, IsGraph(list)
    PROVE  Entry(list) \in Keys(list) \cup {Nowhere}
<1>1. PICK at : at = {i \in DOMAIN list : list[i].enabled}
  OBVIOUS
<1>2. PICK on : on = Picked(list, at)
  OBVIOUS
<1>3. Enabled(list) = on
  BY <1>1, <1>2 DEF Enabled, Filtered
<1>4. IsList(on) /\ \A k \in DOMAIN on : \E i \in at : on[k] = list[i]
  <2>1. IsList(list) /\ at \in SUBSET DOMAIN list
    BY <1>1 DEF IsGraph, IsWired
  <2> QED
    BY <1>2, <2>1, PickedHas
<1>5. \A k \in DOMAIN on : on[k].key \in Keys(list) /\ on[k].order \in Nat
  BY <1>1, <1>4 DEF IsGraph, Keys
<1>6. ASSUME NEW those \in SUBSET DOMAIN on, those # {}
      PROVE  on[CHOOSE i \in those : \A j \in those : on[i].order <= on[j].order].key
                \in Keys(list)
  <2>1. PICK orders : orders = {on[i].order : i \in those}
    OBVIOUS
  <2>2. orders \in SUBSET Nat /\ orders # {}
    BY <1>5, <1>6, <2>1
  <2>3. PICK m \in orders : \A n \in orders : m <= n
    BY <2>2, LeastOf
  <2>4. PICK i \in those : on[i].order = m
    BY <2>1
  <2>5. \A j \in those : on[i].order <= on[j].order
    BY <2>1, <2>3, <2>4
  <2>6. (CHOOSE f \in those : \A j \in those : on[f].order <= on[j].order) \in those
    BY <2>5
  <2> QED
    BY <1>5, <2>6
<1>7. CASE on = <<>>
  BY <1>3, <1>7 DEF Entry
<1>8. CASE on # <<>> /\ \E i \in DOMAIN on : Spoken(on[i])
  <2>1. PICK those : those = {i \in DOMAIN on : Spoken(on[i])}
    OBVIOUS
  <2>2. Entry(list) = on[CHOOSE i \in those : \A j \in those : on[i].order <= on[j].order].key
    BY <1>3, <1>8, <2>1 DEF Entry, Lowest
  <2>3. those \in SUBSET DOMAIN on /\ those # {}
    BY <1>8, <2>1
  <2> QED
    BY <1>6, <2>2, <2>3
<1>9. CASE on # <<>> /\ ~\E i \in DOMAIN on : Spoken(on[i])
  <2>1. PICK those : those = {i \in DOMAIN on : TRUE}
    OBVIOUS
  <2>2. Entry(list) = on[CHOOSE i \in those : \A j \in those : on[i].order <= on[j].order].key
    BY <1>3, <1>9, <2>1 DEF Entry, Lowest
  <2>3. those \in SUBSET DOMAIN on /\ those # {}
    <3>1. DOMAIN on = 1..Len(on) /\ Len(on) \in Nat /\ Len(on) # 0
      BY <1>4, <1>9, ListIs
    <3>2. 1 \in DOMAIN on
      BY <3>1
    <3> QED
      BY <2>1, <3>2
  <2> QED
    BY <1>6, <2>2, <2>3
<1> QED
  BY <1>7, <1>8, <1>9

\* No script is on the page but what generation returns or the program provides.
LEMMA ScriptStart == Init => ScriptInv
<1> SUFFICES ASSUME Init PROVE ScriptInv
  OBVIOUS
<1>1. IsList(<<CLOSE>>) /\ ToSet(<<CLOSE>>) = {CLOSE}
  BY DEF IsList, ToSet
<1>2. \A a, b : IsList(<<a, b>>) /\ ToSet(<<a, b>>) = {a, b}
  BY DEF IsList, ToSet
<1>3. \A key, order : \A edges :
         /\ DOMAIN Section(key, order, edges) = {"key", "order", "enabled", "edges"}
         /\ Section(key, order, edges).key = key /\ Section(key, order, edges).order = order
         /\ Section(key, order, edges).enabled = TRUE
         /\ Section(key, order, edges).edges = edges
  BY DEF Section
<1>3a. \A key, edges : \A order \in Nat :
          edges = Terminal \/ IsList(edges) =>
              IsSection(Section(key, order, edges)) /\ Section(key, order, edges).order \in Nat
  <2> TAKE key, edges
  <2> TAKE order \in Nat
  <2>1. PICK s : s = Section(key, order, edges)
    OBVIOUS
  <2>2. /\ DOMAIN s = {"key", "order", "enabled", "edges"}
        /\ s.enabled = TRUE /\ s.edges = edges /\ s.order = order
    BY <1>3, <2>1
  <2>3. edges = Terminal \/ IsList(edges) => IsSection(s)
    BY <2>2 DEF IsSection
  <2> QED
    BY <2>1, <2>2, <2>3
<1>3b. /\ IsVariable(Phone) /\ Phone.phone = TRUE /\ Phone.key = "phone"
       /\ IsVariable(LeadName) /\ LeadName.phone = FALSE
  BY DEF IsVariable, Phone, LeadName
<1>4. IsPage(Deterministic)
  <2>1. PICK list : list = Deterministic.sections
    OBVIOUS
  <2>2. /\ DOMAIN list = 1..5 /\ list = [i \in 1..5 |-> list[i]]
        /\ list[1] = Section(<<"greeting">>, 1, << <<"qualify">>, CLOSE >>)
        /\ list[2] = Section(<<"qualify">>, 2, << <<"confirm">>, FAQS >>)
        /\ list[3] = Section(<<"confirm">>, 3, <<CLOSE>>)
        /\ list[4] = Section(FAQS, 4, Terminal)
        /\ list[5] = Section(CLOSE, 5, Terminal)
    BY <2>1 DEF Deterministic
  <2>3. \A i \in 1..5 : i = 1 \/ i = 2 \/ i = 3 \/ i = 4 \/ i = 5
    OBVIOUS
  <2>4. /\ list[1].key = <<"greeting">> /\ list[2].key = <<"qualify">>
        /\ list[3].key = <<"confirm">> /\ list[4].key = FAQS /\ list[5].key = CLOSE
        /\ list[1].edges = << <<"qualify">>, CLOSE >> /\ list[2].edges = << <<"confirm">>, FAQS >>
        /\ list[3].edges = <<CLOSE>> /\ list[4].edges = Terminal /\ list[5].edges = Terminal
    BY <1>3, <2>2
  <2>5. {<<"qualify">>, <<"confirm">>, FAQS, CLOSE} \subseteq Keys(list)
    BY <2>2, <2>4 DEF Keys
  <2>6. \A i \in DOMAIN list : IsSection(list[i]) /\ list[i].order \in Nat
    BY <1>1, <1>2, <1>3a, <2>2, <2>3
  <2>7. \A i \in DOMAIN list : Targets(list[i]) \subseteq {<<"qualify">>, <<"confirm">>, FAQS, CLOSE}
    BY <1>1, <1>2, <2>2, <2>3, <2>4 DEF Targets
  <2>8. <<"greeting">> # FAQS /\ <<"qualify">> # FAQS /\ <<"confirm">> # FAQS
    BY DEF FAQS
  <2>9. \A i \in DOMAIN list : list[i].key = FAQS => list[i].edges = Terminal
    BY <2>2, <2>3, <2>4, <2>8
  <2>10. IsList(list)
    BY <2>2, ListOf
  <2>11. IsGraph(list)
    BY <2>5, <2>6, <2>7, <2>9, <2>10 DEF IsGraph, IsWired
  <2>12. PICK variables : variables = Deterministic.vars
    OBVIOUS
  <2>13. /\ DOMAIN variables = 1..3 /\ variables = [i \in 1..3 |-> variables[i]]
         /\ variables[1] = Phone /\ variables[2] = LeadName
         /\ variables[3] = [key |-> "need", pre |-> FALSE, required |-> FALSE,
                            phone |-> FALSE, lead |-> FALSE]
    BY <2>12 DEF Deterministic
  <2>14. HasOnePhone(variables)
    <3>0. IsVariable(variables[3]) /\ variables[3].phone = FALSE
      <4>1. PICK need : need = [key |-> "need", pre |-> FALSE, required |-> FALSE,
                                phone |-> FALSE, lead |-> FALSE]
        OBVIOUS
      <4>2. DOMAIN need = {"key", "pre", "required", "phone", "lead"} /\ need.phone = FALSE
        BY <4>1
      <4>3. IsVariable(need)
        BY <4>2 DEF IsVariable
      <4> QED
        BY <2>13, <4>1, <4>2, <4>3
    <3>1. IsList(variables)
      BY <2>13, ListOf
    <3>2. \A i \in 1..3 : i = 1 \/ i = 2 \/ i = 3
      OBVIOUS
    <3>3. \A i \in DOMAIN variables : /\ IsVariable(variables[i])
                                      /\ variables[i].phone => variables[i].key = "phone"
      BY <1>3b, <2>13, <3>0, <3>2
    <3>4. 1 \in DOMAIN variables /\ variables[1].phone
      BY <1>3b, <2>13
    <3>5. \A j \in DOMAIN variables : variables[j].phone => j = 1
      BY <1>3b, <2>13, <3>0, <3>2
    <3> QED
      BY <3>1, <3>3, <3>4, <3>5 DEF HasOnePhone
  <2>15. DOMAIN Deterministic = {"sections", "vars", "used"}
    BY DEF Deterministic
  <2> QED
    BY <2>1, <2>11, <2>12, <2>14, <2>15 DEF IsPage
<1>5. IsPage(Migrated)
  <2>1. PICK list : list = Migrated.sections
    OBVIOUS
  <2>2. /\ DOMAIN list = 1..3 /\ list = [i \in 1..3 |-> list[i]]
        /\ list[1] = Section(<<"greeting">>, 1, <<FAQS, CLOSE>>)
        /\ list[2] = Section(FAQS, 2, Terminal)
        /\ list[3] = Section(CLOSE, 3, Terminal)
    BY <2>1 DEF Migrated
  <2>3. \A i \in 1..3 : i = 1 \/ i = 2 \/ i = 3
    OBVIOUS
  <2>4. /\ list[1].key = <<"greeting">> /\ list[2].key = FAQS /\ list[3].key = CLOSE
        /\ list[1].edges = <<FAQS, CLOSE>> /\ list[2].edges = Terminal /\ list[3].edges = Terminal
    BY <1>3, <2>2
  <2>5. {FAQS, CLOSE} \subseteq Keys(list)
    BY <2>2, <2>4 DEF Keys
  <2>6. \A i \in DOMAIN list : IsSection(list[i]) /\ list[i].order \in Nat
    BY <1>2, <1>3a, <2>2, <2>3
  <2>7. \A i \in DOMAIN list : Targets(list[i]) \subseteq {FAQS, CLOSE}
    BY <1>2, <2>2, <2>3, <2>4 DEF Targets
  <2>8. <<"greeting">> # FAQS
    BY DEF FAQS
  <2>9. \A i \in DOMAIN list : list[i].key = FAQS => list[i].edges = Terminal
    BY <2>2, <2>3, <2>4, <2>8
  <2>10. IsList(list)
    BY <2>2, ListOf
  <2>11. IsGraph(list)
    BY <2>5, <2>6, <2>7, <2>9, <2>10 DEF IsGraph, IsWired
  <2>12. PICK variables : variables = Migrated.vars
    OBVIOUS
  <2>13. /\ DOMAIN variables = 1..2 /\ variables = [i \in 1..2 |-> variables[i]]
         /\ variables[1] = Phone /\ variables[2] = LeadName
    BY <2>12 DEF Migrated
  <2>14. HasOnePhone(variables)
    <3>1. IsList(variables)
      BY <2>13, ListOf
    <3>2. \A i \in 1..2 : i = 1 \/ i = 2
      OBVIOUS
    <3>3. \A i \in DOMAIN variables : /\ IsVariable(variables[i])
                                      /\ variables[i].phone => variables[i].key = "phone"
      BY <1>3b, <2>13, <3>2
    <3>4. 1 \in DOMAIN variables /\ variables[1].phone
      BY <1>3b, <2>13
    <3>5. \A j \in DOMAIN variables : variables[j].phone => j = 1
      BY <1>3b, <2>13, <3>2
    <3> QED
      BY <3>1, <3>3, <3>4, <3>5 DEF HasOnePhone
  <2>15. DOMAIN Migrated = {"sections", "vars", "used"}
    BY DEF Migrated
  <2> QED
    BY <2>1, <2>11, <2>12, <2>14, <2>15 DEF IsPage
<1>6. IsPage(Synthesised)
  <2>1. PICK blank : blank = [sections |-> <<>>, vars |-> <<>>, used |-> {"lead_name"}]
    OBVIOUS
  <2>2. IsList(<<>>) /\ DOMAIN <<>> = {}
    BY DEF IsList
  <2>3. IsScript(blank)
    BY <2>1, <2>2 DEF IsScript
  <2> QED
    BY <2>1, <2>3, RepairIsPage DEF Synthesised
<1>7. IsPage(bundle)
  BY <1>4, <1>5, <1>6, GenerableIsPage DEF Init
<1>8. edits \in 0..MaxEdits /\ asks \in 0..MaxAsks
  BY ScriptAssumption DEF Init
<1>9. current = Nowhere /\ told = Nowhere /\ previous = Nowhere /\ asked = {} /\ calling = FALSE
  BY DEF Init
<1>10. ToldIsCurrent
  BY <1>9 DEF ToldIsCurrent
<1> QED
  BY <1>7, <1>8, <1>9, <1>10 DEF ScriptInv

\* No step of the page or of the call separates what the language model is told from
\* where the runner stands, nor either from the script.
LEMMA ScriptStep == ASSUME ScriptInv, [Next]_vars PROVE ScriptInv'
<1>1. CASE EditPage
  <2>1. Edited
    BY <1>1, PageEdits
  <2> QED
    BY <2>1, ScriptAssumption DEF Edited, call, ScriptInv, ToldIsCurrent
<1>2. CASE StartCall
  <2>1. Entry(ss) \in Keys(ss) \cup {Nowhere}
    BY EntryIs DEF ScriptInv, IsPage, ss
  <2>2. ss' = ss /\ current' \in Keys(ss') \cup {Nowhere} /\ told' = current'
    BY <1>2, <2>1 DEF StartCall, ss
  <2>3. previous' = Nowhere /\ asked' = {} /\ calling' = TRUE
    BY <1>2 DEF StartCall, ScriptInv
  <2> QED
    BY <1>2, <2>2, <2>3 DEF StartCall, ScriptInv, ToldIsCurrent
<1>3. ASSUME NEW target \in Keys(ss), Ask(target) PROVE ScriptInv'
  <2>1. asks' \in 0..MaxAsks
    BY <1>3, ScriptAssumption DEF Ask, ScriptInv
  <2> QED
    BY <1>3, <2>1 DEF Ask, ScriptInv, ToldIsCurrent, ss
<1>4. ASSUME NEW request \in asked, Transition(request) PROVE ScriptInv'
  <2>0. calling /\ ss' = ss /\ asked' \subseteq asked
    BY <1>4 DEF Transition, ScriptInv, ss
  <2>1. CASE current' = current /\ previous' = previous
    BY <1>4, <2>0, <2>1 DEF Transition, ScriptInv, ToldIsCurrent
  <2>2. CASE /\ current # Nowhere /\ request[2] \in Allowed(ss, current)
             /\ current' = request[2] /\ previous' = current
    <3>1. current' \in Allowed(ss, previous') /\ request[2] \in Keys(ss)
      BY <1>4, <2>2 DEF ScriptInv
    <3>2. told' = previous' /\ previous' # Nowhere
      BY <1>4, <2>2 DEF Transition, ScriptInv, ToldIsCurrent
    <3>3. ToldIsCurrent'
      BY <2>0, <3>1, <3>2 DEF ToldIsCurrent
    <3> QED
      BY <1>4, <2>0, <2>2, <3>1, <3>3 DEF Transition, ScriptInv
  <2> QED
    BY <1>4, <2>1, <2>2 DEF Transition
<1>5. CASE Updated
  BY <1>5 DEF Updated, ScriptInv, ToldIsCurrent, ss
<1>6. CASE UpdateFailed
  BY <1>6 DEF UpdateFailed, ScriptInv, ToldIsCurrent, ss
<1>7. CASE UNCHANGED vars
  BY <1>7 DEF vars, ScriptInv, ToldIsCurrent, ss
<1> QED
  BY <1>1, <1>2, <1>3, <1>4, <1>5, <1>6, <1>7 DEF Next, RunCall

\* A script always has FAQs that lead nowhere, one phone variable and no edge to a
\* section that is not there, whatever scripts there are and in whatever order its
\* sections are added, moved, rewired, deleted and repaired; a call stays in sections of
\* its script.
THEOREM ScriptTyped == Spec => []TypeOK
<1>1. ScriptInv => TypeOK
  <2> SUFFICES ASSUME ScriptInv PROVE TypeOK
    OBVIOUS
  <2>1. IsGraph(ss) /\ HasOnePhone(bundle.vars)
    BY DEF ScriptInv, IsPage, ss
  <2>2. IsVariables(bundle.vars)
    BY <2>1 DEF HasOnePhone, IsVariables
  <2>3. Cardinality({i \in DOMAIN bundle.vars : bundle.vars[i].phone}) = 1
    BY <2>1, <2>2, OnePhoneCounted DEF HasOnePhone
  <2>4. /\ \A i \in DOMAIN ss :
              /\ ss[i].order \in Nat /\ ss[i].enabled \in BOOLEAN
              /\ Targets(ss[i]) \subseteq Keys(ss) \cup {CLOSE}
              /\ ss[i].key = FAQS => ss[i].edges = Terminal
        /\ FAQS \in Keys(ss)
    BY <2>1 DEF IsGraph, IsWired, IsSection
  <2>5. CLOSE \in Keys(ss) => \A i \in DOMAIN ss : Targets(ss[i]) \subseteq Keys(ss)
    BY <2>4
  <2> QED
    BY <2>3, <2>4, <2>5 DEF ScriptInv, TypeOK
<1>2. ScriptInv /\ [Next]_vars => ScriptInv'
  BY ScriptStep
<1> QED
  BY <1>1, <1>2, ScriptStart, PTL DEF Spec

\* The language model never acts on the instructions of one section while the runner
\* stands in another, whatever scripts there are and in whatever order tool calls,
\* their refusals and failed updates come.
THEOREM ToldIsCurrentAlways == Spec => []ToldIsCurrent
<1>1. ScriptInv => ToldIsCurrent
  BY DEF ScriptInv
<1>2. ScriptInv /\ [Next]_vars => ScriptInv'
  BY ScriptStep
<1> QED
  BY <1>1, <1>2, ScriptStart, PTL DEF Spec

\* The schema wants FAQs that are terminal, the package a close that is, and the package
\* lets only the last section be.
LEMMA RulesExclude ==
    ASSUME NEW b, IsScript(b), Valid(b), ValidInPackage(b)
    PROVE  FALSE
<1> DEFINE list == b.sections
<1>1. Len(list) \in Nat /\ DOMAIN list = 1..Len(list)
  BY ListIs DEF IsScript
<1>2. \A i \in DOMAIN list : list[i].edges = Terminal => i = Len(list)
  <2>1. \A i \in 1..Len(list) - 1 : list[i].edges # Terminal
    BY DEF ValidInPackage
  <2> QED
    BY <1>1, <2>1
<1>3. PICK i \in DOMAIN list : list[i].key = FAQS /\ list[i].edges = Terminal
  BY DEF Valid, ValidSections
<1>4. PICK j \in DOMAIN list : list[j].key = CLOSE /\ list[j].edges = Terminal
  BY DEF ValidInPackage
<1>5. FAQS = CLOSE
  BY <1>2, <1>3, <1>4
<1> QED
  BY <1>5 DEF FAQS, CLOSE

\* No script the page can hold, edited, repaired, imported or generated, passes both
\* the schema of the routes that write and that of the route that validates.
THEOREM NeverBothValidAlways == Spec => []NeverBothValid
<1>1. ScriptInv => NeverBothValid
  BY PageIsScript, RulesExclude DEF ScriptInv, NeverBothValid
<1>2. ScriptInv /\ [Next]_vars => ScriptInv'
  BY ScriptStep
<1> QED
  BY <1>1, <1>2, ScriptStart, PTL DEF Spec

(***************************************************************************)
(* What the runner covers.                                                 *)
(***************************************************************************)

\* Induction over the natural numbers.
LEMMA Inductive ==
    ASSUME NEW T, 0 \in T, \A n \in Nat : n \in T => n + 1 \in T
    PROVE  Nat \subseteq T
<1> SUFFICES ASSUME Nat \ T # {} PROVE FALSE
  OBVIOUS
<1>1. PICK m \in Nat \ T : \A n \in Nat \ T : m <= n
  BY LeastOf
<1>2. m # 0 /\ m - 1 \in Nat
  BY <1>1
<1>3. m - 1 \in T
  BY <1>1, <1>2
<1>4. (m - 1) + 1 \in T
  BY <1>2, <1>3
<1> QED
  BY <1>1, <1>4

\* What starts at A and goes on by G, for n steps.
Grows(r, P, A, G, n) ==
    r \in [0..n -> P] /\ r[0] = A /\ \A k \in 1..n : r[k] = G[r[k - 1]]

\* It is defined at every step.
LEMMA Grown ==
    ASSUME NEW P, NEW A \in P, NEW G \in [P -> P], NEW n \in Nat
    PROVE  \E r : Grows(r, P, A, G, n)
<1> DEFINE T == {m \in Nat : \E r : Grows(r, P, A, G, m)}
<1>1. 0 \in T
  <2>1. PICK r : r = [k \in 0..0 |-> A]
    OBVIOUS
  <2>2. Grows(r, P, A, G, 0)
    BY <2>1 DEF Grows
  <2> QED
    BY <2>2
<1>2. ASSUME NEW m \in Nat, m \in T PROVE m + 1 \in T
  <2>0. PICK r : Grows(r, P, A, G, m)
    BY <1>2
  <2>1. r \in [0..m -> P] /\ r[0] = A /\ \A k \in 1..m : r[k] = G[r[k - 1]]
    BY <2>0 DEF Grows
  <2>2. PICK q : q = [k \in 0..m + 1 |-> IF k = m + 1 THEN G[r[m]] ELSE r[k]]
    OBVIOUS
  <2>3. r[m] \in P /\ G[r[m]] \in P
    BY <2>1
  <2>4. \A k \in 0..m + 1 : k = m + 1 \/ k \in 0..m
    OBVIOUS
  <2>5. q \in [0..m + 1 -> P]
    BY <2>1, <2>2, <2>3, <2>4
  <2>6. \A k \in 1..m + 1 : q[k] = G[q[k - 1]]
    <3> TAKE k \in 1..m + 1
    <3>1. k - 1 \in 0..m /\ q[k - 1] = r[k - 1]
      BY <2>2
    <3>2. CASE k = m + 1
      BY <2>2, <3>1, <3>2
    <3>3. CASE k # m + 1
      <4>1. k \in 1..m /\ q[k] = r[k]
        BY <2>2, <3>3
      <4> QED
        BY <2>1, <3>1, <4>1
    <3> QED
      BY <3>2, <3>3
  <2>7. q[0] = A
    BY <2>1, <2>2
  <2>8. Grows(q, P, A, G, m + 1)
    BY <2>5, <2>6, <2>7 DEF Grows
  <2> QED
    BY <2>8
<1> HIDE DEF T
<1>3. Nat \subseteq T
  BY <1>1, <1>2, Inductive
<1> QED
  BY <1>3 DEF T

\* When all its sections are enabled the runner has the whole script.
LEMMA AllEnabled ==
    ASSUME NEW list, IsList(list), \A i \in DOMAIN list : list[i].enabled
    PROVE  Enabled(list) = list
<1> DEFINE n == Len(list)
           at == {i \in DOMAIN list : list[i].enabled}
           Nth(i) == Cardinality({j \in at : j <= i})
<1>1. n \in Nat /\ DOMAIN list = 1..n /\ list = [i \in 1..n |-> list[i]]
  BY ListIs
<1>2. at = 1..n
  BY <1>1
<1>3. \A i \in 0..n : Cardinality(1..i) = i
  <2> TAKE i \in 0..n
  <2>1. 1 \in Int /\ i \in Int /\ (1 > i => i = 0)
    BY <1>1
  <2>2. Cardinality(1..i) = IF 1 > i THEN 0 ELSE i - 1 + 1
    BY <2>1, FS_Interval
  <2> QED
    BY <2>1, <2>2
<1>4. \A i \in 1..n : Nth(i) = i
  <2> TAKE i \in 1..n
  <2>1. {j \in at : j <= i} = 1..i
    BY <1>1, <1>2
  <2>2. i \in 0..n
    BY <1>1
  <2>3. Cardinality(1..i) = i
    BY <1>3, <2>2
  <2> QED
    BY <2>1, <2>3
<1>5. Cardinality(at) = n
  <2>1. n \in 0..n
    BY <1>1
  <2> QED
    BY <1>2, <1>3, <2>1
<1>6. Enabled(list) = [k \in 1..n |-> list[CHOOSE i \in at : Nth(i) = k]]
  BY <1>5 DEF Enabled, Filtered, Picked
<1>7. \A k \in 1..n : (CHOOSE i \in at : Nth(i) = k) = k
  <2> HIDE DEF Nth
  <2> QED
    BY <1>2, <1>4
<1> HIDE DEF at, Nth
<1>8. Enabled(list) = [k \in 1..n |-> list[k]]
  BY <1>6, <1>7
<1> QED
  BY <1>1, <1>8

\* Orders that make up 1..n are all different.
LEMMA OrdersOnce ==
    ASSUME NEW list, IsList(list), {list[i].order : i \in DOMAIN list} = DOMAIN list
    PROVE  \A i, j \in DOMAIN list : list[i].order = list[j].order => i = j
<1>1. PICK f : f = [i \in DOMAIN list |-> list[i].order]
  OBVIOUS
<1>2. f \in Surjection(DOMAIN list, DOMAIN list)
  BY <1>1 DEF Surjection
<1>3. IsFiniteSet(DOMAIN list)
  <2>1. 1 \in Int /\ Len(list) \in Int /\ DOMAIN list = 1..Len(list)
    BY ListIs
  <2> QED
    BY <2>1, FS_Interval
<1>4. f \in Injection(DOMAIN list, DOMAIN list)
  BY <1>2, <1>3, FS_SurjSameCardinalityImpliesInj
<1> QED
  BY <1>1, <1>4 DEF Injection, IsInjective

\* The section of order 1 is the lowest of any sections it is among.
LEMMA LowestOf ==
    ASSUME NEW list, IsList(list), {list[i].order : i \in DOMAIN list} = DOMAIN list,
           NEW those \in SUBSET DOMAIN list, NEW first \in those, list[first].order = 1
    PROVE  (CHOOSE i \in those : \A j \in those : list[i].order <= list[j].order) = first
<1>1. DOMAIN list = 1..Len(list) /\ Len(list) \in Nat
  BY ListIs
<1>2. \A j \in those : list[j].order \in Nat /\ 1 <= list[j].order
  <2>1. \A j \in those : list[j].order \in 1..Len(list)
    BY <1>1
  <2>2. \A o \in 1..Len(list) : o \in Nat /\ 1 <= o
    BY <1>1
  <2> QED
    BY <2>1, <2>2
<1>3. \A j \in those : list[first].order <= list[j].order
  BY <1>2
<1>4. \A i \in those :
         (\A j \in those : list[i].order <= list[j].order) => list[i].order = 1
  <2> SUFFICES ASSUME NEW i \in those, list[i].order <= list[first].order
               PROVE  list[i].order = 1
    OBVIOUS
  <2>1. list[i].order \in Nat /\ 1 <= list[i].order /\ list[i].order <= 1
    BY <1>2
  <2> QED
    BY <2>1
<1>5. \A i \in those : (\A j \in those : list[i].order <= list[j].order) => i = first
  BY <1>4, OrdersOnce
<1> QED
  BY <1>3, <1>5

\* What one step of the schema's search, and one of the runner, adds to a set of keys.
Found(list, keys) ==
    UNION {Targets(list[i]) : i \in {j \in DOMAIN list : list[j].key \in keys}}
Walked(list, keys) == UNION {Allowed(list, key) : key \in keys}

\* One step of the schema's search and one of the runner agree but for the FAQs, which
\* lead nowhere and are led to by no transition.
LEMMA StepAgrees ==
    ASSUME NEW list, IsList(list), ValidSections(list), Enabled(list) = list,
           NEW R \in SUBSET Keys(list), NEW W, W = R \ {FAQS}
    PROVE  W \cup Walked(list, W) = (R \cup Found(list, R)) \ {FAQS}
<1> DEFINE walked == W \cup Walked(list, W)
           found == R \cup Found(list, R)
<1>1. \A i \in DOMAIN list : Targets(list[i]) \subseteq Keys(list)
  BY DEF ValidSections
<1>2. \A i \in DOMAIN list : list[i].key = FAQS => Targets(list[i]) = {}
  BY DEF ValidSections, IsInjective, Targets
<1>3. ASSUME NEW to \in walked PROVE to \in found \ {FAQS}
  <2>1. CASE to \in W
    BY <2>1
  <2>2. CASE \E key \in W : to \in Allowed(list, key)
    BY <2>2 DEF Allowed, Found
  <2> QED
    BY <1>3, <2>1, <2>2 DEF Walked
<1>4. ASSUME NEW to \in found \ {FAQS} PROVE to \in walked
  <2>1. CASE to \in R
    BY <1>4, <2>1
  <2>2. ASSUME NEW i \in DOMAIN list, list[i].key \in R, to \in Targets(list[i])
        PROVE  to \in walked
    <3>1. list[i].key \in W
      BY <1>2, <2>2
    <3>2. to \in Allowed(list, list[i].key)
      BY <1>1, <1>4, <2>2 DEF Allowed
    <3> QED
      BY <3>1, <3>2 DEF Walked
  <2> QED
    BY <1>4, <2>1, <2>2 DEF Found
<1> QED
  BY <1>3, <1>4

\* The FAQs are not where an accepted script of several sections starts: they lead
\* nowhere, and the schema wants the others reached from the start.
LEMMA NotFromFaqs ==
    ASSUME NEW list, IsList(list), ValidSections(list), Len(list) > 1, NEW r,
           r[0] = {FAQS}, \A k \in 1..Len(list) : r[k] = r[k - 1] \cup Found(list, r[k - 1])
    PROVE  ~(Keys(list) \ {FAQS} \subseteq r[Len(list)])
<1>0. Len(list) \in Nat /\ DOMAIN list = 1..Len(list)
  BY ListIs
<1>1. Found(list, {FAQS}) = {}
  <2>1. ASSUME NEW j \in DOMAIN list, list[j].key = FAQS PROVE Targets(list[j]) = {}
    <3>1. PICK i \in DOMAIN list : list[i].key = FAQS /\ list[i].edges = Terminal
      BY DEF ValidSections
    <3>2. IsInjective([n \in DOMAIN list |-> list[n].key])
      BY DEF ValidSections
    <3>3. i = j
      BY <2>1, <3>1, <3>2 DEF IsInjective
    <3> QED
      BY <3>1, <3>3 DEF Targets
  <2> QED
    BY <2>1 DEF Found
<1> DEFINE T == {k \in Nat : k \in 0..Len(list) => r[k] = {FAQS}}
<1>2. 0 \in T
  OBVIOUS
<1>3. ASSUME NEW k \in Nat, k \in T PROVE k + 1 \in T
  <2>1. ASSUME k + 1 \in 0..Len(list) PROVE r[k + 1] = {FAQS}
    <3>1. k \in 0..Len(list) /\ k + 1 \in 1..Len(list) /\ (k + 1) - 1 = k
      BY <1>0, <2>1
    <3>2. r[k] = {FAQS}
      BY <1>3, <3>1
    <3>3. r[k + 1] = r[(k + 1) - 1] \cup Found(list, r[(k + 1) - 1])
      BY <3>1
    <3>4. r[k + 1] = {FAQS} \cup Found(list, {FAQS})
      BY <3>1, <3>2, <3>3
    <3> QED
      BY <1>1, <3>4
  <2> QED
    BY <2>1
<1> HIDE DEF T
<1>4. Nat \subseteq T
  BY <1>2, <1>3, Inductive
<1>5. r[Len(list)] = {FAQS}
  BY <1>0, <1>4 DEF T
<1>6. 1 \in DOMAIN list /\ 2 \in DOMAIN list
  BY <1>0
<1>7. list[1].key # list[2].key
  BY <1>6 DEF ValidSections, IsInjective
<1>8. list[1].key \in Keys(list) /\ list[2].key \in Keys(list)
  BY <1>6 DEF Keys
<1>9. list[1].key # FAQS \/ list[2].key # FAQS
  BY <1>7
<1> QED
  BY <1>5, <1>8, <1>9

\* Entry is where the schema starts its search.
LEMMA EntryIsLowest ==
    ASSUME NEW list, IsList(list), ValidSections(list), Enabled(list) = list,
           NEW first \in DOMAIN list, list[first].order = 1, list[first].key # FAQS
    PROVE  Entry(list) = list[first].key
<1>1. {list[i].order : i \in DOMAIN list} = DOMAIN list
  BY DEF ValidSections
<1>2. list # <<>> /\ \E i \in DOMAIN list : list[i].key # FAQS
  BY DEF ValidSections
<1>3. PICK those : those = {i \in DOMAIN list : list[i].key # FAQS}
  OBVIOUS
<1>4. those \in SUBSET DOMAIN list /\ first \in those
  BY <1>3
<1>5. (CHOOSE i \in those : \A j \in those : list[i].order <= list[j].order) = first
  BY <1>1, <1>4, LowestOf
<1> QED
  BY <1>2, <1>3, <1>5 DEF Entry, Lowest, Spoken

\* The schema's search, step by step.
Searches(r, list, start) ==
    /\ r \in [0..Len(list) -> SUBSET Keys(list)] /\ r[0] = {start}
    /\ \A k \in 1..Len(list) : r[k] = r[k - 1] \cup Found(list, r[k - 1])
    /\ Reached(list, start, Len(list)) = r[Len(list)]

\* It is what the schema computes.
LEMMA SearchIs ==
    ASSUME NEW list, IsList(list), ValidSections(list), NEW start \in Keys(list)
    PROVE  \E r : Searches(r, list, start)
<1> DEFINE n == Len(list)
           K == Keys(list)
           G == [keys \in SUBSET K |-> keys \cup Found(list, keys)]
           Search(r) == r = [k \in 0..n |-> IF k = 0 THEN {start}
                                            ELSE r[k - 1] \cup Found(list, r[k - 1])]
<1>0. n \in Nat
  BY ListIs
<1>1. \A keys : Found(list, keys) \in SUBSET K
  BY DEF ValidSections, Found
<1>2. {start} \in SUBSET K
  OBVIOUS
<1> HIDE DEF K, n
<1>3. G \in [SUBSET K -> SUBSET K]
  BY <1>1
<1>4. PICK q : Grows(q, SUBSET K, {start}, G, n)
  <2> DEFINE P == SUBSET K
             A == {start}
  <2>1. A \in P /\ G \in [P -> P]
    BY <1>2, <1>3
  <2> HIDE DEF A, P, G
  <2>2. \E r : Grows(r, P, A, G, n)
    BY <1>0, <2>1, Grown
  <2> QED
    BY <2>2 DEF A, P
<1>5. \A k \in 0..n : k # 0 => k \in 1..n /\ k - 1 \in 0..n
  BY <1>0
<1>6. \A k \in 0..n : k # 0 => G[q[k - 1]] = q[k - 1] \cup Found(list, q[k - 1])
  BY <1>4, <1>5 DEF Grows
<1>7. Search(q)
  BY <1>4, <1>5, <1>6 DEF Grows
<1>8. PICK r : r = CHOOSE f : Search(f)
  OBVIOUS
<1>9. Search(r)
  BY <1>7, <1>8
<1>10. Reached(list, start, n) = r[n]
  BY <1>8 DEF Reached, Found
<1>11. r[0] = {start}
  BY <1>0, <1>9
<1>12. \A k \in 1..n : r[k] = r[k - 1] \cup Found(list, r[k - 1])
  <2>1. \A k \in 1..n : k \in 0..n /\ k # 0
    BY <1>0
  <2> QED
    BY <1>9, <2>1
<1>13. r \in [0..n -> SUBSET K]
  <2> DEFINE T == {k \in Nat : k \in 0..n => r[k] \in SUBSET K}
  <2>1. 0 \in T
    BY <1>2, <1>11
  <2>2. ASSUME NEW k \in Nat, k \in T PROVE k + 1 \in T
    <3>1. ASSUME k + 1 \in 0..n PROVE r[k + 1] \in SUBSET K
      <4>1. k \in 0..n /\ k + 1 \in 1..n /\ (k + 1) - 1 = k
        BY <1>0, <3>1
      <4>2. r[k + 1] = r[(k + 1) - 1] \cup Found(list, r[(k + 1) - 1])
        BY <1>12, <4>1
      <4> QED
        BY <1>1, <2>2, <4>1, <4>2
    <3> QED
      BY <3>1
  <2> HIDE DEF T
  <2>3. Nat \subseteq T
    BY <2>1, <2>2, Inductive
  <2>4. \A k \in 0..n : r[k] \in SUBSET K
    BY <1>0, <2>3 DEF T
  <2>5. DOMAIN r = 0..n
    BY <1>9
  <2>6. r = [k \in 0..n |-> r[k]]
    BY <1>9
  <2> QED
    BY <2>4, <2>6
<1> QED
  BY <1>10, <1>11, <1>12, <1>13 DEF n, K, Searches

\* The runner's walk is the schema's search without the FAQs, step by step.
LEMMA WalkIsSearch ==
    ASSUME NEW list, IsList(list), ValidSections(list), Enabled(list) = list,
           NEW r \in [0..Len(list) -> SUBSET Keys(list)],
           \A k \in 1..Len(list) : r[k] = r[k - 1] \cup Found(list, r[k - 1]),
           Entry(list) # FAQS, r[0] = {Entry(list)}
    PROVE  LET walk[n \in 0..Len(list)] ==
                 IF n = 0 THEN {Entry(list)}
                 ELSE LET so_far == walk[n - 1]
                      IN  so_far \cup UNION {Allowed(list, key) : key \in so_far}
           IN  walk[Len(list)] = r[Len(list)] \ {FAQS}
<1> DEFINE n == Len(list)
           Walk(f) == f = [k \in 0..n |-> IF k = 0 THEN {Entry(list)}
                                          ELSE f[k - 1] \cup Walked(list, f[k - 1])]
<1>0. n \in Nat /\ \A k \in 0..n : k # 0 => k \in 1..n /\ k - 1 \in 0..n
  BY ListIs
<1>1. PICK q : q = [k \in 0..n |-> r[k] \ {FAQS}]
  OBVIOUS
<1>2. \A k \in 0..n : k # 0 => q[k] = q[k - 1] \cup Walked(list, q[k - 1])
  <2> SUFFICES ASSUME NEW k \in 0..n, k # 0
               PROVE  q[k] = q[k - 1] \cup Walked(list, q[k - 1])
    OBVIOUS
  <2>1. k \in 1..n /\ k - 1 \in 0..n
    BY <1>0
  <2>2. r[k - 1] \in SUBSET Keys(list) /\ q[k - 1] = r[k - 1] \ {FAQS}
    BY <1>1, <2>1
  <2>3. q[k] = (r[k - 1] \cup Found(list, r[k - 1])) \ {FAQS}
    BY <1>1, <2>1
  <2> QED
    BY <2>2, <2>3, StepAgrees
<1>3. q[0] = {Entry(list)}
  BY <1>0, <1>1
<1>4. Walk(q)
  BY <1>1, <1>2, <1>3
<1>5. PICK walk : walk = CHOOSE f : Walk(f)
  OBVIOUS
<1>6. Walk(walk)
  BY <1>4, <1>5
<1>7. \A k \in 1..n : walk[k] = walk[k - 1] \cup Walked(list, walk[k - 1])
  <2>1. \A k \in 1..n : k \in 0..n /\ k # 0
    BY <1>0
  <2> QED
    BY <1>6, <2>1
<1>8. walk[0] = q[0]
  BY <1>0, <1>3, <1>6
<1> DEFINE T == {k \in Nat : k \in 0..n => walk[k] = q[k]}
<1>9. 0 \in T
  BY <1>8
<1>10. ASSUME NEW k \in Nat, k \in T PROVE k + 1 \in T
  <2>1. ASSUME k + 1 \in 0..n PROVE walk[k + 1] = q[k + 1]
    <3>1. k \in 0..n /\ k + 1 \in 1..n /\ (k + 1) - 1 = k /\ k + 1 # 0
      BY <1>0, <2>1
    <3>2. walk[k] = q[k]
      BY <1>10, <3>1
    <3>3. walk[k + 1] = walk[(k + 1) - 1] \cup Walked(list, walk[(k + 1) - 1])
      BY <1>7, <3>1
    <3>4. q[k + 1] = q[(k + 1) - 1] \cup Walked(list, q[(k + 1) - 1])
      BY <1>2, <2>1, <3>1
    <3> QED
      BY <3>1, <3>2, <3>3, <3>4
  <2> QED
    BY <2>1
<1> HIDE DEF T
<1>11. Nat \subseteq T
  BY <1>9, <1>10, Inductive
<1>12. walk[n] = q[n]
  BY <1>0, <1>11 DEF T
<1>13. walk[n] = r[n] \ {FAQS}
  BY <1>0, <1>1, <1>12
<1> QED
  BY <1>5, <1>13 DEF Walked

\* The walk of a script that the schema accepts, all enabled, covers it.
LEMMA WalkCovers ==
    ASSUME NEW list, IsList(list), ValidSections(list),
           \A i \in DOMAIN list : list[i].enabled, Len(list) > 1
    PROVE  LET walk[n \in 0..Len(list)] ==
                 IF n = 0 THEN {Entry(list)}
                 ELSE LET so_far == walk[n - 1]
                      IN  so_far \cup UNION {Allowed(list, key) : key \in so_far}
           IN  walk[Len(list)] = Keys(list) \ {FAQS}
<1>1. Enabled(list) = list
  BY AllEnabled
<1>2. {list[i].order : i \in DOMAIN list} = DOMAIN list
  BY DEF ValidSections
<1>3. Len(list) \in Nat /\ DOMAIN list = 1..Len(list)
  BY ListIs
<1>4. PICK first \in DOMAIN list : list[first].order = 1
  <2>1. 1 \in DOMAIN list
    BY <1>3
  <2> QED
    BY <1>2, <2>1
<1>5. list[first].key \in Keys(list)
  BY DEF Keys
<1>0. PICK r : Searches(r, list, list[first].key)
  BY <1>5, SearchIs
<1>6. /\ r \in [0..Len(list) -> SUBSET Keys(list)] /\ r[0] = {list[first].key}
      /\ \A k \in 1..Len(list) : r[k] = r[k - 1] \cup Found(list, r[k - 1])
      /\ Reached(list, list[first].key, Len(list)) = r[Len(list)]
  BY <1>0 DEF Searches
<1>7. Keys(list) \ {FAQS} \subseteq r[Len(list)]
  <2>1. PICK those : those = DOMAIN list
    OBVIOUS
  <2>2. (CHOOSE i \in those : \A j \in those : list[i].order <= list[j].order) = first
    <3>1. those \in SUBSET DOMAIN list /\ first \in those
      BY <2>1
    <3> QED
      BY <1>2, <1>4, <3>1, LowestOf
  <2> DEFINE AnySection(s) == TRUE
  <2>3. Lowest(list, AnySection) = list[first].key
    BY <2>1, <2>2 DEF Lowest
  <2>4. Keys(list) \ {FAQS} \subseteq Reached(list, Lowest(list, AnySection), Len(list))
    BY DEF ValidSections
  <2> QED
    BY <1>6, <2>3, <2>4
<1>8. list[first].key # FAQS
  BY <1>6, <1>7, NotFromFaqs
<1>9. Entry(list) = list[first].key
  BY <1>1, <1>4, <1>8, EntryIsLowest
<1>10. r[Len(list)] \subseteq Keys(list)
  BY <1>3, <1>6
<1>11. LET walk[n \in 0..Len(list)] ==
             IF n = 0 THEN {Entry(list)}
             ELSE LET so_far == walk[n - 1]
                  IN  so_far \cup UNION {Allowed(list, key) : key \in so_far}
       IN  walk[Len(list)] = r[Len(list)] \ {FAQS}
  BY <1>1, <1>6, <1>8, <1>9, WalkIsSearch
<1>12. r[Len(list)] \ {FAQS} = Keys(list) \ {FAQS}
  BY <1>7, <1>10
<1> QED
  BY <1>11, <1>12

\* What the schema calls reachable the runner reaches, for every script the page can
\* hold, of whatever size: a call of an accepted script whose sections are all enabled
\* can get to every section but the FAQs, and only there.
THEOREM RunnerCoversAlways == Spec => []RunnerCoversScript
<1>1. ScriptInv => RunnerCoversScript
  BY WalkCovers DEF ScriptInv, IsPage, IsGraph, IsWired, RunnerCoversScript, Valid, ss
<1>2. ScriptInv /\ [Next]_vars => ScriptInv'
  BY ScriptStep
<1> QED
  BY <1>1, <1>2, ScriptStart, PTL DEF Spec
=============================================================================
