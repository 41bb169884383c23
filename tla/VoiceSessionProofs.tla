------------------------- MODULE VoiceSessionProofs -------------------------
(***************************************************************************)
(* The voice runtime's jobs, for any number of them and any limit: the     *)
(* tenant's limit is kept, a known hold is settled, and a caller's         *)
(* departure is noticed.                                                   *)
(***************************************************************************)
EXTENDS VoiceProps, FiniteSetTheorems, TLAPS

Before == {"load", "reserve", "incr", "expire", "deny"}

Types ==
    /\ owner \in [Jobs -> Before \cup {"session", "close", "post", "posted", "finish",
                                       "ended", "rejected", "dead"}]
    /\ cleanup \in [Jobs -> {"none", "close", "release", "zero", "settle", "done"}]
    /\ hold \in [Jobs -> {"none", "held", "settled"}]
    /\ talk \in [Jobs -> {"waiting", "bound", "live", "over"}]
    /\ caller \in [Jobs -> {"away", "here", "gone"}]
    /\ seen \in [Jobs -> Int] /\ slots \in Int /\ faults \in Nat
    /\ reserved \subseteq Jobs /\ acquired \subseteq Jobs /\ counted \subseteq Jobs
    /\ ended \subseteq Jobs /\ torn \subseteq Jobs

\* Until it is admitted or refused a job has taken no slot and begun no cleanup, and
\* its caller is not awaited yet.
Shape == \A j \in Jobs :
    /\ owner[j] \in Before =>
          cleanup[j] = "none" /\ j \notin acquired /\ talk[j] = "waiting" /\ caller[j] = "away"
    /\ owner[j] \in {"load", "reserve", "incr"} => j \notin counted
    /\ j \in acquired => seen[j] <= Limit

\* Who has a slot, or is about to learn that it has one or to give it back.
Using(j) ==
    \/ owner[j] \in {"expire", "deny"}
    \/ j \in acquired /\ owner[j] # "dead" /\ cleanup[j] \in {"none", "close", "release"}

\* While no counter has expired under a call, the counter covers those it counts, and
\* counts all who use a slot; no release finds it below zero.
Covered == ~outlived =>
    /\ slots >= Cardinality(counted)
    /\ \A j \in Jobs : (Using(j) => j \in counted) /\ cleanup[j] # "zero"

\* In every set of counted jobs one has seen a counter as high as the set is large:
\* the last of them that was counted.  This is what bounds those admitted, although
\* two jobs may have seen the same value.
Ranked == ~outlived =>
    \A S \in SUBSET counted : S # {} => \E j \in S : seen[j] >= Cardinality(S)

\* A session whose talk is over, or whose bound caller is gone, has its event set.
Noticed == \A j \in Jobs : owner[j] = "session" =>
    /\ talk[j] = "over" => j \in ended
    /\ caller[j] = "gone" /\ talk[j] # "waiting" => j \in ended

\* A cleanup that is done has settled the hold the job knew of, or failed to.
Settled == \A j \in Jobs :
    /\ owner[j] = "ended" => cleanup[j] = "done"
    /\ j \in reserved /\ cleanup[j] = "done" => hold[j] = "settled" \/ faults > 0

\* As long as nothing failed the counter is exactly the number of the jobs it counts,
\* and each of those still uses its slot, or was cancelled while it was being counted.
Exact == faults = 0 =>
    /\ ~outlived /\ slots = Cardinality(counted)
    /\ \A j \in counted : Using(j) \/ j \in torn
    /\ \A j \in Jobs : owner[j] # "dead" /\ (owner[j] = "rejected" => j \notin acquired)

VoiceInv == Types /\ Shape /\ Covered /\ Ranked /\ Noticed /\ Settled /\ Exact

\* No job has begun and the counter is not there.
LEMMA VoiceInit == Init => VoiceInv
<1> SUFFICES ASSUME Init PROVE VoiceInv
  OBVIOUS
<1>1. Types
  BY DEF Init, Types, Before
<1>2. Shape
  BY DEF Init, Shape
<1>3. Covered
  BY FS_EmptySet DEF Init, Covered, Using
<1>4. Ranked /\ Noticed /\ Settled
  BY DEF Init, Ranked, Noticed, Settled
<1>5. Exact
  BY FS_EmptySet DEF Init, Exact
<1> QED
  BY <1>1, <1>2, <1>3, <1>4, <1>5 DEF VoiceInv

\* The steps that leave the counter and the admissions alone.
LEMMA CountersUntouched ==
    ASSUME Covered, Ranked, UNCHANGED <<counter, outlived>>,
           \A j \in Jobs : (Using(j)' => Using(j))
                          /\ (cleanup[j]' = "zero" => cleanup[j] = "zero")
    PROVE  Covered' /\ Ranked'
BY DEF Covered, Ranked, counter

\* Counting one more job.
LEMMA Counted ==
    ASSUME VoiceInv, NEW j \in Jobs, owner[j] = "incr", INCR(j)
    PROVE  /\ ~outlived => slots' >= Cardinality(counted')
           /\ ~outlived => \A S \in SUBSET counted' :
                 S # {} => \E k \in S : seen'[k] >= Cardinality(S)
<1> SUFFICES ASSUME ~outlived
    PROVE  /\ slots' >= Cardinality(counted')
           /\ \A S \in SUBSET counted' : S # {} => \E k \in S : seen'[k] >= Cardinality(S)
  OBVIOUS
<1>1. /\ j \notin counted /\ counted' = counted \cup {j} /\ counted' \subseteq Jobs
      /\ IsFiniteSet(counted) /\ IsFiniteSet(counted')
  BY VoiceAssumption, FS_Subset DEF VoiceInv, Types, Shape, INCR
<1>2. Cardinality(counted) \in Nat /\ Cardinality(counted') = Cardinality(counted) + 1
  BY <1>1, FS_AddElement, FS_CardinalityType
<1>3. /\ slots >= Cardinality(counted) /\ slots \in Int /\ slots' = slots + 1
      /\ seen' = [seen EXCEPT ![j] = slots + 1] /\ seen \in [Jobs -> Int]
  BY DEF VoiceInv, Types, Covered, INCR
<1>4. ASSUME NEW S \in SUBSET counted', S # {} PROVE \E k \in S : seen'[k] >= Cardinality(S)
  <2>1. Cardinality(S) \in Nat /\ Cardinality(S) <= Cardinality(counted')
    BY <1>1, FS_Subset, FS_CardinalityType
  <2>2. CASE j \in S
    <3>1. seen'[j] = slots + 1
      BY <1>3
    <3> QED
      BY <2>2, <3>1, <2>1, <1>2, <1>3
  <2>3. CASE j \notin S
    <3>1. S \in SUBSET counted
      BY <1>1, <2>3
    <3>2. PICK k \in S : seen[k] >= Cardinality(S)
      BY <3>1, <1>4 DEF VoiceInv, Ranked
    <3>3. k # j /\ k \in Jobs
      BY <2>3, <1>1
    <3> QED
      BY <3>2, <3>3, <1>3
  <2> QED
    BY <2>2, <2>3
<1> QED
  BY <1>2, <1>3, <1>4

\* Taking back the slot of a job that is counted.
LEMMA Uncounted ==
    ASSUME VoiceInv, NEW j \in Jobs, Using(j), DECR(j)
    PROVE  /\ ~outlived => slots' >= Cardinality(counted') /\ slots' >= 0
           /\ ~outlived => \A S \in SUBSET counted' :
                 S # {} => \E k \in S : seen'[k] >= Cardinality(S)
<1> SUFFICES ASSUME ~outlived
    PROVE  /\ slots' >= Cardinality(counted') /\ slots' >= 0
           /\ \A S \in SUBSET counted' : S # {} => \E k \in S : seen'[k] >= Cardinality(S)
  OBVIOUS
<1>1. /\ j \in counted /\ counted' = counted \ {j} /\ IsFiniteSet(counted)
      /\ slots >= Cardinality(counted) /\ slots \in Int /\ slots' = slots - 1 /\ seen' = seen
  BY VoiceAssumption, FS_Subset DEF VoiceInv, Types, Covered, DECR
<1>2. IsFiniteSet(counted') /\ Cardinality(counted') = Cardinality(counted) - 1
      /\ Cardinality(counted') \in Nat /\ Cardinality(counted) \in Nat
  BY <1>1, FS_RemoveElement, FS_CardinalityType
<1>3. \A S \in SUBSET counted' : S # {} => \E k \in S : seen'[k] >= Cardinality(S)
  BY <1>1 DEF VoiceInv, Ranked
<1> QED
  BY <1>1, <1>2, <1>3

\* What one job's tasks know of one another.
LEMMA TasksStep == ASSUME VoiceInv, [Next]_vars PROVE Types' /\ Shape' /\ Noticed' /\ Settled'
<1> USE VoiceAssumption DEF VoiceInv, Types, Shape, Noticed, Settled, Before, Fault, Goto,
      CleanTo, Alive, StartClose, LeaveSession, INCR, DECR, counter, admission, session, web,
      unslotted, unsessioned, unclosed, unreported
<1>1. ASSUME NEW j \in Jobs, LoadConfig(j) PROVE Types' /\ Shape' /\ Noticed' /\ Settled'
  BY <1>1 DEF LoadConfig
<1>2. ASSUME NEW j \in Jobs, Reserve(j) PROVE Types' /\ Shape' /\ Noticed' /\ Settled'
  BY <1>2 DEF Reserve
<1>3. ASSUME NEW j \in Jobs, Incr(j) PROVE Types' /\ Shape' /\ Noticed' /\ Settled'
  BY <1>3 DEF Incr
<1>4. ASSUME NEW j \in Jobs, Expire(j) PROVE Types' /\ Shape' /\ Noticed' /\ Settled'
  BY <1>4 DEF Expire, Admits
<1>5. ASSUME NEW j \in Jobs, Deny(j) PROVE Types' /\ Shape' /\ Noticed' /\ Settled'
  BY <1>5 DEF Deny
<1>6. ASSUME NEW j \in Jobs, Bind(j) PROVE Types' /\ Shape' /\ Noticed' /\ Settled'
  BY <1>6 DEF Bind
<1>7. ASSUME NEW j \in Jobs, Start(j) PROVE Types' /\ Shape' /\ Noticed' /\ Settled'
  BY <1>7 DEF Start
<1>8. ASSUME NEW j \in Jobs, EndSession(j) PROVE Types' /\ Shape' /\ Noticed' /\ Settled'
  BY <1>8 DEF EndSession
<1>9. ASSUME NEW j \in Jobs, OwnerCloses(j) PROVE Types' /\ Shape' /\ Noticed' /\ Settled'
  BY <1>9 DEF OwnerCloses
<1>10. ASSUME NEW j \in Jobs, Post(j) PROVE Types' /\ Shape' /\ Noticed' /\ Settled'
  BY <1>10 DEF Post
<1>11. ASSUME NEW j \in Jobs, Posted(j) PROVE Types' /\ Shape' /\ Noticed' /\ Settled'
  BY <1>11 DEF Posted
<1>12. ASSUME NEW j \in Jobs, Finish(j) PROVE Types' /\ Shape' /\ Noticed' /\ Settled'
  BY <1>12 DEF Finish
<1>13. ASSUME NEW j \in Jobs, CloseStep(j) PROVE Types' /\ Shape' /\ Noticed' /\ Settled'
  BY <1>13 DEF CloseStep
<1>14. ASSUME NEW j \in Jobs, CleanupCloses(j) PROVE Types' /\ Shape' /\ Noticed' /\ Settled'
  BY <1>14 DEF CleanupCloses
<1>15. ASSUME NEW j \in Jobs, Release(j) PROVE Types' /\ Shape' /\ Noticed' /\ Settled'
  BY <1>15 DEF Release
<1>16. ASSUME NEW j \in Jobs, Zero(j) PROVE Types' /\ Shape' /\ Noticed' /\ Settled'
  BY <1>16 DEF Zero
<1>17. ASSUME NEW j \in Jobs, Settle(j) PROVE Types' /\ Shape' /\ Noticed' /\ Settled'
  BY <1>17 DEF Settle
<1>18. ASSUME NEW j \in Jobs, SaveTranscript(j) PROVE Types' /\ Shape' /\ Noticed' /\ Settled'
  BY <1>18 DEF SaveTranscript
<1>19. ASSUME NEW j \in Jobs, MarkRecording(j) PROVE Types' /\ Shape' /\ Noticed' /\ Settled'
  BY <1>19 DEF MarkRecording
<1>20. ASSUME NEW j \in Jobs, EgressEnds(j) PROVE Types' /\ Shape' /\ Noticed' /\ Settled'
  BY <1>20 DEF EgressEnds
<1>21. ASSUME NEW j \in Jobs, SaveRecording(j) PROVE Types' /\ Shape' /\ Noticed' /\ Settled'
  BY <1>21 DEF SaveRecording
<1>22. ASSUME NEW j \in Jobs, CallerJoins(j) PROVE Types' /\ Shape' /\ Noticed' /\ Settled'
  BY <1>22 DEF CallerJoins
<1>23. ASSUME NEW j \in Jobs, CallerLeaves(j) PROVE Types' /\ Shape' /\ Noticed' /\ Settled'
  BY <1>23 DEF CallerLeaves
<1>24. ASSUME NEW j \in Jobs, RoomLost(j) PROVE Types' /\ Shape' /\ Noticed' /\ Settled'
  BY <1>24 DEF RoomLost
<1>25. ASSUME NEW j \in Jobs, Shutdown(j) PROVE Types' /\ Shape' /\ Noticed' /\ Settled'
  BY <1>25 DEF Shutdown
<1>26. ASSUME NEW j \in Jobs, Killed(j) PROVE Types' /\ Shape' /\ Noticed' /\ Settled'
  BY <1>26 DEF Killed
<1>27. CASE CounterExpires
  BY <1>27 DEF CounterExpires
<1>28. CASE UNCHANGED vars
  BY <1>28 DEF vars
<1> QED
  BY <1>1, <1>2, <1>3, <1>4, <1>5, <1>6, <1>7, <1>8, <1>9, <1>10, <1>11, <1>12, <1>13, <1>14,
     <1>15, <1>16, <1>17, <1>18, <1>19, <1>20, <1>21, <1>22, <1>23, <1>24, <1>25, <1>26, <1>27,
     <1>28
  DEF Next, Owner, Background, Rest

\* The counter: commands on it one by one, everything else leaves it alone.
LEMMA CountersStep == ASSUME VoiceInv, [Next]_vars PROVE Covered' /\ Ranked'
<1> USE DEF VoiceInv, Types, Shape, Before, Using, Goto, CleanTo, Alive, LeaveSession, counter,
      admission, unslotted, unsessioned, unclosed, unreported
<1>0. Types' /\ Shape'
  BY TasksStep
<1>1. ASSUME NEW j \in Jobs, LoadConfig(j) PROVE Covered' /\ Ranked'
  BY <1>1, CountersUntouched DEF LoadConfig
<1>2. ASSUME NEW j \in Jobs, Reserve(j) PROVE Covered' /\ Ranked'
  BY <1>2, CountersUntouched DEF Reserve
<1>3. ASSUME NEW j \in Jobs, Incr(j) PROVE Covered' /\ Ranked'
  <2>1. CASE INCR(j)
    <3>1. /\ owner[j] = "incr" /\ outlived' = outlived /\ acquired' = acquired
          /\ cleanup' = cleanup
      BY <1>3 DEF Incr
    <3>2. /\ ~outlived => slots' >= Cardinality(counted')
          /\ ~outlived => \A S \in SUBSET counted' :
                S # {} => \E k \in S : seen'[k] >= Cardinality(S)
      BY <2>1, <3>1, Counted
    <3>3. counted' = counted \cup {j}
      BY <2>1 DEF INCR
    <3>4. \A k \in Jobs : k # j => owner'[k] = owner[k]
      BY <1>3 DEF Incr
    <3>5. ASSUME ~outlived, NEW k \in Jobs
          PROVE  (Using(k)' => k \in counted') /\ cleanup'[k] # "zero"
      BY <3>1, <3>3, <3>4, <3>5 DEF Covered
    <3>6. Ranked'
      BY <3>1, <3>2 DEF Ranked
    <3> QED
      BY <3>1, <3>2, <3>5, <3>6 DEF Covered
  <2>2. CASE UNCHANGED counter
    BY <1>3, <2>2, CountersUntouched DEF Incr, INCR
  <2> QED
    BY <1>3, <2>1, <2>2 DEF Incr
<1>4. ASSUME NEW j \in Jobs, Expire(j) PROVE Covered' /\ Ranked'
  BY <1>4 DEF Expire, Covered, Ranked
<1>5. ASSUME NEW j \in Jobs, Deny(j) PROVE Covered' /\ Ranked'
  <2>1. CASE DECR(j)
    BY <1>5, <2>1, Uncounted DEF Deny, DECR, Covered, Ranked
  <2>2. CASE UNCHANGED counter
    BY <1>5, <2>2, CountersUntouched DEF Deny
  <2> QED
    BY <1>5, <2>1, <2>2 DEF Deny
<1>6. ASSUME NEW j \in Jobs, Bind(j) PROVE Covered' /\ Ranked'
  BY <1>6, CountersUntouched DEF Bind
<1>7. ASSUME NEW j \in Jobs, Start(j) PROVE Covered' /\ Ranked'
  BY <1>7, CountersUntouched DEF Start
<1>8. ASSUME NEW j \in Jobs, EndSession(j) PROVE Covered' /\ Ranked'
  BY <1>8, CountersUntouched DEF EndSession
<1>9. ASSUME NEW j \in Jobs, OwnerCloses(j) PROVE Covered' /\ Ranked'
  BY <1>9, CountersUntouched DEF OwnerCloses
<1>10. ASSUME NEW j \in Jobs, Post(j) PROVE Covered' /\ Ranked'
  BY <1>10, CountersUntouched DEF Post
<1>11. ASSUME NEW j \in Jobs, Posted(j) PROVE Covered' /\ Ranked'
  BY <1>11, CountersUntouched DEF Posted
<1>12. ASSUME NEW j \in Jobs, Finish(j) PROVE Covered' /\ Ranked'
  BY <1>12, CountersUntouched DEF Finish
<1>13. ASSUME NEW j \in Jobs, CloseStep(j) PROVE Covered' /\ Ranked'
  BY <1>13, CountersUntouched DEF CloseStep
<1>14. ASSUME NEW j \in Jobs, CleanupCloses(j) PROVE Covered' /\ Ranked'
  BY <1>14, CountersUntouched DEF CleanupCloses
<1>15. ASSUME NEW j \in Jobs, Release(j) PROVE Covered' /\ Ranked'
  <2>1. CASE j \in acquired /\ DECR(j)
    <3>1. owner[j] # "dead" /\ Using(j)
      BY <1>15, <2>1 DEF Release
    <3>2. /\ outlived' = outlived /\ acquired' = acquired /\ owner' = owner
          /\ owner[j] \notin {"expire", "deny"}
      BY <1>15 DEF Release
    <3>3. ~outlived => cleanup' = [cleanup EXCEPT ![j] = "settle"]
      BY <1>15, <2>1, <3>1, Uncounted DEF Release, DECR
    <3>4. counted' = counted \ {j}
      BY <2>1 DEF DECR
    <3>5. Ranked' /\ (~outlived => slots' >= Cardinality(counted'))
      BY <2>1, <3>1, <3>2, Uncounted DEF Ranked
    <3>6. ASSUME ~outlived, NEW k \in Jobs
          PROVE  (Using(k)' => k \in counted') /\ cleanup'[k] # "zero"
      BY <3>2, <3>3, <3>4, <3>6 DEF Covered
    <3> QED
      BY <3>2, <3>5, <3>6 DEF Covered
  <2>2. CASE UNCHANGED counter
    BY <1>15, <2>2, CountersUntouched DEF Release, DECR
  <2> QED
    BY <1>15, <2>1, <2>2 DEF Release
<1>16. ASSUME NEW j \in Jobs, Zero(j) PROVE Covered' /\ Ranked'
  BY <1>16 DEF Zero, Covered, Ranked
<1>17. ASSUME NEW j \in Jobs, Settle(j) PROVE Covered' /\ Ranked'
  BY <1>17, CountersUntouched DEF Settle
<1>18. ASSUME NEW j \in Jobs, SaveTranscript(j) PROVE Covered' /\ Ranked'
  BY <1>18, CountersUntouched DEF SaveTranscript
<1>19. ASSUME NEW j \in Jobs, MarkRecording(j) PROVE Covered' /\ Ranked'
  BY <1>19, CountersUntouched DEF MarkRecording
<1>20. ASSUME NEW j \in Jobs, EgressEnds(j) PROVE Covered' /\ Ranked'
  BY <1>20, CountersUntouched DEF EgressEnds
<1>21. ASSUME NEW j \in Jobs, SaveRecording(j) PROVE Covered' /\ Ranked'
  BY <1>21, CountersUntouched DEF SaveRecording
<1>22. ASSUME NEW j \in Jobs, CallerJoins(j) PROVE Covered' /\ Ranked'
  BY <1>22, CountersUntouched DEF CallerJoins
<1>23. ASSUME NEW j \in Jobs, CallerLeaves(j) PROVE Covered' /\ Ranked'
  BY <1>23, CountersUntouched DEF CallerLeaves
<1>24. ASSUME NEW j \in Jobs, RoomLost(j) PROVE Covered' /\ Ranked'
  BY <1>24, CountersUntouched DEF RoomLost
<1>25. ASSUME NEW j \in Jobs, Shutdown(j) PROVE Covered' /\ Ranked'
  <2>1. CASE owner[j] = "incr" /\ INCR(j)
    BY <1>25, <2>1, Counted DEF Shutdown, INCR, Covered, Ranked
  <2>2. CASE owner[j] = "deny" /\ DECR(j)
    <3>1. Using(j)
      BY <2>2
    <3>2. /\ ~outlived => slots' >= Cardinality(counted') /\ slots' >= 0
          /\ ~outlived => \A S \in SUBSET counted' :
                S # {} => \E k \in S : seen'[k] >= Cardinality(S)
      BY <2>2, <3>1, Uncounted
    <3> QED
      BY <1>25, <2>2, <3>2 DEF Shutdown, DECR, Covered, Ranked
  <2>3. CASE UNCHANGED <<slots, counted, seen>>
    BY <1>25, <2>3 DEF Shutdown, Covered, Ranked
  <2> QED
    BY <1>25, <2>1, <2>2, <2>3 DEF Shutdown
<1>26. ASSUME NEW j \in Jobs, Killed(j) PROVE Covered' /\ Ranked'
  BY <1>26, CountersUntouched DEF Killed
<1>27. CASE CounterExpires
  <2>1. Cardinality({}) = 0
    BY FS_EmptySet
  <2> QED
    BY <1>27, <2>1 DEF CounterExpires, Covered, Ranked, Holding
<1>28. CASE UNCHANGED vars
  BY <1>28 DEF vars, Covered, Ranked
<1> QED
  BY <1>1, <1>2, <1>3, <1>4, <1>5, <1>6, <1>7, <1>8, <1>9, <1>10, <1>11, <1>12, <1>13, <1>14,
     <1>15, <1>16, <1>17, <1>18, <1>19, <1>20, <1>21, <1>22, <1>23, <1>24, <1>25, <1>26, <1>27,
     <1>28
  DEF Next, Owner, Background, Rest

\* The steps that leave the counter alone and fail nothing.
LEMMA ExactUntouched ==
    ASSUME Exact, UNCHANGED <<counter, outlived, torn>>, faults' = 0 => faults = 0,
           \A j \in Jobs :
              /\ (j \in counted /\ Using(j)) => (Using(j)')
              /\ (owner'[j] = "dead") => (owner[j] = "dead")
              /\ (owner'[j] = "rejected" /\ j \in acquired')
                    => (owner[j] = "rejected" /\ j \in acquired),
           counted \subseteq Jobs
    PROVE  Exact'
<1> SUFFICES ASSUME faults' = 0
    PROVE  /\ ~outlived' /\ slots' = Cardinality(counted')
           /\ \A j \in counted' : Using(j)' \/ j \in torn'
           /\ \A j \in Jobs : owner'[j] # "dead" /\ (owner'[j] = "rejected" => j \notin acquired')
  BY DEF Exact
<1>1. /\ ~outlived /\ slots = Cardinality(counted)
      /\ \A j \in counted : Using(j) \/ j \in torn
      /\ \A j \in Jobs : owner[j] # "dead" /\ (owner[j] = "rejected" => j \notin acquired)
  BY DEF Exact
<1>2. outlived' = outlived /\ slots' = slots /\ counted' = counted
  BY DEF counter
<1> QED
  BY <1>1, <1>2

\* The counter is exact: each command on it moves it and the jobs it counts together.
LEMMA ExactStep == ASSUME VoiceInv, [Next]_vars PROVE Exact'
<1> USE DEF VoiceInv, Types, Shape, Before, Using, Fault, Goto, CleanTo, Alive, LeaveSession,
      counter, admission, unslotted, unsessioned, unclosed, unreported
<1>0. /\ IsFiniteSet(counted) /\ counted \subseteq Jobs /\ Cardinality(counted) \in Nat
      /\ \A j \in Jobs \ counted : Cardinality(counted \cup {j}) = Cardinality(counted) + 1
      /\ \A j \in counted : Cardinality(counted \ {j}) = Cardinality(counted) - 1
  BY VoiceAssumption, FS_Subset, FS_AddElement, FS_RemoveElement, FS_CardinalityType
<1>1. ASSUME NEW j \in Jobs, LoadConfig(j) PROVE Exact'
  BY <1>1, <1>0, ExactUntouched DEF LoadConfig
<1>2. ASSUME NEW j \in Jobs, Reserve(j) PROVE Exact'
  BY <1>2, <1>0, ExactUntouched DEF Reserve
<1>3. ASSUME NEW j \in Jobs, Incr(j) PROVE Exact'
  <2>1. SUFFICES ASSUME faults' = 0 PROVE Exact'
    BY DEF Exact
  <2>2. INCR(j) /\ owner' = [owner EXCEPT ![j] = "expire"] /\ faults = 0
    BY <1>3, <2>1 DEF Incr
  <2> QED
    BY <1>0, <1>3, <2>2 DEF Incr, INCR, Exact
<1>4. ASSUME NEW j \in Jobs, Expire(j) PROVE Exact'
  BY <1>4 DEF Expire, Exact
<1>5. ASSUME NEW j \in Jobs, Deny(j) PROVE Exact'
  <2>1. SUFFICES ASSUME faults' = 0 PROVE Exact'
    BY DEF Exact
  <2>2. DECR(j) /\ faults = 0
    BY <1>5, <2>1 DEF Deny
  <2>3. j \in counted
    BY <1>5, <2>2 DEF Deny, Covered, Exact
  <2> QED
    BY <1>0, <1>5, <2>2, <2>3 DEF Deny, DECR, Exact
<1>6. ASSUME NEW j \in Jobs, Bind(j) PROVE Exact'
  BY <1>6, <1>0, ExactUntouched DEF Bind
<1>7. ASSUME NEW j \in Jobs, Start(j) PROVE Exact'
  BY <1>7, <1>0, ExactUntouched DEF Start
<1>8. ASSUME NEW j \in Jobs, EndSession(j) PROVE Exact'
  BY <1>8, <1>0, ExactUntouched DEF EndSession
<1>9. ASSUME NEW j \in Jobs, OwnerCloses(j) PROVE Exact'
  BY <1>9, <1>0, ExactUntouched DEF OwnerCloses
<1>10. ASSUME NEW j \in Jobs, Post(j) PROVE Exact'
  BY <1>10, <1>0, ExactUntouched DEF Post
<1>11. ASSUME NEW j \in Jobs, Posted(j) PROVE Exact'
  BY <1>11, <1>0, ExactUntouched DEF Posted
<1>12. ASSUME NEW j \in Jobs, Finish(j) PROVE Exact'
  BY <1>12, <1>0, ExactUntouched DEF Finish
<1>13. ASSUME NEW j \in Jobs, CloseStep(j) PROVE Exact'
  BY <1>13, <1>0, ExactUntouched DEF CloseStep
<1>14. ASSUME NEW j \in Jobs, CleanupCloses(j) PROVE Exact'
  BY <1>14, <1>0, ExactUntouched DEF CleanupCloses
<1>15. ASSUME NEW j \in Jobs, Release(j) PROVE Exact'
  <2>1. SUFFICES ASSUME faults' = 0 PROVE Exact'
    BY DEF Exact
  <2>2. faults = 0 /\ ~outlived
    BY <1>15, <2>1 DEF Release, Exact
  <2>3. CASE j \in acquired /\ DECR(j)
    <3>1. j \in counted /\ owner[j] # "dead"
      BY <1>15, <2>2, <2>3 DEF Release, Covered
    <3> QED
      BY <1>0, <1>15, <2>2, <2>3, <3>1 DEF Release, DECR, Exact
  <2>4. CASE j \notin acquired
    <3>1. j \in counted => j \in torn
      BY <1>15, <2>2, <2>4 DEF Release, Exact
    <3> QED
      BY <1>0, <1>15, <2>2, <2>4, <3>1 DEF Release, Exact
  <2> QED
    BY <1>15, <2>2, <2>1, <2>3, <2>4 DEF Release
<1>16. ASSUME NEW j \in Jobs, Zero(j) PROVE Exact'
  BY <1>16 DEF Zero, Covered, Exact
<1>17. ASSUME NEW j \in Jobs, Settle(j) PROVE Exact'
  BY <1>17, <1>0, ExactUntouched DEF Settle
<1>18. ASSUME NEW j \in Jobs, SaveTranscript(j) PROVE Exact'
  BY <1>18, <1>0, ExactUntouched DEF SaveTranscript
<1>19. ASSUME NEW j \in Jobs, MarkRecording(j) PROVE Exact'
  BY <1>19, <1>0, ExactUntouched DEF MarkRecording
<1>20. ASSUME NEW j \in Jobs, EgressEnds(j) PROVE Exact'
  BY <1>20, <1>0, ExactUntouched DEF EgressEnds
<1>21. ASSUME NEW j \in Jobs, SaveRecording(j) PROVE Exact'
  BY <1>21, <1>0, ExactUntouched DEF SaveRecording
<1>22. ASSUME NEW j \in Jobs, CallerJoins(j) PROVE Exact'
  BY <1>22, <1>0, ExactUntouched DEF CallerJoins
<1>23. ASSUME NEW j \in Jobs, CallerLeaves(j) PROVE Exact'
  BY <1>23, <1>0, ExactUntouched DEF CallerLeaves
<1>24. ASSUME NEW j \in Jobs, RoomLost(j) PROVE Exact'
  BY <1>24, <1>0, ExactUntouched DEF RoomLost
<1>25. ASSUME NEW j \in Jobs, Shutdown(j) PROVE Exact'
  <2>1. SUFFICES ASSUME faults' = 0 PROVE Exact'
    BY DEF Exact
  <2>2. /\ faults = 0 /\ ~outlived /\ cleanup' = cleanup /\ acquired' = acquired
        /\ outlived' = outlived /\ torn \subseteq torn' /\ owner' \in {[owner EXCEPT ![j] = "close"],
                                                            [owner EXCEPT ![j] = "finish"]}
        /\ owner[j] \in {"incr", "expire", "deny"} => j \in torn'
    BY <1>25, <2>1 DEF Shutdown, Exact
  <2>3. \A k \in counted : Using(k)' \/ k \in torn'
    BY <2>2 DEF Exact
  <2>4. \A k \in Jobs : owner'[k] # "dead" /\ (owner'[k] = "rejected" => k \notin acquired')
    BY <2>2 DEF Exact
  <2>5. CASE owner[j] = "incr" /\ INCR(j)
    BY <1>0, <2>2, <2>3, <2>4, <2>5 DEF INCR, Exact
  <2>6. CASE owner[j] = "deny" /\ DECR(j)
    <3>1. j \in counted
      BY <2>2, <2>6 DEF Covered
    <3> QED
      BY <1>0, <2>2, <2>3, <2>4, <2>6, <3>1 DEF DECR, Exact
  <2>7. CASE UNCHANGED <<slots, counted>>
    BY <2>2, <2>3, <2>4, <2>7 DEF Exact
  <2> QED
    BY <1>25, <2>5, <2>6, <2>7 DEF Shutdown
<1>26. ASSUME NEW j \in Jobs, Killed(j) PROVE Exact'
  BY <1>26 DEF Killed, Exact
<1>27. CASE CounterExpires
  <2>1. Cardinality({}) = 0
    BY FS_EmptySet
  <2> QED
    BY <1>27, <2>1 DEF CounterExpires, Exact
<1>28. CASE UNCHANGED vars
  BY <1>28, <1>0, ExactUntouched DEF vars
<1> QED
  BY <1>1, <1>2, <1>3, <1>4, <1>5, <1>6, <1>7, <1>8, <1>9, <1>10, <1>11, <1>12, <1>13, <1>14,
     <1>15, <1>16, <1>17, <1>18, <1>19, <1>20, <1>21, <1>22, <1>23, <1>24, <1>25, <1>26, <1>27,
     <1>28
  DEF Next, Owner, Background, Rest

\* All of the invariant, of every behaviour.
LEMMA VoiceInvariant == Spec => []VoiceInv
<1>1. VoiceInv /\ [Next]_vars => VoiceInv'
  BY TasksStep, CountersStep, ExactStep DEF VoiceInv
<1> QED
  BY VoiceInit, <1>1, PTL DEF Spec

\* However admissions, refusals, releases, expiry, cancellations and kills interleave,
\* no more of a tenant's calls run at once than its plan allows, as long as its counter
\* does not expire under a call.
THEOREM LimitKept == Spec => []WithinLimit
<1>1. ASSUME VoiceInv PROVE WithinLimit
  <2> SUFFICES ASSUME ~outlived, Admitted # {} PROVE Cardinality(Admitted) <= Limit
    BY FS_EmptySet, VoiceAssumption DEF WithinLimit
  <2>1. Admitted \in SUBSET counted
    BY <1>1 DEF VoiceInv, Types, Covered, Using, Admitted
  <2>2. PICK j \in Admitted : seen[j] >= Cardinality(Admitted)
    BY <1>1, <2>1 DEF VoiceInv, Ranked
  <2>3. j \in acquired /\ j \in Jobs /\ seen[j] <= Limit /\ seen[j] \in Int
    BY <1>1 DEF VoiceInv, Types, Shape, Admitted
  <2>4. Cardinality(Admitted) \in Nat
    BY <1>1, <2>1, VoiceAssumption, FS_Subset, FS_CardinalityType DEF VoiceInv, Types
  <2> QED
    BY <2>2, <2>3, <2>4, VoiceAssumption
<1> QED
  BY <1>1, VoiceInvariant, PTL

\* A job that knows of its hold has it settled by the time it ends, unless a ping, a
\* command or a process failed.
THEOREM HoldsSettled == Spec => []KnownHoldSettled
<1>1. VoiceInv => KnownHoldSettled
  BY DEF VoiceInv, Types, Settled, KnownHoldSettled
<1> QED
  BY <1>1, VoiceInvariant, PTL

\* A bound caller who is gone has ended the session, also one who left before the job
\* knew whom to wait for.
THEOREM DepartureEnds == Spec => []CallerGoneEnds
<1>1. VoiceInv => CallerGoneEnds
  BY DEF VoiceInv, Noticed, CallerGoneEnds
<1> QED
  BY <1>1, VoiceInvariant, PTL

\* When all of a tenant's jobs are over and nothing failed, every slot was given back
\* exactly once, but for at most one of each job that was cancelled while its slot was
\* being counted, and no refused job has given back one it never had.
THEOREM SlotsGivenBack == Spec => []SlotsReturned
<1>1. ASSUME VoiceInv PROVE SlotsReturned
  <2> SUFFICES ASSUME Quiet, faults = 0 PROVE slots \in 0..Cardinality(torn)
    BY DEF SlotsReturned
  <2>1. slots = Cardinality(counted) /\ counted \subseteq Jobs /\ torn \subseteq Jobs
    BY <1>1 DEF VoiceInv, Types, Exact
  <2>2. counted \subseteq torn
    <3> SUFFICES ASSUME NEW j \in counted, j \notin torn PROVE FALSE
      OBVIOUS
    <3>1. /\ owner[j] \in {"ended", "rejected"} /\ Using(j)
          /\ owner[j] = "rejected" => j \notin acquired
      BY <1>1, <2>1 DEF VoiceInv, Exact, Quiet
    <3> QED
      BY <1>1, <2>1, <3>1 DEF VoiceInv, Settled, Using
  <2>3. IsFiniteSet(torn) /\ IsFiniteSet(counted)
    BY <2>1, VoiceAssumption, FS_Subset
  <2>4. /\ Cardinality(counted) \in Nat /\ Cardinality(torn) \in Nat
        /\ Cardinality(counted) <= Cardinality(torn)
    BY <2>2, <2>3, FS_Subset, FS_CardinalityType
  <2> QED
    BY <2>1, <2>4
<1> QED
  BY <1>1, VoiceInvariant, PTL
=============================================================================
