-------------------------- MODULE RedisGuardsProofs --------------------------
(***************************************************************************)
(* What the services keep in Redis, for any number of requests, processes, *)
(* refills, dials, layers, calls and jobs: the dispatch lock excludes, the *)
(* governors count exactly, and a job runs its own call's configuration.   *)
(***************************************************************************)
EXTENDS RedisGuards, FiniteSetTheorems, TLAPS

(***************************************************************************)
(* The dispatch lock.                                                      *)
(***************************************************************************)

LockTypes ==
    /\ lock \in Ops \cup {None}
    /\ tokens \in [Processes -> Starts \cup {None}]
    /\ pc \in [Ops -> {"idle", "won", "dispatch", "delete", "done"}]
    /\ own \in [Ops -> Starts \cup {None}]
    /\ lapsed \subseteq Ops
    /\ robber \in [Ops -> Ops \cup {None}]

\* An operation that dispatches or is about to release, and has not lost its lock, has it.
HasLock == \A o \in Ops : pc[o] \in {"won", "dispatch", "delete"} /\ ~Lost(o) => lock = o

\* Whoever removed a lock that was not its own had lost its own, and was misled.
Robbers == \A v \in Ops : robber[v] # None => Lost(robber[v]) /\ Misled(robber[v], v)

\* The tokens a process remembers, and those a start compares with, are its own starts'.
TokensOfProcess ==
    /\ \A p \in Processes : tokens[p] # None => ProcessOf[tokens[p]] = p
    /\ \A s \in Starts : own[s] # None => ProcessOf[own[s]] = ProcessOf[s]

LockInv == LockTypes /\ HasLock /\ Robbers /\ TokensOfProcess

\* The lock is free and no operation has begun.
LEMMA LockInit == Init => LockInv
BY LockAssumption
   DEF Init, LockInv, LockTypes, HasLock, Robbers, TokensOfProcess, Ops

\* A step that gives no lock away and robs nobody leaves the robberies as they were.
LEMMA RobbersStay ==
    ASSUME LockInv, robber' = robber, lapsed \subseteq lapsed' PROVE Robbers'
BY DEF LockInv, LockTypes, Robbers, Lost, Misled

\* A release that removes what was not the releaser's lock finds the releaser robbed or
\* lapsed itself, and its victim has lost its lock.
LEMMA Released ==
    ASSUME LockInv, NEW o \in Ops, pc[o] = "delete", Rob(o), lapsed' = lapsed,
           lock' \in {lock, None}, lock' # lock => Misled(o, lock),
           pc' = [pc EXCEPT ![o] = "done"], own' = own, tokens' = tokens
    PROVE  LockInv'
<1> USE DEF LockInv, LockTypes
<1>1. LockTypes'
  BY DEF Rob
<1>2. CASE lock' = lock \/ lock = o
  <2>1. robber' = robber
    BY <1>2 DEF Rob
  <2>2. HasLock'
    BY <1>2, <2>1, LockAssumption DEF HasLock, Lost
  <2> QED
    BY <1>1, <2>1, <2>2, RobbersStay DEF TokensOfProcess
<1>3. CASE lock' # lock /\ lock # o
  <2>1. lock \in Ops /\ lock' = None /\ robber' = [robber EXCEPT ![lock] = o]
    BY <1>3 DEF Rob
  <2>2. Lost(o)
    BY <1>3 DEF HasLock
  <2>3. ASSUME NEW v \in Ops, Lost(v) PROVE Lost(v)'
    BY <2>1, <2>3, LockAssumption DEF Lost
  <2>4. HasLock'
    <3>1. ASSUME NEW v \in Ops, v # lock, ~Lost(v)'
          PROVE  pc'[v] \notin {"won", "dispatch", "delete"}
      BY <2>1, <2>3, <3>1 DEF HasLock
    <3>2. ASSUME NEW v \in Ops, v = lock, robber'[v] = None PROVE FALSE
      BY <2>1, <3>2, LockAssumption
    <3> QED
      BY <2>1, <3>1, <3>2 DEF HasLock, Lost
  <2>5. Robbers'
    <3>1. ASSUME NEW v \in Ops, NEW w \in Ops, robber'[v] = w
          PROVE  Lost(w)' /\ Misled(w, v)
      <4>1. CASE v = lock
        BY <1>3, <2>1, <2>2, <2>3, <3>1, <4>1
      <4>2. CASE v # lock
        <5>1. robber[v] = w /\ w # None
          BY <2>1, <3>1, <4>2, LockAssumption
        <5> QED
          BY <5>1, <2>3 DEF Robbers
      <4> QED
        BY <4>1, <4>2
    <3> QED
      BY <1>1, <3>1 DEF Robbers, Misled, Lost
  <2> QED
    BY <1>1, <2>4, <2>5 DEF TokensOfProcess
<1> QED
  BY <1>2, <1>3

\* No step of a request, a process, a refill or the TTL gives an operation another's lock,
\* or takes one away unless its releaser had lost its own.
LEMMA LockStep == ASSUME LockInv, [Next]_vars PROVE LockInv'
<1> USE LockAssumption DEF LockInv, Ops, Goto
<1>1. ASSUME NEW o \in Ops, Acquire(o) PROVE LockInv'
  <2>1. LockTypes' /\ HasLock' /\ TokensOfProcess'
    BY <1>1 DEF Acquire, LockTypes, HasLock, TokensOfProcess, Lost
  <2> QED
    BY <1>1, <2>1, RobbersStay DEF Acquire
<1>2. ASSUME NEW s \in Starts, Remember(s) PROVE LockInv'
  <2>1. LockTypes' /\ HasLock' /\ TokensOfProcess'
    BY <1>2 DEF Remember, LockTypes, HasLock, TokensOfProcess, Lost
  <2> QED
    BY <1>2, <2>1, RobbersStay DEF Remember
<1>3. ASSUME NEW s \in Starts, TakeToken(s) PROVE LockInv'
  <2>1. LockTypes' /\ HasLock' /\ TokensOfProcess'
    BY <1>3 DEF TakeToken, LockTypes, HasLock, TokensOfProcess, Lost
  <2> QED
    BY <1>3, <2>1, RobbersStay DEF TakeToken
<1>4. ASSUME NEW s \in Starts, Delete(s) PROVE LockInv'
  <2>1. lock' \in {lock, None} /\ (lock' # lock => lock = own[s] /\ lock # None)
    BY <1>4 DEF Delete, Freed
  <2>2. lock' # lock => Misled(s, lock)
    BY <2>1 DEF LockTypes, TokensOfProcess, Misled
  <2> QED
    BY <1>4, <2>1, <2>2, Released DEF Delete
<1>5. ASSUME NEW r \in Refills, Compare(r) PROVE LockInv'
  <2>1. LockTypes' /\ HasLock' /\ TokensOfProcess'
    BY <1>5 DEF Compare, LockTypes, HasLock, TokensOfProcess, Lost
  <2> QED
    BY <1>5, <2>1, RobbersStay DEF Compare
<1>6. ASSUME NEW r \in Refills, DeleteUnread(r) PROVE LockInv'
  BY <1>6, Released DEF DeleteUnread, Misled
<1>7. CASE Expire
  <2>1. LockTypes' /\ HasLock' /\ TokensOfProcess'
    BY <1>7 DEF Expire, LockTypes, HasLock, TokensOfProcess, Lost
  <2> QED
    BY <1>7, <2>1, RobbersStay DEF Expire
<1>8. CASE UNCHANGED vars
  <2>1. LockTypes' /\ HasLock' /\ TokensOfProcess'
    BY <1>8 DEF vars, LockTypes, HasLock, TokensOfProcess, Lost
  <2> QED
    BY <1>8, <2>1, RobbersStay DEF vars
<1> QED
  BY <1>1, <1>2, <1>3, <1>4, <1>5, <1>6, <1>7, <1>8 DEF Next

\* Two operations dispatch at once only if one of them lost its lock to the TTL, or to a
\* release misled in one of the two ways the code leaves open, by an operation that had
\* lost its own.  Any start and any refill may outlive its lock.
THEOREM ExclusiveAlways == GuardsSpec => []Exclusive
<1>1. GuardsInit => LockInv
  BY LockInit DEF GuardsInit
<1>2. LockInv /\ [GuardsNext]_guardVars => LockInv'
  BY LockStep DEF GuardsNext, guardVars
<1>3. LockInv => Exclusive
  <2> SUFFICES ASSUME LockInv, NEW a \in Ops, NEW b \in Ops, a # b,
                      Dispatching(a), Dispatching(b)
               PROVE  \E v \in {a, b} :
                         \/ v \in lapsed
                         \/ robber[v] # None /\ Lost(robber[v]) /\ Misled(robber[v], v)
    BY DEF Exclusive
  <2>1. PICK v \in {a, b} : Lost(v)
    BY DEF LockInv, HasLock, Dispatching
  <2> QED
    BY <2>1 DEF LockInv, Robbers, Lost
<1> QED
  BY <1>1, <1>2, <1>3, PTL DEF GuardsSpec

(***************************************************************************)
(* The governors.                                                          *)
(***************************************************************************)
GovernorTypes ==
    /\ count \in [Layers -> Int] /\ riding \in [Layers -> Nat]
    /\ dial \in [Dials -> {"due", "admitted", "placed", "failed"}]
    /\ ttl \subseteq Layers

GovernorInv == GovernorTypes /\ DialsGoverned

\* The dials that hold a slot of a layer can be counted.
LEMMA PendingFinite == \A l \in Layers :
    IsFiniteSet(Pending(l)) /\ Cardinality(Pending(l)) \in Nat
BY GovernorAssumption, FS_Subset, FS_CardinalityType DEF Pending

\* What one dial's change of state does to the number of those under way.
LEMMA PendingMoves ==
    ASSUME GovernorTypes, NEW d \in Dials, NEW at \in {"due", "admitted", "placed", "failed"},
           DialTo(d, at), NEW l \in Layers
    PROVE  LET before == dial[d] \in {"admitted", "failed"}
               after == at \in {"admitted", "failed"}
           IN  /\ l \notin LayersOf[d] => Cardinality(Pending(l)') = Cardinality(Pending(l))
               /\ before /\ after => Cardinality(Pending(l)') = Cardinality(Pending(l))
               /\ l \in LayersOf[d] /\ ~before /\ after =>
                     Cardinality(Pending(l)') = Cardinality(Pending(l)) + 1
               /\ l \in LayersOf[d] /\ before /\ ~after =>
                     Cardinality(Pending(l)') = Cardinality(Pending(l)) - 1
<1> DEFINE before == dial[d] \in {"admitted", "failed"}
           after == at \in {"admitted", "failed"}
<1>0. IsFiniteSet(Pending(l)) /\ Cardinality(Pending(l)) \in Nat
  BY PendingFinite
<1>1. l \notin LayersOf[d] \/ (before /\ after) => Pending(l)' = Pending(l)
  BY DEF GovernorTypes, DialTo, Pending
<1>2. ASSUME l \in LayersOf[d], ~before, after
      PROVE  Pending(l)' = Pending(l) \cup {d} /\ d \notin Pending(l)
  BY <1>2 DEF GovernorTypes, DialTo, Pending
<1>3. ASSUME l \in LayersOf[d], before, ~after
      PROVE  Pending(l)' = Pending(l) \ {d} /\ d \in Pending(l)
  BY <1>3 DEF GovernorTypes, DialTo, Pending
<1>4. l \in LayersOf[d] /\ ~before /\ after =>
          Cardinality(Pending(l)') = Cardinality(Pending(l)) + 1
  BY <1>0, <1>2, FS_AddElement
<1>5. l \in LayersOf[d] /\ before /\ ~after =>
          Cardinality(Pending(l)') = Cardinality(Pending(l)) - 1
  BY <1>0, <1>3, FS_RemoveElement
<1> QED
  BY <1>1, <1>4, <1>5

\* No dial has begun.
LEMMA GovernorInit == GovernorsInit => GovernorInv
<1> SUFFICES ASSUME GovernorsInit PROVE GovernorInv
  OBVIOUS
<1>1. GovernorTypes
  BY DEF GovernorsInit, GovernorTypes
<1>2. \A l \in Layers : Pending(l) = {}
  BY DEF GovernorsInit, Pending
<1>3. DialsGoverned
  <2>1. Cardinality({}) = 0
    BY FS_EmptySet
  <2>2. \A l \in Layers : LayerLimit[l] \in Nat
    BY GovernorAssumption
  <2> QED
    BY <1>2, <2>1, <2>2 DEF GovernorsInit, DialsGoverned
<1> QED
  BY <1>1, <1>3 DEF GovernorInv

\* Each command on a counter, each fault and each new try keeps it.
LEMMA GovernorStep == ASSUME GovernorInv, [GovernorsNext]_governors PROVE GovernorInv'
<1> USE GovernorAssumption DEF GovernorInv, GovernorTypes
<1>1. ASSUME NEW d \in Dials, AcquireLayers(d) PROVE GovernorInv'
  <2>1. GovernorTypes'
    BY <1>1 DEF AcquireLayers, Plus, Shift, DialTo
  <2>2. DialsGoverned'
    BY <1>1, PendingMoves, PendingFinite DEF AcquireLayers, Plus, Shift, DialsGoverned
  <2> QED
    BY <2>1, <2>2
<1>2. ASSUME NEW d \in Dials, FailToPlace(d) PROVE GovernorInv'
  <2>1. GovernorTypes'
    BY <1>2 DEF FailToPlace, DialTo
  <2>2. DialsGoverned'
    BY <1>2, PendingMoves DEF FailToPlace, DialsGoverned
  <2> QED
    BY <2>1, <2>2
<1>3. ASSUME NEW d \in Dials, ReleaseLayers(d) PROVE GovernorInv'
  <2>1. GovernorTypes'
    BY <1>3 DEF ReleaseLayers, Plus, Shift, DialTo
  <2>2. DialsGoverned'
    BY <1>3, PendingMoves, PendingFinite DEF ReleaseLayers, Plus, Shift, DialsGoverned
  <2> QED
    BY <2>1, <2>2
<1>4. ASSUME NEW d \in Dials, Place(d) \/ KillDial(d) PROVE GovernorInv'
  <2>1. GovernorTypes'
    BY <1>4 DEF Place, KillDial, LeaveToTTL, Plus, Shift, DialTo
  <2>2. DialsGoverned'
    BY <1>4, PendingMoves, PendingFinite
    DEF Place, KillDial, LeaveToTTL, Plus, Shift, DialsGoverned
  <2> QED
    BY <2>1, <2>2
<1>5. ASSUME NEW l \in Layers, Lapse(l) PROVE GovernorInv'
  <2>1. GovernorTypes'
    BY <1>5 DEF Lapse
  <2>2. \A k \in Layers : Pending(k)' = Pending(k)
    BY <1>5 DEF Lapse, Pending
  <2>3. DialsGoverned'
    BY <1>5, <2>2, FS_EmptySet DEF Lapse, DialsGoverned
  <2> QED
    BY <2>1, <2>3
<1>6. CASE UNCHANGED governors
  BY <1>6 DEF governors, DialsGoverned, Pending
<1> QED
  BY <1>1, <1>2, <1>3, <1>4, <1>5, <1>6 DEF GovernorsNext

\* Every layer that does not expire under a dial counts exactly the dials under way and
\* those left to its TTL, within its limit and with a TTL.
THEOREM GovernorsExact == GuardsSpec => []DialsGoverned
<1>1. GuardsInit => GovernorInv
  BY GovernorInit DEF GuardsInit
<1>2. GovernorInv /\ [GuardsNext]_guardVars => GovernorInv'
  BY GovernorStep DEF GuardsNext, guardVars
<1> QED
  BY <1>1, <1>2, PTL DEF GuardsSpec, GovernorInv

(***************************************************************************)
(* The configurations of calls.                                            *)
(***************************************************************************)
Configs == [rev : Nat, asked : BOOLEAN] \cup {NoConfig}

ConfigTypes ==
    /\ agentRow.rev \in Nat
    /\ callRow \in [Calls -> [at : {"none", "made", "ready", "failed"}, found : Nat]]
    /\ redisKey \in [Calls -> Configs]
    /\ memory \in [VoiceProcesses -> [Calls -> Configs]]
    /\ voiceJob \in [VoiceJobs ->
          [at : {"idle", "load", "get", "query", "write", "agent", "run", "refused"},
           call : Calls \cup {NoCall}, config : Configs]]

\* A configuration that call c may run with.
Fits(c, config) ==
    /\ kind[c] # "ruled" => config.rev >= callRow[c].found
    /\ kind[c] = "test" /\ c \notin strayed => config = Asked(c)
    /\ kind[c] # "test" => ~config.asked

\* What the web found is no newer than the agent is.
FoundOnce == \A c \in Calls : callRow[c].found <= agentRow.rev

\* Everything that is kept for a call, in Redis, in a process or by a job, fits it.
KeptFits ==
    /\ \A c \in Calls : redisKey[c] # NoConfig => Fits(c, redisKey[c])
    /\ \A p \in VoiceProcesses, c \in Calls :
          memory[p][c] # NoConfig => Fits(c, memory[p][c])
    /\ \A j \in VoiceJobs : voiceJob[j].at \in {"write", "run"} =>
          Fits(voiceJob[j].call, voiceJob[j].config)

\* Until the web has made the call there is nothing of it, but for a job that the
\* room's own rule started; that one looks into no cache.
NothingYet ==
    /\ \A c \in Calls : kind[c] # "ruled" /\ callRow[c].at \in {"none", "made"} =>
          /\ redisKey[c] = NoConfig
          /\ \A p \in VoiceProcesses : memory[p][c] = NoConfig
          /\ \A j \in VoiceJobs : voiceJob[j].call # c
    /\ \A j \in VoiceJobs :
          /\ voiceJob[j].at # "idle" => voiceJob[j].call \in Calls
          /\ voiceJob[j].at \in {"load", "get", "query", "write"} =>
                kind[voiceJob[j].call] # "ruled"

\* A test that has a job keeps its configuration in Redis, and a job that found none
\* knows that Redis lost it or failed.
TestKept ==
    /\ \A c \in Calls : kind[c] = "test" /\ callRow[c].at = "ready" /\ c \notin strayed =>
          redisKey[c] # NoConfig
    /\ \A j \in VoiceJobs : voiceJob[j].at # "idle" /\ kind[voiceJob[j].call] = "test" =>
          /\ callRow[voiceJob[j].call].at = "ready"
          /\ voiceJob[j].at \in {"query", "write", "agent"} => voiceJob[j].call \in strayed

ConfigInv == ConfigTypes /\ FoundOnce /\ KeptFits /\ NothingYet /\ TestKept

\* What is read for a call from the database is a configuration of that call.
LEMMA AskedFits == ASSUME ConfigInv, NEW c \in Calls
    PROVE  /\ Asked(c) \in Configs \ {NoConfig} /\ Asked(c).rev = callRow[c].found
           /\ Asked(c).asked <=> kind[c] = "test"
<1>1. callRow[c].found \in Nat
  BY DEF ConfigInv, ConfigTypes
<1>2. Asked(c) \in [rev : Nat, asked : BOOLEAN]
  BY <1>1 DEF Asked
<1>3. Asked(c).rev = callRow[c].found
  BY DEF Asked
<1>4. Asked(c).asked <=> kind[c] = "test"
  BY DEF Asked
<1> QED
  BY <1>2, <1>3, <1>4, ConfigAssumption DEF Configs

\* What Redis and the memories keep fits the call they keep it for.
LEMMA StoredFits == ASSUME ConfigInv
    PROVE  Stored \in Configs /\ Stored.rev = agentRow.rev /\ ~Stored.asked
<1>1. agentRow.rev \in Nat
  BY DEF ConfigInv, ConfigTypes
<1> QED
  BY <1>1 DEF Stored, Configs

\* Nothing has been asked for or kept.
LEMMA ConfigInit == ConfigsInit => ConfigInv
<1> SUFFICES ASSUME ConfigsInit PROVE ConfigInv
  OBVIOUS
<1>1. ConfigTypes
  BY DEF ConfigsInit, ConfigTypes, Configs, IdleJob
<1>2. FoundOnce /\ KeptFits /\ NothingYet /\ TestKept
  BY ConfigAssumption
  DEF ConfigsInit, FoundOnce, KeptFits, NothingYet, TestKept, IdleJob, VoiceProcesses
<1> QED
  BY <1>1, <1>2 DEF ConfigInv

\* What a call may run with does not change while its row names the same revision.
LEMMA AskedStays == ASSUME NEW c \in Calls, kind' = kind, callRow'[c].found = callRow[c].found
                    PROVE  Asked(c)' = Asked(c)
BY DEF Asked

Stages == {"idle", "load", "get", "query", "write", "agent", "run", "refused"}

\* What a job does with its own record and with its process's memory, field by field.
LEMMA JobChanges ==
    ASSUME ConfigTypes, NEW j \in VoiceJobs, NEW at \in Stages, NEW config \in Configs,
           JobWith(j, at, config)
    PROVE  /\ voiceJob' \in [VoiceJobs ->
                [at : Stages, call : Calls \cup {NoCall}, config : Configs]]
           /\ voiceJob'[j].at = at /\ voiceJob'[j].call = voiceJob[j].call
           /\ voiceJob'[j].config = config
           /\ \A k \in VoiceJobs \ {j} : voiceJob'[k] = voiceJob[k]
BY DEF ConfigTypes, JobWith, Stages

\* Of the memories a job changes only that of its process.
LEMMA MemoryChanges ==
    ASSUME ConfigTypes, NEW j \in VoiceJobs, NEW config \in Configs, voiceJob[j].call \in Calls,
           Memorise(j, config)
    PROVE  /\ memory' \in [VoiceProcesses -> [Calls -> Configs]]
           /\ \A p \in VoiceProcesses, c \in Calls :
                 memory'[p][c] = config \/ memory'[p][c] = memory[p][c]
           /\ \A p \in VoiceProcesses, c \in Calls \ {voiceJob[j].call} :
                 memory'[p][c] = memory[p][c]
<1>1. JobProcess[j] \in VoiceProcesses
  BY DEF VoiceProcesses
<1> QED
  BY <1>1 DEF ConfigTypes, Memorise

\* Of the calls a step changes only the one it names.
LEMMA CallChanges ==
    ASSUME ConfigTypes, NEW c \in Calls, NEW at \in {"none", "made", "ready", "failed"},
           CallTo(c, at)
    PROVE  /\ callRow' \in [Calls -> [at : {"none", "made", "ready", "failed"}, found : Nat]]
           /\ callRow'[c].at = at /\ callRow'[c].found = callRow[c].found
           /\ \A d \in Calls \ {c} : callRow'[d] = callRow[d]
BY DEF ConfigTypes, CallTo

\* A step of a job that had one, whatever it does to Redis and to the memory: what it
\* goes on with and what it leaves behind must fit.
LEMMA JobMoves ==
    ASSUME ConfigInv, NEW j \in VoiceJobs, NEW c \in Calls,
           voiceJob[j].call = c, voiceJob[j].at # "idle",
           NEW at \in Stages \ {"idle"}, NEW config \in Configs, JobWith(j, at, config),
           at \in {"load", "get", "query", "write"} => kind[c] # "ruled",
           at \in {"write", "run"} => Fits(c, config),
           at \in {"query", "write", "agent"} /\ kind[c] = "test" => c \in strayed',
           UNCHANGED <<kind, agentRow, callRow>>, strayed \subseteq strayed',
           redisKey' \in [Calls -> Configs],
           \A d \in Calls : redisKey'[d] = redisKey[d] \/
               (d = c /\ (kind[c] = "test" => c \in strayed) /\ Fits(d, redisKey'[d])),
           memory' \in [VoiceProcesses -> [Calls -> Configs]],
           \A p \in VoiceProcesses, d \in Calls : memory'[p][d] = memory[p][d] \/
               (d = c /\ Fits(d, memory'[p][d]))
    PROVE  ConfigInv'
<1> USE DEF ConfigInv
<1>1. /\ ConfigTypes'
      /\ voiceJob'[j].at = at /\ voiceJob'[j].call = c /\ voiceJob'[j].config = config
      /\ \A k \in VoiceJobs \ {j} : voiceJob'[k] = voiceJob[k]
  BY JobChanges DEF ConfigTypes, Stages
<1>2. FoundOnce'
  BY DEF FoundOnce
<1>3. NothingYet'
  BY <1>1 DEF NothingYet
<1>4. TestKept'
  BY <1>1 DEF NothingYet, TestKept
<1>5. \A d \in Calls : Asked(d)' = Asked(d)
  BY AskedStays
<1>6. KeptFits'
  <2>1. \A d \in Calls : redisKey'[d] # NoConfig => Fits(d, redisKey[d])' 
    BY <1>5 DEF KeptFits, Fits
  <2>2. \A p \in VoiceProcesses, d \in Calls :
            memory'[p][d] # NoConfig => Fits(d, memory[p][d])'
    BY <1>5 DEF KeptFits, Fits
  <2>3. \A k \in VoiceJobs : voiceJob'[k].at \in {"write", "run"} =>
            Fits(voiceJob[k].call, voiceJob[k].config)'
    BY <1>1, <1>5 DEF KeptFits, Fits, NothingYet
  <2> QED
    BY <2>1, <2>2, <2>3 DEF KeptFits
<1> QED
  BY <1>1, <1>2, <1>3, <1>4, <1>6

\* Every query, read, write-back and fault keeps it.
LEMMA ConfigStep == ASSUME ConfigInv, [ConfigsNext]_configs PROVE ConfigInv'
<1> USE DEF ConfigInv, JobTo, RunWith, RedisFault
<1>0. /\ \A j \in VoiceJobs : JobProcess[j] \in VoiceProcesses
      /\ NoConfig \in Configs
  BY DEF VoiceProcesses, Configs
<1>1. ASSUME ReviseAgent PROVE ConfigInv'
  <2>1. ConfigTypes'
    BY <1>1, <1>0, AskedFits, StoredFits DEF ReviseAgent, ConfigTypes, NothingYet
  <2>2. FoundOnce' /\ NothingYet'
    BY <1>1, <1>0, StoredFits, ConfigAssumption
    DEF ReviseAgent, ConfigTypes, FoundOnce, NothingYet, IdleJob
  <2>3. TestKept'
    BY <1>1, <1>0, AskedFits, StoredFits DEF ReviseAgent, ConfigTypes, NothingYet, TestKept
  <2>4. KeptFits'
    BY <1>1, <1>0, AskedFits, StoredFits, AskedStays
    DEF ReviseAgent, ConfigTypes, KeptFits, Fits, FoundOnce, NothingYet, TestKept
  <2> QED
    BY <2>1, <2>2, <2>3, <2>4
<1>2. ASSUME NEW c \in Calls, MakeCall(c) PROVE ConfigInv'
  <2>1. ConfigTypes'
    BY <1>2, <1>0, AskedFits, StoredFits DEF MakeCall, ConfigTypes, NothingYet
  <2>2. FoundOnce' /\ NothingYet'
    BY <1>2, <1>0, StoredFits, ConfigAssumption
    DEF MakeCall, ConfigTypes, FoundOnce, NothingYet, IdleJob
  <2>3. TestKept'
    BY <1>2, <1>0, AskedFits, StoredFits DEF MakeCall, ConfigTypes, NothingYet, TestKept
  <2>4. KeptFits'
    BY <1>2, <1>0, AskedFits, StoredFits, AskedStays
    DEF MakeCall, ConfigTypes, KeptFits, Fits, FoundOnce, NothingYet, TestKept
  <2> QED
    BY <2>1, <2>2, <2>3, <2>4
<1>3. ASSUME NEW c \in Calls, Prewarm(c) PROVE ConfigInv'
  <2>0. PICK at \in {"ready", "failed"} :
           /\ UNCHANGED <<kind, agentRow, memory, voiceJob, strayed>>
           /\ callRow[c].at = "made" /\ CallTo(c, at)
           /\ \/ redisKey' = [redisKey EXCEPT ![c] = Asked(c)] /\ at = "ready"
              \/ redisKey' = redisKey /\ (kind[c] = "test" <=> at = "failed")
    BY <1>3 DEF Prewarm
  <2>1. /\ callRow' \in [Calls -> [at : {"none", "made", "ready", "failed"}, found : Nat]]
        /\ callRow'[c].at = at /\ \A d \in Calls : callRow'[d].found = callRow[d].found
        /\ \A d \in Calls \ {c} : callRow'[d] = callRow[d]
    BY <2>0, CallChanges
  <2>2. ConfigTypes'
    BY <2>0, <2>1, AskedFits DEF ConfigTypes
  <2>3. FoundOnce' /\ NothingYet'
    BY <2>0, <2>1, AskedFits DEF ConfigTypes, FoundOnce, NothingYet
  <2>4. TestKept'
    BY <2>0, <2>1, AskedFits DEF ConfigTypes, NothingYet, TestKept
  <2>5. \A d \in Calls : Asked(d)' = Asked(d)
    BY <2>0, <2>1, AskedStays
  <2>6. KeptFits'
    BY <2>0, <2>1, <2>5, AskedFits DEF ConfigTypes, KeptFits, Fits, NothingYet
  <2> QED
    BY <2>2, <2>3, <2>4, <2>6
<1>4. ASSUME NEW c \in Calls, Undo(c) PROVE ConfigInv'
  <2>1. ConfigTypes'
    BY <1>4, <1>0, AskedFits, StoredFits, CallChanges DEF Undo, ConfigTypes, NothingYet
  <2>2. FoundOnce' /\ NothingYet'
    BY <1>4, <1>0, StoredFits, CallChanges, ConfigAssumption
    DEF Undo, ConfigTypes, FoundOnce, NothingYet, IdleJob
  <2>3. TestKept'
    BY <1>4, <1>0, AskedFits, StoredFits, CallChanges
    DEF Undo, ConfigTypes, NothingYet, TestKept
  <2>4. KeptFits'
    <3>1. /\ \A d \in Calls : callRow'[d].found = callRow[d].found
          /\ \A d \in Calls : redisKey'[d] = redisKey[d] \/ redisKey'[d] = NoConfig
          /\ UNCHANGED <<kind, memory, voiceJob, strayed>>
      BY <1>4, CallChanges DEF Undo, ConfigTypes
    <3>2. \A d \in Calls : Asked(d)' = Asked(d)
      BY <3>1, AskedStays
    <3> QED
      BY <3>1, <3>2 DEF ConfigTypes, KeptFits, Fits, NothingYet
  <2> QED
    BY <2>1, <2>2, <2>3, <2>4
<1>5. ASSUME NEW c \in Calls, LoseKey(c) PROVE ConfigInv'
  <2>1. ConfigTypes'
    BY <1>5, <1>0, AskedFits, StoredFits DEF LoseKey, ConfigTypes, NothingYet
  <2>2. FoundOnce' /\ NothingYet'
    BY <1>5, <1>0, StoredFits, ConfigAssumption
    DEF LoseKey, ConfigTypes, FoundOnce, NothingYet, IdleJob
  <2>3. TestKept'
    BY <1>5, <1>0, AskedFits, StoredFits DEF LoseKey, ConfigTypes, NothingYet, TestKept
  <2>4. KeptFits'
    BY <1>5, <1>0, AskedFits, StoredFits, AskedStays
    DEF LoseKey, ConfigTypes, KeptFits, Fits, FoundOnce, NothingYet, TestKept
  <2> QED
    BY <2>1, <2>2, <2>3, <2>4
<1>6. ASSUME NEW j \in VoiceJobs, NEW c \in Calls, Dispatch(j, c) PROVE ConfigInv'
  <2>1. ConfigTypes'
    BY <1>6, <1>0, AskedFits, StoredFits DEF Dispatch, ConfigTypes, NothingYet
  <2>2. FoundOnce' /\ NothingYet'
    BY <1>6, <1>0, StoredFits, ConfigAssumption
    DEF Dispatch, ConfigTypes, FoundOnce, NothingYet, IdleJob
  <2>3. TestKept'
    BY <1>6, <1>0, AskedFits, StoredFits DEF Dispatch, ConfigTypes, NothingYet, TestKept
  <2>4. KeptFits'
    BY <1>6, <1>0, AskedFits, StoredFits, AskedStays
    DEF Dispatch, ConfigTypes, KeptFits, Fits, FoundOnce, NothingYet, TestKept
  <2> QED
    BY <2>1, <2>2, <2>3, <2>4
<1>7. ASSUME NEW j \in VoiceJobs, Recall(j) PROVE ConfigInv'
  <2> DEFINE c == voiceJob[j].call
             config == memory[JobProcess[j]][c]
  <2>1. /\ c \in Calls /\ kind[c] # "ruled" /\ voiceJob[j].at = "load"
        /\ config \in Configs /\ voiceJob[j].config \in Configs
        /\ config # NoConfig => Fits(c, config)
    BY <1>7, <1>0 DEF Recall, ConfigTypes, KeptFits, NothingYet
  <2>2. UNCHANGED <<kind, agentRow, callRow, redisKey, memory, strayed>>
    BY <1>7 DEF Recall
  <2>3. CASE config # NoConfig
    <3>1. JobWith(j, "run", config)
      BY <1>7, <2>3 DEF Recall
    <3> QED
      BY <2>1, <2>2, <2>3, <3>1, JobMoves DEF ConfigTypes, Stages
  <2>4. CASE config = NoConfig
    <3>1. JobWith(j, "get", voiceJob[j].config)
      BY <1>7, <2>4 DEF Recall
    <3> QED
      BY <2>1, <2>2, <3>1, JobMoves DEF ConfigTypes, Stages
  <2> QED
    BY <2>3, <2>4
<1>8. ASSUME NEW j \in VoiceJobs, GetConfig(j) PROVE ConfigInv'
  <2> DEFINE c == voiceJob[j].call
  <2>1. /\ c \in Calls /\ kind[c] # "ruled" /\ voiceJob[j].at = "get"
        /\ redisKey[c] \in Configs /\ voiceJob[j].config \in Configs
        /\ redisKey[c] # NoConfig => Fits(c, redisKey[c])
    BY <1>8 DEF GetConfig, ConfigTypes, KeptFits, NothingYet
  <2>2. UNCHANGED <<kind, agentRow, callRow, redisKey>>
    BY <1>8 DEF GetConfig
  <2>3. CASE redisKey[c] # NoConfig /\ JobWith(j, "run", redisKey[c])
             /\ Memorise(j, redisKey[c]) /\ strayed' = strayed
    <3>1. /\ memory' \in [VoiceProcesses -> [Calls -> Configs]]
          /\ \A p \in VoiceProcesses, d \in Calls :
                memory'[p][d] = memory[p][d] \/ (d = c /\ Fits(d, memory'[p][d]))
      BY <2>1, <2>3, MemoryChanges
    <3> QED
      BY <2>1, <2>2, <2>3, <3>1, JobMoves DEF ConfigTypes, Stages
  <2>4. CASE redisKey[c] = NoConfig /\ JobWith(j, "query", voiceJob[j].config)
             /\ UNCHANGED <<memory, strayed>>
    <3>1. kind[c] = "test" => c \in strayed
      BY <2>1, <2>4 DEF TestKept
    <3> QED
      BY <2>1, <2>2, <2>4, <3>1, JobMoves DEF ConfigTypes, Stages
  <2>5. CASE JobWith(j, "query", voiceJob[j].config) /\ strayed' = strayed \cup {c}
             /\ memory' = memory
    BY <2>1, <2>2, <2>5, JobMoves DEF ConfigTypes, Stages
  <2> QED
    BY <1>8, <2>3, <2>4, <2>5 DEF GetConfig
<1>9. ASSUME NEW j \in VoiceJobs, Query(j) PROVE ConfigInv'
  <2> DEFINE c == voiceJob[j].call
  <2>1. /\ c \in Calls /\ kind[c] # "ruled" /\ voiceJob[j].at = "query"
        /\ voiceJob[j].config \in Configs
        /\ kind[c] = "test" => c \in strayed
    BY <1>9 DEF Query, ConfigTypes, NothingYet, TestKept
  <2>2. UNCHANGED <<kind, agentRow, callRow, redisKey, strayed>>
    BY <1>9 DEF Query
  <2>3. Fits(c, Stored) /\ Stored \in Configs
    BY <2>1, StoredFits DEF Fits, FoundOnce
  <2>4. CASE JobWith(j, "write", Stored) /\ Memorise(j, Stored)
    <3>1. /\ memory' \in [VoiceProcesses -> [Calls -> Configs]]
          /\ \A p \in VoiceProcesses, d \in Calls :
                memory'[p][d] = memory[p][d] \/ (d = c /\ Fits(d, memory'[p][d]))
      BY <2>1, <2>3, <2>4, MemoryChanges
    <3> QED
      BY <2>1, <2>2, <2>3, <2>4, <3>1, JobMoves DEF ConfigTypes, Stages
  <2>5. CASE JobWith(j, "agent", voiceJob[j].config) /\ memory' = memory
    BY <2>1, <2>2, <2>5, JobMoves DEF ConfigTypes, Stages
  <2> QED
    BY <1>9, <2>4, <2>5 DEF Query
<1>10. ASSUME NEW j \in VoiceJobs, WriteBack(j) PROVE ConfigInv'
  <2> DEFINE c == voiceJob[j].call
             config == voiceJob[j].config
  <2>1. /\ c \in Calls /\ voiceJob[j].at = "write" /\ config \in Configs /\ Fits(c, config)
        /\ kind[c] = "test" => c \in strayed
    BY <1>10 DEF WriteBack, ConfigTypes, KeptFits, NothingYet, TestKept
  <2>2. /\ UNCHANGED <<kind, agentRow, callRow, memory, strayed>>
        /\ JobWith(j, "run", config)
        /\ redisKey' = redisKey \/ redisKey' = [redisKey EXCEPT ![c] = config]
    BY <1>10 DEF WriteBack
  <2>3. /\ redisKey' \in [Calls -> Configs]
        /\ \A d \in Calls : redisKey'[d] = redisKey[d] \/ (d = c /\ Fits(d, redisKey'[d]))
    BY <2>1, <2>2 DEF ConfigTypes
  <2> QED
    BY <2>1, <2>2, <2>3, JobMoves DEF ConfigTypes, Stages
<1>11. ASSUME NEW j \in VoiceJobs, QueryAgent(j) PROVE ConfigInv'
  <2> DEFINE c == voiceJob[j].call
  <2>1. /\ c \in Calls /\ voiceJob[j].at = "agent" /\ voiceJob[j].config \in Configs
        /\ kind[c] = "test" => c \in strayed
    BY <1>11 DEF QueryAgent, ConfigTypes, NothingYet, TestKept
  <2>2. UNCHANGED <<kind, agentRow, callRow, redisKey, memory, strayed>>
    BY <1>11 DEF QueryAgent
  <2>3. Fits(c, Stored) /\ Stored \in Configs
    BY <2>1, StoredFits DEF Fits, FoundOnce
  <2>4. CASE JobWith(j, "run", Stored)
    BY <2>1, <2>2, <2>3, <2>4, JobMoves DEF ConfigTypes, Stages
  <2>5. CASE JobWith(j, "refused", voiceJob[j].config)
    BY <2>1, <2>2, <2>5, JobMoves DEF ConfigTypes, Stages
  <2> QED
    BY <1>11, <2>4, <2>5 DEF QueryAgent
<1>12. CASE UNCHANGED configs
  BY <1>12 DEF configs, ConfigTypes, FoundOnce, KeptFits, Fits, Asked, NothingYet, TestKept
<1> QED
  BY <1>1, <1>2, <1>3, <1>4, <1>5, <1>6, <1>7, <1>8, <1>9, <1>10, <1>11, <1>12 DEF ConfigsNext

\* A job runs what its call was made for, whatever is edited, cached, lost and written
\* back meanwhile.
THEOREM ConfigKept == GuardsSpec => []ConfigIsCalls
<1>1. GuardsInit => ConfigInv
  BY ConfigInit DEF GuardsInit
<1>2. ConfigInv /\ [GuardsNext]_guardVars => ConfigInv'
  BY ConfigStep DEF GuardsNext, guardVars
<1>3. ConfigInv => ConfigIsCalls
  BY DEF ConfigInv, ConfigTypes, KeptFits, Fits, ConfigIsCalls, Running
<1> QED
  BY <1>1, <1>2, <1>3, PTL DEF GuardsSpec
==============================================================================
