----------------------------- MODULE CallConfig -----------------------------
(***************************************************************************)
(* Which configuration a voice job runs with.  The web writes one to Redis *)
(* under the id of the call it makes; for a test call it carries what the  *)
(* member asked for, which is nowhere else.  The job takes the one its     *)
(* process remembers, or the one in Redis, or reads the agent's row and    *)
(* writes what it found back.  Nobody takes a configuration out of a       *)
(* process's memory, and an edit of the agent reaches neither.             *)
(*                                                                         *)
(* A configuration is the revision of the agent it was made from and       *)
(* whether it carries what was asked for.  What the dispatch itself names  *)
(* is laid over a copy and is left out, like the copy that is stored under *)
(* the name of the room and that nobody reads.                             *)
(***************************************************************************)
EXTENDS Integers, FiniteSets

CONSTANTS
    Calls,
    Kinds,       \* Kinds[c]: what call c may be
    VoiceJobs,
    JobProcess,  \* the process that serves each job
    NoConfig, NoCall,
    MaxRevisions, MaxRedisFaults   \* bounds

ASSUME ConfigAssumption ==
    /\ Kinds \in [Calls -> SUBSET {"test", "inbound", "outbound", "ruled"}]
    /\ NoCall \notin Calls
    /\ NoConfig \notin [rev : Nat, asked : BOOLEAN]
    /\ MaxRevisions \in Nat /\ MaxRedisFaults \in Nat

VARIABLES
    agentRow,  \* [rev, active]
    kind,      \* kind[c]: a test, inbound, outbound, or ruled if the room's own rule
               \* dispatches the job, without the call's id
    callRow,   \* callRow[c]: [at, found], the revision the web found
    redisKey,  \* redisKey[c]: the configuration in Redis, or NoConfig
    memory,    \* memory[p][c]: what process p remembers
    voiceJob,  \* voiceJob[j]: [at, call, config]
    strayed,   \* calls whose key was lost or could not be read (history)
    redisFaults

configs == <<agentRow, kind, callRow, redisKey, memory, voiceJob, strayed, redisFaults>>

VoiceProcesses == {JobProcess[j] : j \in VoiceJobs}
IdleJob == [at |-> "idle", call |-> NoCall, config |-> NoConfig]

ConfigsInit ==
    /\ agentRow \in [rev : {1}, active : BOOLEAN]
    /\ kind \in {f \in [Calls -> UNION {Kinds[c] : c \in Calls}] :
                   \A c \in Calls : f[c] \in Kinds[c]}
    /\ callRow = [c \in Calls |-> [at |-> "none", found |-> 0]]
    /\ redisKey = [c \in Calls |-> NoConfig]
    /\ memory = [p \in VoiceProcesses |-> [c \in Calls |-> NoConfig]]
    /\ voiceJob = [j \in VoiceJobs |-> IdleJob]
    /\ strayed = {} /\ redisFaults = 0

RedisFault == redisFaults < MaxRedisFaults /\ redisFaults' = redisFaults + 1
CallTo(c, at) == callRow' = [callRow EXCEPT ![c] = [at |-> at, found |-> @.found]]
JobWith(j, at, config) ==
    voiceJob' = [voiceJob EXCEPT ![j] = [at |-> at, call |-> @.call, config |-> config]]
JobTo(j, at) == JobWith(j, at, voiceJob[j].config)

\* The two conversions, of the row as the web reads it and of the row as the job does.
Asked(c) == [rev |-> callRow[c].found, asked |-> kind[c] = "test"]
Stored == [rev |-> agentRow.rev, asked |-> FALSE]

\* The draft is edited, or the agent activated or paused.
ReviseAgent ==
    /\ agentRow.rev < MaxRevisions
    /\ \E on \in BOOLEAN : agentRow' = [rev |-> agentRow.rev + 1, active |-> on]
    /\ UNCHANGED <<kind, callRow, redisKey, memory, voiceJob, strayed, redisFaults>>

(***************************************************************************)
(* The web makes the call.                                                 *)
(***************************************************************************)

\* A test or an inbound call does not mind whether the agent is active.
MakeCall(c) ==
    /\ callRow[c].at = "none"
    /\ kind[c] = "outbound" => agentRow.active
    /\ callRow' = [callRow EXCEPT ![c] =
          [at |-> IF kind[c] = "outbound" THEN "ready" ELSE "made", found |-> agentRow.rev]]
    /\ UNCHANGED <<kind, agentRow, redisKey, memory, voiceJob, strayed, redisFaults>>

\* a mutant: also a test goes on without its configuration in Redis
PrewarmAtBest(c) ==
    /\ callRow[c].at = "made"
    /\ \/ redisKey' = [redisKey EXCEPT ![c] = Asked(c)] /\ UNCHANGED redisFaults
       \/ RedisFault /\ UNCHANGED redisKey
    /\ CallTo(c, "ready")
    /\ UNCHANGED <<kind, agentRow, memory, voiceJob, strayed>>

\* Only a test call fails when Redis does not take the configuration.
Prewarm(c) ==
    /\ callRow[c].at = "made"
    /\ \/ /\ redisKey' = [redisKey EXCEPT ![c] = Asked(c)]
          /\ CallTo(c, "ready") /\ UNCHANGED redisFaults
       \/ /\ RedisFault
          /\ CallTo(c, IF kind[c] = "test" THEN "failed" ELSE "ready")
          /\ UNCHANGED redisKey
    /\ UNCHANGED <<kind, agentRow, memory, voiceJob, strayed>>

\* A test whose room or job cannot be had takes its configuration back, if it can.
Undo(c) ==
    /\ kind[c] = "test" /\ callRow[c].at = "ready"
    /\ \A j \in VoiceJobs : voiceJob[j].call # c
    /\ CallTo(c, "failed")
    /\ \/ redisKey' = [redisKey EXCEPT ![c] = NoConfig] /\ UNCHANGED redisFaults
       \/ RedisFault /\ UNCHANGED redisKey
    /\ UNCHANGED <<kind, agentRow, memory, voiceJob, strayed>>

(***************************************************************************)
(* The voice runtime loads it.                                             *)
(***************************************************************************)

\* A job of the call; LiveKit may start another when a worker is lost.  The room's own
\* rule starts one as soon as there is a room.
Dispatch(j, c) ==
    /\ voiceJob[j] = IdleJob
    /\ callRow[c].at = "ready" \/ (kind[c] = "ruled" /\ callRow[c].at = "none")
    /\ IF \E k \in VoiceJobs : voiceJob[k].call = c THEN RedisFault ELSE UNCHANGED redisFaults
    /\ voiceJob' = [voiceJob EXCEPT ![j] =
          [at |-> IF kind[c] = "ruled" THEN "agent" ELSE "load", call |-> c,
           config |-> NoConfig]]
    /\ UNCHANGED <<kind, agentRow, callRow, redisKey, memory, strayed>>

RunWith(j, config) == JobWith(j, "run", config)
Memorise(j, config) == memory' = [memory EXCEPT ![JobProcess[j]][voiceJob[j].call] = config]

Recall(j) ==
    LET config == memory[JobProcess[j]][voiceJob[j].call] IN
    /\ voiceJob[j].at = "load"
    /\ IF config # NoConfig THEN RunWith(j, config) ELSE JobTo(j, "get")
    /\ UNCHANGED <<kind, agentRow, callRow, redisKey, memory, strayed, redisFaults>>

\* A key that is not there and an error of Redis are the same.
GetConfig(j) ==
    LET c == voiceJob[j].call IN
    /\ voiceJob[j].at = "get"
    /\ \/ /\ redisKey[c] # NoConfig
          /\ RunWith(j, redisKey[c]) /\ Memorise(j, redisKey[c])
          /\ UNCHANGED <<strayed, redisFaults>>
       \/ /\ redisKey[c] = NoConfig
          /\ JobTo(j, "query") /\ UNCHANGED <<memory, strayed, redisFaults>>
       \/ /\ RedisFault
          /\ JobTo(j, "query") /\ strayed' = strayed \cup {c} /\ UNCHANGED memory
    /\ UNCHANGED <<kind, agentRow, callRow, redisKey>>

\* The row of the agent the call names, if it is active.
Query(j) ==
    /\ voiceJob[j].at = "query"
    /\ IF agentRow.active
       THEN JobWith(j, "write", Stored) /\ Memorise(j, Stored)
       ELSE JobTo(j, "agent") /\ UNCHANGED memory
    /\ UNCHANGED <<kind, agentRow, callRow, redisKey, strayed, redisFaults>>

WriteBack(j) ==
    /\ voiceJob[j].at = "write"
    /\ \/ redisKey' = [redisKey EXCEPT ![voiceJob[j].call] = voiceJob[j].config]
          /\ UNCHANGED redisFaults
       \/ RedisFault /\ UNCHANGED redisKey
    /\ JobTo(j, "run")
    /\ UNCHANGED <<kind, agentRow, callRow, memory, strayed>>

\* The row of the agent the dispatch names, read again; without it the room is deleted.
QueryAgent(j) ==
    /\ voiceJob[j].at = "agent"
    /\ IF agentRow.active THEN RunWith(j, Stored) ELSE JobTo(j, "refused")
    /\ UNCHANGED <<kind, agentRow, callRow, redisKey, memory, strayed, redisFaults>>

\* The TTL of an hour ends, or Redis loses the key.
LoseKey(c) ==
    /\ redisKey[c] # NoConfig /\ RedisFault
    /\ redisKey' = [redisKey EXCEPT ![c] = NoConfig]
    /\ strayed' = strayed \cup {c}
    /\ UNCHANGED <<kind, agentRow, callRow, memory, voiceJob>>

ConfigsNext ==
    \/ ReviseAgent
    \/ \E c \in Calls :
          \/ MakeCall(c) \/ Prewarm(c) \/ Undo(c) \/ LoseKey(c)
          \/ \E j \in VoiceJobs : Dispatch(j, c)
    \/ \E j \in VoiceJobs :
          Recall(j) \/ GetConfig(j) \/ Query(j) \/ WriteBack(j) \/ QueryAgent(j)

-----------------------------------------------------------------------------
Running == {j \in VoiceJobs : voiceJob[j].at = "run"}

\* A job runs what its call was made for, whatever is edited meanwhile, whoever wrote
\* last and wherever it found it: never an agent older than the call, unless the room's
\* own rule dispatched it; in a test exactly what the member asked for, as "a Mongo
\* fallback would run a different configuration" (test-session/route.ts:70-71), unless
\* Redis lost the key or failed to give it; and elsewhere nothing of a test.
ConfigIsCalls ==
    \A j \in Running :
        LET c == voiceJob[j].call
            config == voiceJob[j].config
        IN  /\ kind[c] # "ruled" => config.rev >= callRow[c].found
            /\ kind[c] = "test" /\ c \notin strayed => config = Asked(c)
            /\ kind[c] # "test" => ~config.asked
==============================================================================
