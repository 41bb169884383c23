----------------------------- MODULE RedisGuards -----------------------------
(***************************************************************************)
(* What the services keep in Redis: the dispatch lock of one campaign, the *)
(* counters that govern dialing, and the configurations of calls.  They    *)
(* are different keys and no operation touches two kinds, so a behaviour   *)
(* uses one.                                                               *)
(***************************************************************************)
EXTENDS DispatchLock, Governors, CallConfig

guardVars == <<vars, governors, configs>>

GuardsInit == Init /\ GovernorsInit /\ ConfigsInit

LockFree == \A o \in Ops : pc[o] = "idle"
GovernorsIdle == \A d \in Dials : tries[d] = 0
ConfigsBlank == agentRow.rev = 1 /\ voiceJob = [j \in VoiceJobs |-> IdleJob]
                /\ \A c \in Calls : callRow[c].at = "none"

GuardsNext ==
    \/ GovernorsIdle /\ ConfigsBlank /\ Next /\ UNCHANGED <<governors, configs>>
    \/ LockFree /\ ConfigsBlank /\ GovernorsNext /\ UNCHANGED <<vars, configs>>
    \/ LockFree /\ GovernorsIdle /\ ConfigsNext /\ UNCHANGED <<vars, governors>>

GuardsSpec == GuardsInit /\ [][GuardsNext]_guardVars
==============================================================================
