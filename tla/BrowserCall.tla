----------------------------- MODULE BrowserCall -----------------------------
(***************************************************************************)
(* The test call a member makes from the browser.  startCall and endCall   *)
(* are asynchronous handlers over one session object per attempt; either   *)
(* may be waiting when the other, an event of the room or the unmount of   *)
(* the component runs.  The server makes a room per session and answers    *)
(* with the call's id, the only handle to close the room again.            *)
(*                                                                         *)
(* What several continuations of one promise do follows in one step: no    *)
(* other handler runs between them.                                        *)
(***************************************************************************)
EXTENDS Integers, FiniteSets

CONSTANTS
    Sessions,       \* session objects, one per attempt to start
    NoSession,
    MaxCallFaults   \* bound: lost answers and failed requests

ASSUME BrowserAssumption == NoSession \notin Sessions /\ MaxCallFaults \in Nat

VARIABLES
    shown,     \* whether the component is mounted
    current,   \* sessionRef: the session that locks out another
    phase,     \* what the component shows
    start,     \* start[s]: where startCall is
    initReq,   \* initReq[s]: the request for a room
    endReq,    \* endReq[s]: the request to close it
    ending,    \* sessions endCall is waiting for
    released,  \* session.cancelled: its media were released
    mic,       \* sessions whose microphone track is running
    joined,    \* sessions whose browser is in the room
    known,     \* sessions whose call id has arrived
    room,      \* room[s]: the room on the server
    forsaken,  \* rooms the last request for failed with nobody left (history)
    callFaults

calling == <<shown, current, phase, start, initReq, endReq, ending, released, mic, joined,
             known, room, forsaken, callFaults>>
client == <<shown, current, phase>>
server == <<initReq, known, room>>

BrowserInit ==
    /\ shown = TRUE /\ current = NoSession /\ phase = "idle"
    /\ start = [s \in Sessions |-> "none"]
    /\ initReq = [s \in Sessions |-> "none"]
    /\ endReq = [s \in Sessions |-> "none"]
    /\ room = [s \in Sessions |-> "none"]
    /\ ending = {} /\ released = {} /\ mic = {} /\ joined = {} /\ known = {}
    /\ forsaken = {} /\ callFaults = 0

Mishap == callFaults < MaxCallFaults /\ callFaults' = callFaults + 1

StillActive(s) == shown /\ current = s /\ s \notin released
StartTo(s, pc) == start' = [start EXCEPT ![s] = pc]
ReleaseMedia(s) ==
    /\ released' = released \cup {s}
    /\ mic' = mic \ {s}
    /\ joined' = joined \ {s}

\* endServerSession: one request at a time, and one that succeeded is not sent again.
SendEnd(s) ==
    endReq' = IF s \in known /\ endReq[s] \in {"none", "failed"}
              THEN [endReq EXCEPT ![s] = "sent"] ELSE endReq

\* endCall has nothing more to wait for.
Close(s, ok) ==
    /\ ending' = ending \ {s}
    /\ phase' = IF shown /\ current = s THEN IF ok THEN "idle" ELSE "cleanup" ELSE phase
    /\ current' = IF ok /\ current = s THEN NoSession ELSE current
    /\ UNCHANGED shown

\* endCall: release the media at once; close the room as soon as the request for it
\* has been answered, if it was made.
EndCall(s, pending) ==
    /\ current = s /\ s \notin ending
    /\ ReleaseMedia(s)
    /\ SendEnd(s)
    /\ IF pending \/ endReq'[s] \in {"sent", "served"}
       THEN /\ ending' = ending \cup {s}
            /\ phase' = "ending"
            /\ UNCHANGED <<shown, current>>
       ELSE Close(s, TRUE)

(***************************************************************************)
(* startCall.                                                              *)
(***************************************************************************)

\* The button is there when the phase is idle; sessionRef keeps a second call out.
StartCall(s) ==
    /\ shown /\ phase = "idle" /\ current = NoSession /\ start[s] = "none"
    /\ current' = s /\ phase' = "connecting"
    /\ StartTo(s, "mic")
    /\ UNCHANGED <<shown, server, endReq, ending, released, mic, joined, forsaken, callFaults>>

\* An exception in startCall: the session still in charge is ended, another only
\* cleans up after itself.
Caught(s) ==
    /\ StartTo(s, "done")
    /\ IF StillActive(s) THEN EndCall(s, FALSE)
       ELSE ReleaseMedia(s) /\ SendEnd(s) /\ UNCHANGED <<client, ending>>

\* createLocalAudioTrack: what it gives a session that was cancelled is stopped.
Microphone(s) ==
    /\ start[s] = "mic"
    /\ \/ /\ Caught(s)
          /\ UNCHANGED <<server, forsaken, callFaults>>
       \/ /\ IF StillActive(s)
             THEN /\ mic' = mic \cup {s}
                  /\ initReq' = [initReq EXCEPT ![s] = "sent"]
                  /\ StartTo(s, "init")
             ELSE StartTo(s, "done") /\ UNCHANGED <<mic, initReq>>
          /\ UNCHANGED <<client, known, room, endReq, ending, released, joined, forsaken,
                         callFaults>>

\* The answer to the request for a room reaches startCall and, if it waits, endCall.
InitAnswered(s) ==
    /\ initReq[s] = "served"
    /\ initReq' = [initReq EXCEPT ![s] = "answered"]
    /\ known' = known \cup {s}
    /\ IF StillActive(s) THEN StartTo(s, "connect") /\ UNCHANGED endReq
                         ELSE StartTo(s, "closing") /\ endReq' = [endReq EXCEPT ![s] = "sent"]
    /\ UNCHANGED <<client, ending, released, mic, joined, room, forsaken, callFaults>>

\* It fails, or its answer is lost with the id of the room.
InitFails(s) ==
    /\ initReq[s] \in {"sent", "served"} /\ Mishap
    /\ initReq' = [initReq EXCEPT ![s] = "failed"]
    /\ UNCHANGED <<known, room, forsaken>>
    /\ IF s \in ending
       THEN /\ Close(s, TRUE) /\ StartTo(s, "done")
            /\ UNCHANGED <<endReq, released, mic, joined>>
       ELSE Caught(s)

\* a mutant: the room is joined whatever has happened meanwhile
ConnectAnyway(s) ==
    /\ start[s] = "connect"
    /\ joined' = joined \cup {s}
    /\ StartTo(s, "publish")
    /\ UNCHANGED <<client, server, endReq, ending, released, mic, forsaken, callFaults>>

\* The room is joined, and left again if the session is over by then.
Connect(s) ==
    /\ start[s] = "connect"
    /\ \/ Caught(s) /\ Mishap
       \/ /\ IF StillActive(s)
             THEN /\ joined' = joined \cup {s} /\ StartTo(s, "publish")
                  /\ UNCHANGED <<released, mic, endReq>>
             ELSE ReleaseMedia(s) /\ SendEnd(s) /\ StartTo(s, "closing")
          /\ UNCHANGED <<client, ending, callFaults>>
    /\ UNCHANGED <<server, forsaken>>

Publish(s) ==
    /\ start[s] = "publish"
    /\ \/ Caught(s) /\ Mishap
       \/ /\ IF StillActive(s)
             THEN StartTo(s, "audio") /\ UNCHANGED <<released, mic, joined, endReq>>
             ELSE ReleaseMedia(s) /\ SendEnd(s) /\ StartTo(s, "closing")
          /\ UNCHANGED <<client, ending, callFaults>>
    /\ UNCHANGED <<server, forsaken>>

\* startAudio, then the call is shown as connected.
Connected(s) ==
    /\ start[s] = "audio"
    /\ phase' = IF StillActive(s) THEN "connected" ELSE phase
    /\ StartTo(s, "done")
    /\ UNCHANGED <<shown, current, server, endReq, ending, released, mic, joined, forsaken,
                   callFaults>>

(***************************************************************************)
(* Ending.                                                                 *)
(***************************************************************************)

\* End Call, the worker or the room gone, the microphone lost, no worker in time.
End(s) ==
    /\ \/ shown /\ phase \notin {"idle", "ending"}
       \/ StillActive(s) /\ (s \in mic \/ s \in joined)
    /\ EndCall(s, initReq[s] \in {"sent", "served"})
    /\ UNCHANGED <<start, server, forsaken, callFaults>>

\* The answer to the request to close the room.  The call is over unless the browser
\* could not leave the room.
EndAnswered(s) ==
    /\ endReq[s] = "served"
    /\ endReq' = [endReq EXCEPT ![s] = "done"]
    /\ start' = IF start[s] \in {"closing", "again"} THEN [start EXCEPT ![s] = "done"] ELSE start
    /\ \/ s \in ending /\ Close(s, TRUE) /\ UNCHANGED callFaults
       \/ s \in ending /\ Close(s, FALSE) /\ Mishap
       \/ s \notin ending /\ UNCHANGED <<client, ending, callFaults>>
    /\ UNCHANGED <<server, released, mic, joined, forsaken>>

\* It fails: startCall, if it waits, tries once more; endCall leaves the session in
\* place for the member to try again.
EndFails(s) ==
    /\ endReq[s] \in {"sent", "served"} /\ Mishap
    /\ endReq' = [endReq EXCEPT ![s] = IF start[s] = "closing" THEN "sent" ELSE "failed"]
    /\ start' = [start EXCEPT ![s] =
          IF @ = "closing" THEN "again" ELSE IF @ = "again" THEN "done" ELSE @]
    /\ IF s \in ending THEN Close(s, FALSE) ELSE UNCHANGED <<client, ending>>
    /\ forsaken' = IF current # s /\ start[s] # "closing" THEN forsaken \cup {s} ELSE forsaken
    /\ UNCHANGED <<server, released, mic, joined>>

\* The component is unmounted: media and room, if its id is known, are let go.
Leave ==
    /\ shown
    /\ shown' = FALSE /\ current' = NoSession
    /\ IF current = NoSession THEN UNCHANGED <<endReq, released, mic, joined>>
                              ELSE ReleaseMedia(current) /\ SendEnd(current)
    /\ UNCHANGED <<phase, start, server, ending, forsaken, callFaults>>

\* It is mounted again, as a new instance.
Enter ==
    /\ ~shown
    /\ shown' = TRUE /\ phase' = "idle"
    /\ UNCHANGED <<current, start, server, endReq, ending, released, mic, joined, forsaken,
                   callFaults>>

(***************************************************************************)
(* The server.                                                             *)
(***************************************************************************)

\* init: the row, the configuration, the room and the worker's dispatch; a failure
\* undoes them, as far as LiveKit can be reached.
MakeRoom(s) ==
    /\ initReq[s] = "sent"
    /\ room' = [room EXCEPT ![s] = "open"]
    /\ initReq' = [initReq EXCEPT ![s] = "served"]
    /\ UNCHANGED <<client, known, start, endReq, ending, released, mic, joined, forsaken,
                   callFaults>>

\* end_call: a room that is missing counts as closed.
CloseRoom(s) ==
    /\ endReq[s] = "sent"
    /\ room' = [room EXCEPT ![s] = "closed"]
    /\ endReq' = [endReq EXCEPT ![s] = "served"]
    /\ UNCHANGED <<client, initReq, known, start, ending, released, mic, joined, forsaken,
                   callFaults>>

BrowserNext ==
    \/ \E s \in Sessions :
          \/ StartCall(s) \/ Microphone(s) \/ InitAnswered(s) \/ InitFails(s) \/ Connect(s)
          \/ Publish(s) \/ Connected(s) \/ End(s) \/ EndAnswered(s) \/ EndFails(s)
          \/ MakeRoom(s) \/ CloseRoom(s)
    \/ Leave \/ Enter

-----------------------------------------------------------------------------
\* Microphone and room belong to the session in charge: whenever a session is ended,
\* none of its pending steps turns them on again.
MediaOfCurrent == \A s \in mic \cup joined : StillActive(s)

\* "Cancellation cannot orphan a server room" (browser-call-playground.tsx:109-110): a
\* room whose id is known is the current session's, or is being closed, or every
\* request to close it failed after the page had been left; one whose id is not known
\* yet is still asked for.
RoomsAccounted ==
    \A s \in Sessions : room[s] = "open" =>
        \/ s \in known /\ (s = current \/ endReq[s] = "sent" \/ s \in forsaken)
        \/ s \notin known /\ (initReq[s] = "served" \/ initReq[s] = "failed")

\* The button offers a new call exactly when none is in charge.
ButtonAgrees == shown => (phase = "idle" <=> current = NoSession)

\* Whatever a test call turned on is somebody's to turn off.
CallAccounted == MediaOfCurrent /\ RoomsAccounted /\ ButtonAgrees
==============================================================================
