------------------------------ MODULE LiveClass ------------------------------
(***************************************************************************)
(* The live session of one lesson: internal/liveclasses/service.go with    *)
(* the LiveKit adapter, livekit.go.                                        *)
(*                                                                         *)
(* A request is a row read, a call of the room service and a write; other  *)
(* requests run in between, and nothing is locked.  A call of the room     *)
(* service may take effect although its answer is lost.  The process keeps *)
(* in memory which egress records the room; a restart forgets it.          *)
(*                                                                         *)
(* The room service is external: it opens a room when somebody enters with *)
(* an invitation, closes a room that is empty for ten minutes, and ends    *)
(* the recordings of a room it closes.                                     *)
(***************************************************************************)
CONSTANTS
    Requests, \* requests that may overlap
    Egresses  \* recordings, never used twice

VARIABLES
    lesson,  \* lessons.status: "draft" stands for draft and scheduled
    liveSession, \* live_sessions.status, "none" while there is no row
    room,    \* "never", "open", "closed", or "reopened" after it was closed
    egress,  \* [Egresses -> "unused", "active" or "over"]
    invited, \* somebody holds an invitation that has not expired
    known,   \* egressByRoom: {} or the egress of the room
    req,     \* [Requests -> where the request is]
    orphans  \* history: recordings the process lost sight of, see RunawayHasCause

service == <<room, egress, invited>>
liveVars == <<lesson, liveSession, service, known, req, orphans>>

Waiting == [at |-> "waiting"]

LiveInit ==
    /\ lesson = "draft"
    /\ liveSession = "none"
    /\ room = "never"
    /\ egress = [e \in Egresses |-> "unused"]
    /\ invited = FALSE
    /\ known = {}
    /\ req = [r \in Requests |-> Waiting]
    /\ orphans = {}

Go(r, at) == req' = [req EXCEPT ![r] = [at |-> at]]
GoWith(r, at, e) == req' = [req EXCEPT ![r] = [at |-> at, egress |-> e]]
Finish(r) == req' = [req EXCEPT ![r] = Waiting]

RoomExists == room \in {"open", "reopened"}
Opened == IF RoomExists THEN room ELSE IF room = "never" THEN "open" ELSE "reopened"
Ended == [e \in Egresses |-> IF egress[e] = "active" THEN "over" ELSE egress[e]]

-----------------------------------------------------------------------------
(* Service.Create *)

\* The lesson has not begun, and is in the scope of the requester.
CreateCheck(r) ==
    /\ req[r] = Waiting
    /\ lesson = "draft"
    /\ Go(r, "creating")
    /\ UNCHANGED <<lesson, liveSession, service, known, orphans>>

\* CreateRoom opens the room or finds it; the answer may be lost.
CreateRoom(r) ==
    /\ req[r].at = "creating"
    /\ room' = Opened
    /\ Go(r, "roomMade") \/ Finish(r)
    /\ UNCHANGED <<lesson, liveSession, egress, invited, known, orphans>>

\* The transaction: lesson_id is unique, the status of the lesson is not read again.
CreateCommit(r) ==
    /\ req[r].at = "roomMade"
    /\ liveSession = "none"
    /\ liveSession' = "created"
    /\ Finish(r)
    /\ UNCHANGED <<lesson, service, known, orphans>>

-----------------------------------------------------------------------------
(* Start, End, Join and Recording begin with load *)

\* What each of them asks of the status it has loaded.
Admits(op) ==
    {status \in {"created", "live", "ended"} :
        /\ op = "join" => status # "ended"
        /\ op \in {"record", "stop"} => status = "live"}

Load(r, op) ==
    /\ req[r] = Waiting
    /\ liveSession \in Admits(op)
    /\ Go(r, op)
    /\ UNCHANGED <<lesson, liveSession, service, known, orphans>>

\* Mutant: the UPDATE of the lesson is left to somebody else.
StartWriteSession(r) ==
    /\ req[r].at = "start"
    /\ liveSession' = "live"
    /\ Finish(r)
    /\ UNCHANGED <<lesson, service, known, orphans>>

\* Both UPDATEs in one implicit transaction, whatever the status is by now.
StartWrite(r) ==
    /\ req[r].at = "start"
    /\ liveSession' = "live"
    /\ lesson' = "live"
    /\ Finish(r)
    /\ UNCHANGED <<service, known, orphans>>

\* Mutant: an error of the room service does not stop the request.
EndRoomAnyway(r) ==
    /\ req[r].at = "end"
    /\ \/ room' = (IF RoomExists THEN "closed" ELSE room) /\ egress' = Ended
       \/ UNCHANGED <<room, egress>>
    /\ Go(r, "roomDeleted")
    /\ UNCHANGED <<lesson, liveSession, invited, known, orphans>>

\* DeleteRoom; the answer may be lost.  Of a room that is gone already, whether
\* the service says so or accepts is its own choice (a refusal is CallFail).
EndRoom(r) ==
    /\ req[r].at = "end"
    /\ room' = IF RoomExists THEN "closed" ELSE room
    /\ egress' = Ended
    /\ Go(r, "roomDeleted") \/ Finish(r)
    /\ UNCHANGED <<lesson, liveSession, invited, known, orphans>>

EndWrite(r) ==
    /\ req[r].at = "roomDeleted"
    /\ liveSession' = "ended"
    /\ lesson' = "completed"
    /\ Finish(r)
    /\ UNCHANGED <<service, known, orphans>>

\* joinInfo: a token for fifteen minutes, signed here; no call is made.
Join(r) ==
    /\ req[r].at = "join"
    /\ invited' = TRUE
    /\ Finish(r)
    /\ UNCHANGED <<lesson, liveSession, room, egress, known, orphans>>

-----------------------------------------------------------------------------
(* Service.Recording: Start- and StopRecording of the adapter *)

\* The service refuses to record a room it does not have.  A lost answer, or
\* one without an egress id, fails the request.
RecordStart(r, e) ==
    /\ req[r].at = "record"
    /\ RoomExists
    /\ egress[e] = "unused"
    /\ egress' = [egress EXCEPT ![e] = "active"]
    /\ \/ GoWith(r, "recording", e) /\ UNCHANGED orphans
       \/ Finish(r) /\ orphans' = orphans \cup {e}
    /\ UNCHANGED <<lesson, liveSession, room, invited, known>>

\* Mutant: the entry of the room keeps every recording.
RecordNoteAppends(r) ==
    /\ req[r].at = "recording"
    /\ known' = known \cup {req[r].egress}
    /\ Finish(r)
    /\ UNCHANGED <<lesson, liveSession, service, orphans>>

\* The entry of the room, which another start may have written.
RecordNote(r) ==
    /\ req[r].at = "recording"
    /\ known' = {req[r].egress}
    /\ orphans' = orphans \cup known
    /\ Finish(r)
    /\ UNCHANGED <<lesson, liveSession, service>>

\* Mutant: the entry is taken out before the service has answered.
StopReadForgetting(r) ==
    /\ req[r].at = "stop"
    /\ \E e \in known : GoWith(r, "stopping", e)
    /\ known' = {}
    /\ UNCHANGED <<lesson, liveSession, service, orphans>>

StopRead(r) ==
    /\ req[r].at = "stop"
    /\ \E e \in known : GoWith(r, "stopping", e)
    /\ UNCHANGED <<lesson, liveSession, service, known, orphans>>

\* StopEgress is refused for a recording that is over; the answer may be lost.
StopCall(r) ==
    /\ req[r].at = "stopping"
    /\ LET e == req[r].egress
       IN /\ egress[e] = "active"
          /\ egress' = [egress EXCEPT ![e] = "over"]
          /\ GoWith(r, "stopped", e) \/ Finish(r)
    /\ UNCHANGED <<lesson, liveSession, room, invited, known, orphans>>

\* The entry is deleted by room: it may be that of a later recording.
StopForget(r) ==
    /\ req[r].at = "stopped"
    /\ known' = {}
    /\ orphans' = orphans \cup (known \ {req[r].egress})
    /\ Finish(r)
    /\ UNCHANGED <<lesson, liveSession, service>>

-----------------------------------------------------------------------------
(* Failures, and what the room service does by itself *)

\* Any refusal or error, of the room service or of the database.  What follows
\* the answer on a recording cannot fail: it is only the map.
CallFail(r) ==
    /\ req[r].at \notin {"waiting", "recording", "stopped"}
    /\ Finish(r)
    /\ UNCHANGED <<lesson, liveSession, service, known, orphans>>

\* The process stops, also between two steps of a request, and starts again.
Restart ==
    /\ req' = [r \in Requests |-> Waiting]
    /\ known' = {}
    /\ orphans' = {e \in Egresses : egress[e] = "active"}
    /\ UNCHANGED <<lesson, liveSession, service>>

\* A participant connects with an invitation.
Enter ==
    /\ invited
    /\ ~RoomExists
    /\ room' = Opened
    /\ UNCHANGED <<lesson, liveSession, egress, invited, known, req, orphans>>

InviteExpires ==
    /\ invited
    /\ invited' = FALSE
    /\ UNCHANGED <<lesson, liveSession, room, egress, known, req, orphans>>

\* emptyTimeout
RoomEmptied ==
    /\ RoomExists
    /\ room' = "closed"
    /\ egress' = Ended
    /\ UNCHANGED <<lesson, liveSession, invited, known, req, orphans>>

-----------------------------------------------------------------------------
LiveNext ==
    \/ \E r \in Requests :
          \/ CreateCheck(r) \/ CreateRoom(r) \/ CreateCommit(r)
          \/ \E op \in {"start", "end", "join", "record", "stop"} : Load(r, op)
          \/ StartWrite(r)
          \/ EndRoom(r) \/ EndWrite(r)
          \/ Join(r)
          \/ \E e \in Egresses : RecordStart(r, e)
          \/ RecordNote(r)
          \/ StopRead(r) \/ StopCall(r) \/ StopForget(r)
          \/ CallFail(r)
    \/ Restart
    \/ Enter \/ InviteExpires \/ RoomEmptied

LiveSpec == LiveInit /\ [][LiveNext]_liveVars

-----------------------------------------------------------------------------
Points ==
    {Waiting}
    \cup [at : {"creating", "roomMade", "roomDeleted",
                "start", "end", "join", "record", "stop"}]
    \cup [at : {"recording", "stopping", "stopped"}, egress : Egresses]

LiveTypeOK ==
    /\ lesson \in {"draft", "live", "completed"}
    /\ liveSession \in {"none", "created", "live", "ended"}
    /\ room \in {"never", "open", "closed", "reopened"}
    /\ egress \in [Egresses -> {"unused", "active", "over"}]
    /\ invited \in BOOLEAN
    /\ known \in {{}} \cup {{e} : e \in Egresses}
    /\ req \in [Requests -> Points]
    /\ orphans \subseteq Egresses

\* docs/live-classes.md: "Failure leaves the lesson and session in a recoverable
\* state."  However starts and ends overlap and wherever a request stops, the
\* lesson says what its session says.
LessonFollowsSession ==
    /\ lesson = "live" <=> liveSession = "live"
    /\ lesson = "completed" <=> liveSession = "ended"

\* A session is never stored as ended over a room nobody has closed: if the room
\* of an ended session exists, it was closed and somebody has opened it again.
EndedRoomWasClosed == liveSession = "ended" => room # "open"

\* A recording that goes on can be stopped: the process knows its id, or is about
\* to note it.  The exceptions are the recordings lost sight of by a restart, by
\* a lost answer, and by the two overwrites of the one entry a room has: a second
\* start, and a stop that began before that start.
RunawayHasCause ==
    \A e \in Egresses : egress[e] = "active" =>
        \/ e \in known \cup orphans
        \/ \E r \in Requests : req[r].at = "recording" /\ req[r].egress = e
=============================================================================
