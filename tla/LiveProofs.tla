----------------------------- MODULE LiveProofs -----------------------------
(***************************************************************************)
(* Proofs about the live class, for any number of overlapping requests and *)
(* of recordings.                                                          *)
(***************************************************************************)
EXTENDS LiveClass, TLAPS

(* The values of the variables are those of their types. *)
THEOREM LiveTypeCorrect == LiveSpec => []LiveTypeOK
<1>1. LiveInit => LiveTypeOK
  BY DEF LiveInit, LiveTypeOK, Points, Waiting
<1>2. LiveTypeOK /\ [LiveNext]_liveVars => LiveTypeOK'
  <2> SUFFICES ASSUME LiveTypeOK, [LiveNext]_liveVars PROVE LiveTypeOK'
    OBVIOUS
  <2> USE DEF LiveTypeOK, Points, Waiting, service, Go, GoWith, Finish
  <2>1. ASSUME NEW r \in Requests, CreateCheck(r) PROVE LiveTypeOK'
    BY <2>1 DEF CreateCheck
  <2>2. ASSUME NEW r \in Requests, CreateRoom(r) PROVE LiveTypeOK'
    BY <2>2 DEF CreateRoom, Opened, RoomExists
  <2>3. ASSUME NEW r \in Requests, CreateCommit(r) PROVE LiveTypeOK'
    BY <2>3 DEF CreateCommit
  <2>4. ASSUME NEW r \in Requests,
               NEW op \in {"start", "end", "join", "record", "stop"}, Load(r, op)
        PROVE LiveTypeOK'
    BY <2>4 DEF Load
  <2>5. ASSUME NEW r \in Requests, StartWrite(r) PROVE LiveTypeOK'
    BY <2>5 DEF StartWrite
  <2>6. ASSUME NEW r \in Requests, EndRoom(r) PROVE LiveTypeOK'
    <3>1. Ended \in [Egresses -> {"unused", "active", "over"}]
      BY DEF Ended
    <3> QED
      BY <2>6, <3>1 DEF EndRoom
  <2>7. ASSUME NEW r \in Requests, EndWrite(r) PROVE LiveTypeOK'
    BY <2>7 DEF EndWrite
  <2>8. ASSUME NEW r \in Requests, Join(r) PROVE LiveTypeOK'
    BY <2>8 DEF Join
  <2>9. ASSUME NEW r \in Requests, NEW e \in Egresses, RecordStart(r, e) PROVE LiveTypeOK'
    BY <2>9 DEF RecordStart
  <2>10. ASSUME NEW r \in Requests, RecordNote(r) PROVE LiveTypeOK'
    <3>1. req[r].egress \in Egresses
      BY <2>10 DEF RecordNote
    <3>2. known \subseteq Egresses
      OBVIOUS
    <3> QED
      BY <2>10, <3>1, <3>2 DEF RecordNote
  <2>11. ASSUME NEW r \in Requests, StopRead(r) PROVE LiveTypeOK'
    BY <2>11 DEF StopRead
  <2>12. ASSUME NEW r \in Requests, StopCall(r) PROVE LiveTypeOK'
    <3>1. req[r].egress \in Egresses
      BY <2>12 DEF StopCall
    <3> QED
      BY <2>12, <3>1 DEF StopCall
  <2>13. ASSUME NEW r \in Requests, StopForget(r) PROVE LiveTypeOK'
    <3>1. known \subseteq Egresses
      OBVIOUS
    <3> QED
      BY <2>13, <3>1 DEF StopForget
  <2>14. ASSUME NEW r \in Requests, CallFail(r) PROVE LiveTypeOK'
    BY <2>14 DEF CallFail
  <2>15. CASE Restart
    BY <2>15 DEF Restart
  <2>16. CASE Enter
    BY <2>16 DEF Enter, Opened, RoomExists
  <2>17. CASE InviteExpires
    BY <2>17 DEF InviteExpires
  <2>18. CASE RoomEmptied
    <3>1. Ended \in [Egresses -> {"unused", "active", "over"}]
      BY DEF Ended
    <3> QED
      BY <2>18, <3>1 DEF RoomEmptied
  <2>19. CASE UNCHANGED liveVars
    BY <2>19 DEF liveVars
  <2> QED
    BY <2>1, <2>2, <2>3, <2>4, <2>5, <2>6, <2>7, <2>8, <2>9, <2>10, <2>11, <2>12,
       <2>13, <2>14, <2>15, <2>16, <2>17, <2>18, <2>19 DEF LiveNext
<1> QED
  BY <1>1, <1>2, PTL DEF LiveSpec

-----------------------------------------------------------------------------
(* Session and lesson are written together; a session is inserted only once,  *)
(* for a lesson that nothing else has moved since.                            *)
THEOREM LessonAgrees == LiveSpec => []LessonFollowsSession
<1>1. LiveInit => LessonFollowsSession
  BY DEF LiveInit, LessonFollowsSession
<1>2. LiveTypeOK /\ LessonFollowsSession /\ [LiveNext]_liveVars => LessonFollowsSession'
  <2> SUFFICES ASSUME LiveTypeOK, LessonFollowsSession, [LiveNext]_liveVars
               PROVE LessonFollowsSession'
    OBVIOUS
  <2> USE DEF LessonFollowsSession
  <2>1. ASSUME NEW r \in Requests, CreateCommit(r) PROVE LessonFollowsSession'
    BY <2>1 DEF CreateCommit
  <2>2. ASSUME NEW r \in Requests, StartWrite(r) PROVE LessonFollowsSession'
    BY <2>2 DEF StartWrite
  <2>3. ASSUME NEW r \in Requests, EndWrite(r) PROVE LessonFollowsSession'
    BY <2>3 DEF EndWrite
  <2>4. CASE UNCHANGED <<lesson, liveSession>>
    BY <2>4
  <2> QED
    BY <2>1, <2>2, <2>3, <2>4 DEF LiveNext, liveVars, service, CreateCheck, CreateRoom,
       Load, EndRoom, Join, RecordStart, RecordNote, StopRead, StopCall, StopForget,
       CallFail, Restart, Enter, InviteExpires, RoomEmptied
<1> QED
  BY <1>1, <1>2, LiveTypeCorrect, PTL DEF LiveSpec

-----------------------------------------------------------------------------
(* The room was opened before there was a session, hence before any request   *)
(* on the session was let in; a request whose DeleteRoom has been answered    *)
(* has seen it closed.                                                        *)
RoomCameFirst ==
    /\ liveSession # "none" => room # "never"
    /\ \A r \in Requests :
          /\ req[r].at = "roomMade" => room # "never"
          /\ req[r].at \in {"start", "end", "roomDeleted"} => liveSession # "none"
          /\ req[r].at = "roomDeleted" => room # "open"

(* Rooms are deleted before a session is stored as ended: every exit from     *)
(* EndSession that has not seen the room closed leaves the session as it is.  *)
THEOREM RoomClosedFirst == LiveSpec => []EndedRoomWasClosed
<1> DEFINE IInv == LiveTypeOK /\ RoomCameFirst /\ EndedRoomWasClosed
           Goal == RoomCameFirst /\ EndedRoomWasClosed
<1>1. LiveInit => Goal
  BY DEF LiveInit, RoomCameFirst, EndedRoomWasClosed, Waiting
<1>2. IInv /\ [LiveNext]_liveVars => Goal'
  <2> SUFFICES ASSUME IInv, [LiveNext]_liveVars PROVE Goal'
    OBVIOUS
  <2> USE DEF LiveTypeOK, Points, RoomCameFirst, EndedRoomWasClosed, Waiting, Go, GoWith,
              Finish, service
  <2>1. ASSUME NEW r \in Requests, CreateCheck(r) PROVE Goal'
    BY <2>1 DEF CreateCheck
  <2>2. ASSUME NEW r \in Requests, CreateRoom(r) PROVE Goal'
    BY <2>2 DEF CreateRoom, Opened, RoomExists
  <2>3. ASSUME NEW r \in Requests, CreateCommit(r) PROVE Goal'
    BY <2>3 DEF CreateCommit
  <2>4. ASSUME NEW r \in Requests,
               NEW op \in {"start", "end", "join", "record", "stop"}, Load(r, op)
        PROVE Goal'
    BY <2>4 DEF Load, Admits
  <2>5. ASSUME NEW r \in Requests, StartWrite(r) PROVE Goal'
    BY <2>5 DEF StartWrite
  <2>6. ASSUME NEW r \in Requests, EndRoom(r) PROVE Goal'
    BY <2>6 DEF EndRoom, RoomExists
  <2>7. ASSUME NEW r \in Requests, EndWrite(r) PROVE Goal'
    BY <2>7 DEF EndWrite
  <2>8. ASSUME NEW r \in Requests,
               Join(r) \/ RecordNote(r) \/ StopRead(r) \/ StopCall(r) \/ StopForget(r)
               \/ CallFail(r) \/ \E e \in Egresses : RecordStart(r, e)
        PROVE Goal'
    BY <2>8 DEF Join, RecordNote, StopRead, StopCall, StopForget, CallFail, RecordStart
  <2>9. CASE Restart
    BY <2>9 DEF Restart
  <2>10. CASE Enter
    BY <2>10 DEF Enter, Opened, RoomExists
  <2>11. CASE InviteExpires
    BY <2>11 DEF InviteExpires
  <2>12. CASE RoomEmptied
    BY <2>12 DEF RoomEmptied
  <2>13. CASE UNCHANGED liveVars
    BY <2>13 DEF liveVars
  <2> QED
    BY <2>1, <2>2, <2>3, <2>4, <2>5, <2>6, <2>7, <2>8, <2>9, <2>10, <2>11, <2>12, <2>13
       DEF LiveNext
<1> QED
  BY <1>1, <1>2, LiveTypeCorrect, PTL DEF LiveSpec
-----------------------------------------------------------------------------
(* A stop that goes on to its entry has seen its recording end.               *)
StoppedIsOver ==
    \A r \in Requests : req[r].at = "stopped" => egress[req[r].egress] = "over"

(* Every step that takes the entry of a recording away, or fails to note it,  *)
(* is one of those the exceptions name.                                       *)
THEOREM RunawaysExplained == LiveSpec => []RunawayHasCause
<1> DEFINE IInv == LiveTypeOK /\ StoppedIsOver /\ RunawayHasCause
           Goal == StoppedIsOver /\ RunawayHasCause
<1>1. LiveInit => Goal
  BY DEF LiveInit, StoppedIsOver, RunawayHasCause, Waiting
<1>2. IInv /\ [LiveNext]_liveVars => Goal'
  <2> SUFFICES ASSUME IInv, [LiveNext]_liveVars PROVE Goal'
    OBVIOUS
  <2> USE DEF LiveTypeOK, Points, StoppedIsOver, RunawayHasCause, Waiting, Go, GoWith,
              Finish, service
  <2>1. ASSUME NEW r \in Requests,
               CreateCheck(r) \/ CreateRoom(r) \/ CreateCommit(r) \/ StartWrite(r)
               \/ EndWrite(r) \/ Join(r) \/ CallFail(r)
               \/ \E op \in {"start", "end", "join", "record", "stop"} : Load(r, op)
        PROVE Goal'
    BY <2>1 DEF CreateCheck, CreateRoom, CreateCommit, StartWrite, EndWrite, Join, CallFail,
       Load
  <2>2. ASSUME NEW r \in Requests, EndRoom(r) PROVE Goal'
    BY <2>2 DEF EndRoom, Ended
  <2>3. ASSUME NEW r \in Requests, NEW e \in Egresses, RecordStart(r, e) PROVE Goal'
    BY <2>3 DEF RecordStart
  <2>4. ASSUME NEW r \in Requests, RecordNote(r) PROVE Goal'
    BY <2>4 DEF RecordNote
  <2>5. ASSUME NEW r \in Requests, StopRead(r) PROVE Goal'
    BY <2>5 DEF StopRead
  <2>6. ASSUME NEW r \in Requests, StopCall(r) PROVE Goal'
    BY <2>6 DEF StopCall
  <2>7. ASSUME NEW r \in Requests, StopForget(r) PROVE Goal'
    BY <2>7 DEF StopForget
  <2>8. CASE Restart
    BY <2>8 DEF Restart
  <2>9. CASE RoomEmptied
    BY <2>9 DEF RoomEmptied, Ended
  <2>10. CASE Enter \/ InviteExpires \/ UNCHANGED liveVars
    BY <2>10 DEF Enter, InviteExpires, liveVars
  <2> QED
    BY <2>1, <2>2, <2>3, <2>4, <2>5, <2>6, <2>7, <2>8, <2>9, <2>10 DEF LiveNext
<1> QED
  BY <1>1, <1>2, LiveTypeCorrect, PTL DEF LiveSpec
=============================================================================
