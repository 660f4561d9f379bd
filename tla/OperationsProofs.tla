-------------------------- MODULE OperationsProofs --------------------------
(***************************************************************************)
(* The composition that run "operations" explores: a behaviour of MCSpec   *)
(* is one of the accounts, one of the support desk and one of a live       *)
(* class, of which only the one in focus moves.  What the three components *)
(* promise of their own specifications therefore holds of the composition. *)
(***************************************************************************)
EXTENDS MCOperations, AccountsProofs, SupportProofs, LiveProofs

all == <<vars, deskVars, liveVars, focus>>

\* Whatever the focus, the accounts take a step of theirs or none.
LEMMA AccountsWithin == MCSpec => Spec
<1>1. MCInit => Init
  BY DEF MCInit
<1>2. [MCNext]_all => [Next]_vars
  BY DEF MCNext, all
<1> QED
  BY <1>1, <1>2, PTL DEF MCSpec, Spec, all

\* Whatever the focus, the desk takes a step of its own or none.
LEMMA DeskWithin == MCSpec => DeskSpec
<1>1. MCInit => DeskInit
  BY DEF MCInit
<1>2. [MCNext]_all => [DeskNext]_deskVars
  BY DEF MCNext, all
<1> QED
  BY <1>1, <1>2, PTL DEF MCSpec, DeskSpec, all

\* Whatever the focus, the live class takes a step of its own or none.
LEMMA LiveWithin == MCSpec => LiveSpec
<1>1. MCInit => LiveInit
  BY DEF MCInit
<1>2. [MCNext]_all => [LiveNext]_liveVars
  BY DEF MCNext, all
<1> QED
  BY <1>1, <1>2, PTL DEF MCSpec, LiveSpec, all

\* The tables and the calls of the three components stay well formed
\* together, for every size of them.
THEOREM OperationsTypeCorrect == MCSpec => []MCTypeOK
<1>1. TypeOK /\ DeskTypeOK /\ LiveTypeOK => MCTypeOK
  BY DEF MCTypeOK
<1> QED
  BY <1>1, AccountsWithin, DeskWithin, LiveWithin, WellFormed, DeskTypeCorrect,
     LiveTypeCorrect, PTL

\* What the components promise, each of its own specification, they promise
\* together: one school with an administrator, sessions that outlive their
\* revocation only by racing it, a ticket and a lesson that agree with their
\* histories, and a cause for every open row, room and recording.
THEOREM OperationsSafe ==
    MCSpec => [](/\ OneSchool /\ AdminRemains /\ SurvivorRaced
                 /\ AssigneeOpen /\ OneOpenUnlessOverlapped
                 /\ LessonFollowsSession /\ EndedRoomWasClosed /\ RunawayHasCause)
<1> QED
  BY AccountsWithin, DeskWithin, LiveWithin,
     InstalledOnce, AdministratorRemains, OnlyRacingSurvive,
     TicketAgrees, OverlapOpens,
     LessonAgrees, RoomClosedFirst, RunawaysExplained, PTL
=============================================================================
