---------------------------- MODULE SupportProofs ----------------------------
(***************************************************************************)
(* Proofs about a support ticket and its history, for any number of        *)
(* requests, assignments and users.                                        *)
(***************************************************************************)
EXTENDS SupportTicket, TLAPS

CallSet ==
    [at : {"closing", "closed", "held"}, to : Staff, seen : SUBSET Rows,
     closed : SUBSET Rows, passed : SUBSET Rows]

(* The UPDATE that closes, field by field.                                   *)
ClosedCall(a) ==
    /\ desk[a] \in CallSet
    /\ desk' = [desk EXCEPT ![a] = desk'[a]]
    /\ desk'[a] \in CallSet
    /\ desk'[a].at = "closed"
    /\ desk'[a].seen = desk[a].seen
    /\ desk'[a].closed = desk[a].seen \cap OpenRows
    /\ desk'[a].passed = desk[a].passed

LEMMA Closes ==
    ASSUME DeskTypeOK, NEW a \in Agents, AssignClose(a)
    PROVE  ClosedCall(a)
<1>1. desk[a] \in CallSet
  BY DEF AssignClose, DeskTypeOK, CallSet, AtRest
<1>2. /\ desk' = [desk EXCEPT ![a] = desk'[a]]
      /\ desk'[a] = [desk[a] EXCEPT !.at = "closed", !.closed = desk[a].seen \cap OpenRows]
  BY DEF AssignClose, DeskTypeOK
<1>3. desk'[a] \in CallSet
  BY <1>1, <1>2 DEF CallSet
<1>4. /\ desk'[a].at = "closed"
      /\ desk'[a].seen = desk[a].seen
      /\ desk'[a].closed = desk[a].seen \cap OpenRows
      /\ desk'[a].passed = desk[a].passed
  BY <1>1, <1>2 DEF CallSet
<1> QED
  BY <1>1, <1>2, <1>3, <1>4 DEF ClosedCall

(* What an assignment closes was committed.                                  *)
ClosedExist ==
    \A a \in Agents : desk[a] # AtRest =>
        \A r \in desk[a].closed : assignment[r] # NoRow

DeskSound == DeskTypeOK /\ ClosedExist

LEMMA DeskSoundAlways == DeskSpec => []DeskSound
<1>1. DeskInit => DeskSound
  BY DEF DeskInit, DeskTypeOK, ClosedExist, DeskSound
<1>2. DeskSound /\ [DeskNext]_deskVars => DeskSound'
  <2> SUFFICES ASSUME DeskSound, [DeskNext]_deskVars PROVE DeskSound'
    OBVIOUS
  <2> USE DEF DeskSound, DeskTypeOK, ClosedExist
  <2>1. CASE OpenTicket
    BY <2>1 DEF OpenTicket, Statuses
  <2>2. ASSUME NEW s \in Staff, NEW unrestricted \in BOOLEAN, NEW status \in Statuses,
               Move(s, unrestricted, status)
        PROVE DeskSound'
    BY <2>2 DEF Move, NoTicket
  <2>3. ASSUME NEW a \in Agents, NEW s \in Staff, AssignBegin(a, s) PROVE DeskSound'
    BY <2>3 DEF AssignBegin, Assigning, OpenRows
  <2>4. ASSUME NEW a \in Agents, AssignClose(a) PROVE DeskSound'
    <3>1. ClosedCall(a)
      BY <2>4, Closes
    <3>2. DeskTypeOK'
      BY <2>4, <3>1 DEF AssignClose, ClosedCall, CallSet
    <3>3. \A r \in desk'[a].closed : assignment'[r] # NoRow
      BY <2>4, <3>1 DEF AssignClose, ClosedCall, OpenRows, NoRow
    <3>4. \A b \in Agents : b # a => desk'[b] = desk[b]
      BY <3>1 DEF ClosedCall
    <3>5. assignment' = assignment
      BY <2>4 DEF AssignClose
    <3> QED
      BY <3>2, <3>3, <3>4, <3>5
  <2>5. ASSUME NEW a \in Agents, AssignTicket(a) PROVE DeskSound'
    BY <2>5 DEF AssignTicket, AtRest
  <2>6. ASSUME NEW a \in Agents, NEW r \in Rows, AssignCommit(a, r) PROVE DeskSound'
    <3>1. desk[a] \in CallSet
      BY <2>6 DEF AssignCommit, AtRest, CallSet
    <3>2. ASSUME NEW b \in Agents, b # a, desk[b] # AtRest
          PROVE  [desk[b] EXCEPT !.passed = @ \cup {r}] \in CallSet
      BY <3>2 DEF CallSet
    <3>3. desk' \in [Agents -> {AtRest} \cup CallSet]
      BY <2>6, <3>2 DEF AssignCommit
    <3>4. ticket' \in [status : Statuses, assignee : Staff]
      BY <2>6, <3>1 DEF AssignCommit, CallSet, Statuses
    <3>5. ASSUME NEW q \in Rows
          PROVE  assignment'[q] \in {NoRow} \cup
                    [state : {"open", "closed"}, to : Staff, passed : SUBSET Rows]
      <4>1. CASE q = r
        BY <2>6, <3>1, <4>1 DEF AssignCommit, CallSet
      <4>2. CASE q # r
        BY <2>6, <4>2 DEF AssignCommit, NoRow, AtRest
      <4> QED
        BY <4>1, <4>2
    <3>6. assignment' \in [Rows -> {NoRow} \cup
                    [state : {"open", "closed"}, to : Staff, passed : SUBSET Rows]]
      BY <2>6, <3>5 DEF AssignCommit
    <3>7. \A q \in Rows : assignment[q] # NoRow => assignment'[q] # NoRow
      BY <2>6 DEF AssignCommit, NoRow
    <3>8. \A b \in Agents : desk'[b] # AtRest =>
             desk[b] # AtRest /\ desk'[b].closed = desk[b].closed
      BY <2>6 DEF AssignCommit
    <3> QED
      BY <3>3, <3>4, <3>6, <3>7, <3>8 DEF CallSet
  <2>7. ASSUME NEW a \in Agents, AssignFail(a) PROVE DeskSound'
    BY <2>7 DEF AssignFail
  <2>8. CASE UNCHANGED deskVars
    BY <2>8 DEF deskVars
  <2> HIDE DEF DeskSound
  <2> QED
    BY <2>1, <2>2, <2>3, <2>4, <2>5, <2>6, <2>7, <2>8 DEF DeskNext
<1> QED
  BY <1>1, <1>2, PTL DEF DeskSpec

(* No step leaves the tables or a request malformed.                         *)
THEOREM DeskTypeCorrect == DeskSpec => []DeskTypeOK
<1> QED
  BY DeskSoundAlways, PTL DEF DeskSound

-----------------------------------------------------------------------------
(* Whoever has the ticket has an open assignment: a commit closes others and *)
(* opens the one of the new assignee in the same transaction.                *)
THEOREM TicketAgrees == DeskSpec => []AssigneeOpen
<1>1. DeskInit => AssigneeOpen
  BY DEF DeskInit, AssigneeOpen
<1>2. DeskTypeOK /\ AssigneeOpen /\ [DeskNext]_deskVars => AssigneeOpen'
  <2> SUFFICES ASSUME DeskTypeOK, AssigneeOpen, [DeskNext]_deskVars PROVE AssigneeOpen'
    OBVIOUS
  <2> USE DEF DeskTypeOK, AssigneeOpen, OpenRows
  <2>1. CASE OpenTicket
    BY <2>1 DEF OpenTicket
  <2>2. ASSUME NEW s \in Staff, NEW unrestricted \in BOOLEAN, NEW status \in Statuses,
               Move(s, unrestricted, status)
        PROVE AssigneeOpen'
    BY <2>2 DEF Move, NoTicket
  <2>3. ASSUME NEW a \in Agents, NEW r \in Rows, AssignCommit(a, r) PROVE AssigneeOpen'
    <3>1. /\ assignment'[r].state = "open"
          /\ assignment'[r].to = desk[a].to
          /\ ticket'.assignee = desk[a].to
      BY <2>3 DEF AssignCommit
    <3> QED
      BY <3>1
  <2>4. CASE UNCHANGED <<ticket, assignment>>
    BY <2>4
  <2> HIDE DEF DeskTypeOK, AssigneeOpen
  <2> QED
    BY <2>1, <2>2, <2>3, <2>4
       DEF DeskNext, AssignBegin, AssignClose, AssignTicket, AssignFail, deskVars
<1> QED
  BY <1>1, <1>2, DeskTypeCorrect, PTL DEF DeskSpec

-----------------------------------------------------------------------------
(* An assignment knows of every open row: its snapshot saw it, or it was     *)
(* committed since.  Past its UPDATE, the rows it saw are its own to close,  *)
(* if they are still open.                                                   *)
Accounted(a) ==
    desk[a] # AtRest =>
        /\ \A r \in desk[a].seen : assignment[r] # NoRow
        /\ OpenRows \subseteq desk[a].seen \cup desk[a].passed
        /\ desk[a].at \in {"closed", "held"} =>
              desk[a].seen \cap OpenRows \subseteq desk[a].closed

HistoryInv == OneOpenUnlessOverlapped /\ \A a \in Agents : Accounted(a)

(* Two open assignments overlapped, however many requests there are: the     *)
(* snapshot of the UPDATE is the only way past an open row.                  *)
THEOREM OverlapOpens == DeskSpec => []OneOpenUnlessOverlapped
<1>1. DeskInit => HistoryInv
  BY DEF DeskInit, HistoryInv, Accounted, OneOpenUnlessOverlapped, OpenRows, NoRow
<1>2. DeskTypeOK /\ DeskTypeOK' /\ HistoryInv /\ [DeskNext]_deskVars => HistoryInv'
  <2> SUFFICES ASSUME DeskTypeOK, DeskTypeOK', HistoryInv, [DeskNext]_deskVars
               PROVE HistoryInv'
    OBVIOUS
  <2> USE DEF HistoryInv, Accounted, OneOpenUnlessOverlapped, OpenRows
  <2>1. CASE UNCHANGED <<assignment, desk>>
    BY <2>1
  <2>2. ASSUME NEW a \in Agents, NEW s \in Staff, AssignBegin(a, s) PROVE HistoryInv'
    BY <2>2 DEF AssignBegin, Assigning, DeskTypeOK, NoRow
  <2>3. ASSUME NEW a \in Agents, AssignClose(a) PROVE HistoryInv'
    <3>1. ClosedCall(a)
      BY <2>3, Closes
    <3>2. UNCHANGED assignment
      BY <2>3 DEF AssignClose
    <3>3. desk[a] # AtRest
      BY <2>3 DEF AssignClose, AtRest
    <3>4. ASSUME NEW b \in Agents, b # a PROVE desk'[b] = desk[b]
      BY <3>1, <3>4 DEF ClosedCall, DeskTypeOK
    <3>5. Accounted(a)'
      BY <3>1, <3>2, <3>3 DEF ClosedCall
    <3> QED
      BY <3>2, <3>4, <3>5
  <2>4. ASSUME NEW a \in Agents, AssignTicket(a) PROVE HistoryInv'
    BY <2>4 DEF AssignTicket, DeskTypeOK, AtRest
  <2>5. ASSUME NEW a \in Agents, NEW r \in Rows, AssignCommit(a, r) PROVE HistoryInv'
    <3>1. /\ assignment'[r].state = "open"
          /\ assignment'[r].passed = desk[a].passed
          /\ desk[a] # AtRest
          /\ desk[a].at = "held"
      BY <2>5 DEF AssignCommit, AtRest
    <3>2. \A q \in Rows : q # r /\ assignment'[q].state = "open" =>
             /\ assignment[q].state = "open"
             /\ q \notin desk[a].closed
             /\ assignment'[q] = assignment[q]
      BY <2>5 DEF AssignCommit, DeskTypeOK, NoRow
    <3>3. \A q \in Rows : q # r /\ assignment'[q].state = "open" => q \in desk[a].passed
      BY <3>1, <3>2
    <3>4. OneOpenUnlessOverlapped'
      BY <3>1, <3>2, <3>3
    <3>5. ASSUME NEW b \in Agents, desk'[b] # AtRest PROVE Accounted(b)'
      <4>1. /\ desk[b] # AtRest
            /\ desk'[b].seen = desk[b].seen
            /\ desk'[b].closed = desk[b].closed
            /\ desk'[b].at = desk[b].at
            /\ desk'[b].passed = desk[b].passed \cup {r}
        BY <2>5, <3>5 DEF AssignCommit, DeskTypeOK
      <4>2. r \notin desk[b].seen
        BY <2>5, <4>1 DEF AssignCommit
      <4>3. \A q \in desk[b].seen : q \in Rows /\ assignment'[q] # NoRow
        <5>1. \A q \in desk[b].seen : q \in Rows /\ assignment[q] # NoRow
          BY <4>1 DEF DeskTypeOK
        <5>2. \A q \in Rows : assignment[q] # NoRow => assignment'[q] # NoRow
          BY <2>5 DEF AssignCommit, DeskTypeOK, NoRow
        <5> QED
          BY <5>1, <5>2
      <4> QED
        BY <3>2, <4>1, <4>2, <4>3
    <3> QED
      BY <3>4, <3>5
  <2>6. ASSUME NEW a \in Agents, AssignFail(a) PROVE HistoryInv'
    BY <2>6 DEF AssignFail, DeskTypeOK
  <2> HIDE DEF HistoryInv
  <2> QED
    BY <2>1, <2>2, <2>3, <2>4, <2>5, <2>6 DEF DeskNext, OpenTicket, Move, deskVars
<1>3. HistoryInv => OneOpenUnlessOverlapped
  BY DEF HistoryInv
<1> QED
  BY <1>1, <1>2, <1>3, DeskTypeCorrect, PTL DEF DeskSpec
=============================================================================
