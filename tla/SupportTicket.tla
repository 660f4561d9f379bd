---------------------------- MODULE SupportTicket ----------------------------
(***************************************************************************)
(* One support ticket and the history of its assignments:                  *)
(* internal/support/service.go and the transition of internal/records, on  *)
(* PostgreSQL at READ COMMITTED.                                           *)
(*                                                                         *)
(* The assignment of a ticket closes the open rows of its history with one *)
(* UPDATE.  That statement works on the rows its snapshot sees: it waits   *)
(* for those another transaction has locked and looks again whether they   *)
(* are still open, but it never sees a row committed after it began.       *)
(*                                                                         *)
(* Messages and attachments are left out: nothing here depends on them.    *)
(***************************************************************************)
EXTENDS Naturals, FiniteSets

CONSTANTS
    Staff,  \* users a ticket can be assigned to
    Agents, \* requests that may overlap
    Rows    \* rows of support_assignments, never used twice

ASSUME DeskAssumption == IsFiniteSet(Rows)

VARIABLES
    ticket,     \* NoTicket or its row
    assignment, \* [Rows -> NoRow or the committed row]
    desk        \* [Agents -> where the request is and what it has read]

deskVars == <<ticket, assignment, desk>>

NoTicket == [status |-> "none"]
NoRow == [state |-> "unused"]
AtRest == [at |-> "rest"]
Nobody == "nobody"

Statuses == {"open", "assigned", "in_progress", "waiting_user", "resolved", "closed"}

\* "seen" are the open rows of the snapshot, "closed" those the transaction has
\* locked and closed, "passed" (history) those committed since the snapshot.
Assigning(at, s, seen) ==
    [at |-> at, to |-> s, seen |-> seen, closed |-> {}, passed |-> {}]

DeskInit ==
    /\ ticket = NoTicket
    /\ assignment = [r \in Rows |-> NoRow]
    /\ desk = [a \in Agents |-> AtRest]

OpenRows == {r \in Rows : assignment[r].state = "open"}
RowHeld(r) == \E a \in Agents : desk[a].at \in {"closed", "held"} /\ r \in desk[a].closed
TicketHeld == \E a \in Agents : desk[a].at = "held"

\* records.Service.Create
OpenTicket ==
    /\ ticket = NoTicket
    /\ ticket' = [status |-> "open", assignee |-> Nobody]
    /\ UNCHANGED <<assignment, desk>>

\* records.Service.Transition: a requester who is not unrestricted must be the
\* assignee, and is found again after waiting for the row.
Move(s, unrestricted, status) ==
    /\ ticket # NoTicket
    /\ ~TicketHeld
    /\ unrestricted \/ ticket.assignee = s
    /\ ticket' = [ticket EXCEPT !.status = status]
    /\ UNCHANGED <<assignment, desk>>

-----------------------------------------------------------------------------
(* Service.Assign *)

\* The ticket exists and the assignee is active (one who is not is refused
\* without a trace); then the snapshot of the UPDATE that closes.
AssignBegin(a, s) ==
    /\ desk[a] = AtRest
    /\ ticket # NoTicket
    /\ desk' = [desk EXCEPT ![a] = Assigning("closing", s, OpenRows)]
    /\ UNCHANGED <<ticket, assignment>>

\* Mutant: only one row is closed.
AssignCloseOne(a) ==
    /\ desk[a].at = "closing"
    /\ \A r \in desk[a].seen : ~RowHeld(r)
    /\ \E r \in Rows :
          desk' = [desk EXCEPT ![a].at = "closed",
                               ![a].closed = desk[a].seen \cap OpenRows \cap {r}]
    /\ UNCHANGED <<ticket, assignment>>

\* The UPDATE once no seen row is locked: those that are still open.
AssignClose(a) ==
    /\ desk[a].at = "closing"
    /\ \A r \in desk[a].seen : ~RowHeld(r)
    /\ desk' = [desk EXCEPT ![a].at = "closed", ![a].closed = desk[a].seen \cap OpenRows]
    /\ UNCHANGED <<ticket, assignment>>

\* The new row, then the UPDATE of the ticket, which waits for its row.
AssignTicket(a) ==
    /\ desk[a].at = "closed"
    /\ ~TicketHeld
    /\ desk' = [desk EXCEPT ![a].at = "held"]
    /\ UNCHANGED <<ticket, assignment>>

\* Mutant: the row is inserted before the UPDATE that closes.
AssignCommitClosed(a, r) ==
    /\ desk[a].at = "held"
    /\ assignment[r] = NoRow
    /\ LET call == desk[a]
       IN /\ assignment' = [q \in Rows |->
                IF q = r
                THEN [state |-> "closed", to |-> call.to, passed |-> call.passed]
                ELSE IF q \in call.closed THEN [assignment[q] EXCEPT !.state = "closed"]
                ELSE assignment[q]]
          /\ ticket' = [status |-> "assigned", assignee |-> call.to]
    /\ desk' = [b \in Agents |->
          IF b = a \/ desk[b] = AtRest THEN AtRest
          ELSE [desk[b] EXCEPT !.passed = @ \cup {r}]]

\* COMMIT: everybody sees the closed rows, the new one and the ticket.
AssignCommit(a, r) ==
    /\ desk[a].at = "held"
    /\ assignment[r] = NoRow
    /\ LET call == desk[a]
       IN /\ assignment' = [q \in Rows |->
                IF q = r
                THEN [state |-> "open", to |-> call.to, passed |-> call.passed]
                ELSE IF q \in call.closed THEN [assignment[q] EXCEPT !.state = "closed"]
                ELSE assignment[q]]
          /\ ticket' = [status |-> "assigned", assignee |-> call.to]
    /\ desk' = [b \in Agents |->
          IF b = a \/ desk[b] = AtRest THEN AtRest
          ELSE [desk[b] EXCEPT !.passed = @ \cup {r}]]

\* Any error: the transaction rolls back.
AssignFail(a) ==
    /\ desk[a] # AtRest
    /\ desk' = [desk EXCEPT ![a] = AtRest]
    /\ UNCHANGED <<ticket, assignment>>

-----------------------------------------------------------------------------
DeskNext ==
    \/ OpenTicket
    \/ \E s \in Staff, unrestricted \in BOOLEAN, status \in Statuses :
          Move(s, unrestricted, status)
    \/ \E a \in Agents :
          \/ \E s \in Staff : AssignBegin(a, s)
          \/ AssignClose(a)
          \/ AssignTicket(a)
          \/ \E r \in Rows : AssignCommit(a, r)
          \/ AssignFail(a)

DeskSpec == DeskInit /\ [][DeskNext]_deskVars

-----------------------------------------------------------------------------
DeskTypeOK ==
    /\ ticket \in {NoTicket} \cup [status : Statuses, assignee : Staff \cup {Nobody}]
    /\ assignment \in [Rows ->
          {NoRow} \cup [state : {"open", "closed"}, to : Staff, passed : SUBSET Rows]]
    /\ desk \in [Agents -> {AtRest} \cup
          [at : {"closing", "closed", "held"}, to : Staff, seen : SUBSET Rows,
           closed : SUBSET Rows, passed : SUBSET Rows]]

\* The ticket and its history agree whatever the assignments overlap: who has
\* the ticket has an assignment that was not closed.
AssigneeOpen ==
    ticket # NoTicket /\ ticket.assignee # Nobody =>
        \E r \in OpenRows : assignment[r].to = ticket.assignee

\* Two assignments are open at once only if one of them committed while the
\* other was between its snapshot and its own commit; and an assignment that
\* meets no other one closes all of them, also those left by such a race.
OneOpenUnlessOverlapped ==
    \A r, q \in OpenRows :
        r # q => r \in assignment[q].passed \/ q \in assignment[r].passed
=============================================================================
