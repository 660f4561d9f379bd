-------------------------- MODULE ReconcileRotation --------------------------
(***************************************************************************)
(* Whose turn it is: the order in which Service.Reconcile of               *)
(* internal/billing inspects the invoices, run by internal/scheduler.      *)
(*                                                                         *)
(* Billing leaves open which invoices a batch takes when there are more    *)
(* than its limit.  Here a batch takes those whose provider_synced_at is   *)
(* the oldest, invoices without one before all others.  Whoever applies a  *)
(* status sets that column: a delivery that leaves the invoice open sends  *)
(* it to the end of the queue without the provider having been asked.      *)
(*                                                                         *)
(* Charges, events and settlements are Billing's subject.  Here the        *)
(* provider may report anything at any time: every status it can ask for   *)
(* is delivered, or answered to an inspection.                             *)
(***************************************************************************)
EXTENDS Naturals, Sequences, FiniteSets, SequencesExt, InvoiceStatus

CONSTANTS
    Invoices,
    Limit,   \* rows one run inspects
    Poisoned \* invoices whose inspection can never be committed

\* A run has room for one invoice that can be written.
ASSUME RotationAssumption ==
    /\ Poisoned \subseteq Invoices
    /\ IsFiniteSet(Invoices)
    /\ Limit \in Nat
    /\ Cardinality(Poisoned) < Limit

VARIABLES
    status,  \* [Invoices -> status of the row, or NoRow]
    queue,   \* the rows in the order of provider_synced_at, created_at
    fresh,   \* those whose provider_synced_at is null: the front of the queue
    batch,   \* what is left of the batch of the run, with the statuses it read
    answered \* the provider has answered about the head of the batch

vars == <<status, queue, fresh, batch, answered>>

Init ==
    /\ status = [i \in Invoices |-> NoRow]
    /\ queue = <<>>
    /\ fresh = {}
    /\ batch = <<>>
    /\ answered = FALSE

\* Those a batch may take.
IsOpen(i) == status[i] \in {"issued", "overdue", "paid"}

\* ORDER BY provider_synced_at NULLS FIRST, created_at LIMIT
NextBatch ==
    LET rows == SelectSeq(queue, IsOpen)
    IN [k \in 1..(IF Len(rows) <= Limit THEN Len(rows) ELSE Limit) |->
           [invoice |-> rows[k], status |-> status[rows[k]]]]

\* UPDATE invoices SET provider_synced_at=now()
Synced(i) ==
    /\ queue' = Append(Remove(queue, i), i)
    /\ fresh' = fresh \ {i}

\* The head of the batch is about the invoice; it is done.
Turn(i) == batch # <<>> /\ Head(batch).invoice = i

Skip ==
    /\ batch' = Tail(batch)
    /\ answered' = FALSE

\* Create: the row has no provider_synced_at; it is the latest of those.
Issue(i) ==
    /\ status[i] = NoRow
    /\ status' = [status EXCEPT ![i] = "issued"]
    /\ queue' = InsertAt(queue, Cardinality(fresh) + 1, i)
    /\ fresh' = fresh \cup {i}
    /\ UNCHANGED <<batch, answered>>

\* Mutant: a delivery is applied whether it changes the status or not.
DeliverUnchanged(i, desired) ==
    /\ status[i] # NoRow
    /\ LET next == paymentStatus(status[i], ReconcileType, desired)
       IN status' = [status EXCEPT ![i] = next]
    /\ Synced(i)
    /\ UNCHANGED <<batch, answered>>

\* A delivery commits.  One whose status is accepted moves the invoice to the
\* end of the queue, whether it leaves it open or not; any other changes nothing.
Deliver(i, desired) ==
    /\ status[i] # NoRow
    /\ Accepts(status[i], desired)
    /\ status' = [status EXCEPT ![i] = desired]
    /\ Synced(i)
    /\ UNCHANGED <<batch, answered>>

\* The scheduler runs the job, at its start and at every tick; the batch is read.
RunBegin ==
    /\ batch = <<>>
    /\ batch' = NextBatch
    /\ UNCHANGED <<status, queue, fresh, answered>>

\* GetInvoice answers; what it says is told by Write.
Ask(i) ==
    /\ Turn(i)
    /\ ~answered
    /\ answered' = TRUE
    /\ UNCHANGED <<status, queue, fresh, batch>>

\* Mutant: an invoice the provider does not answer about keeps its place.
AskFailsInPlace(i) ==
    /\ Turn(i)
    /\ ~answered
    /\ Skip
    /\ UNCHANGED <<status, queue, fresh>>

\* GetInvoice fails: the row goes to the end all the same, unless the database
\* fails too, whose error is ignored.
AskFails(i) ==
    /\ Turn(i)
    /\ ~answered
    /\ Synced(i)
    /\ Skip
    /\ UNCHANGED status

AskFailsUnwritten(i) ==
    /\ Turn(i)
    /\ ~answered
    /\ Skip
    /\ UNCHANGED <<status, queue, fresh>>

\* The transaction of the item commits, with its provider_synced_at.  What it
\* applies follows from the status of the batch, which may be stale: it can
\* bring a cancelled invoice back into the rotation.
Write(i, remote) ==
    /\ Turn(i)
    /\ answered
    /\ i \notin Poisoned
    /\ LET current == Head(batch).status
           next == paymentStatus(current, ReconcileType, remote)
       IN status' = IF next = current THEN status ELSE [status EXCEPT ![i] = next]
    /\ Synced(i)
    /\ Skip

\* BEGIN, a statement or COMMIT fails: the row keeps its place.
WriteFails ==
    /\ batch # <<>>
    /\ answered
    /\ Skip
    /\ UNCHANGED <<status, queue, fresh>>

\* The process stops, or the context of the run ends.
RunAbort ==
    /\ batch # <<>>
    /\ batch' = <<>>
    /\ answered' = FALSE
    /\ UNCHANGED <<status, queue, fresh>>

Next ==
    \/ \E i \in Invoices :
          \/ Issue(i) \/ Ask(i) \/ AskFails(i) \/ AskFailsUnwritten(i)
          \/ \E desired \in MappedStatuses : Deliver(i, desired)
          \/ \E remote \in MappedStatuses : Write(i, remote)
    \/ RunBegin
    \/ WriteFails
    \/ RunAbort

Spec == Init /\ [][Next]_vars

WriteAny(i) == \E remote \in MappedStatuses : Write(i, remote)

\* The scheduler keeps ticking, a run goes on to its next item, and no outage
\* lasts: what is tried again and again is not interrupted, unanswered or rolled
\* back every time.  Whether the provider answers about an invoice or refuses to
\* is open, and so is what it answers.
Fairness ==
    /\ WF_vars(RunBegin)
    /\ SF_vars(WriteFails \/ \E i \in Invoices : WriteAny(i))
    /\ \A i \in Invoices :
          /\ SF_vars(Ask(i) \/ AskFails(i))
          /\ SF_vars(WriteAny(i))

FairSpec == Spec /\ Fairness

\* The provider is asked about the invoice.
Inspected(i) == Ask(i) \/ AskFails(i) \/ AskFailsUnwritten(i)

\* README.md: a bounded scheduler reconciles provider state.  However many invoices
\* there are above the limit, the provider is asked about each one again and again
\* as long as it is open.  Neither one the provider always refuses to answer about
\* nor (as long as they are fewer than the limit) those that can never be written
\* keep the others from their turn, nor do the deliveries that send an invoice to
\* the end of the queue before it was asked about.
TurnComes ==
    \A i \in Invoices : []<>~IsOpen(i) \/ []<><<Inspected(i)>>_vars
=============================================================================
