------------------------------ MODULE Billing ------------------------------
(***************************************************************************)
(* Invoices with the Asaas provider enabled (internal/billing/service.go,  *)
(* webhook.go).  Three kinds of activity write an invoice:                 *)
(*                                                                         *)
(*   Create             charges the customer at the provider, and only     *)
(*                      then inserts the invoice row;                      *)
(*   ProcessAsaasWebhook one transaction per delivery: it takes the key of *)
(*                      the event, locks the invoice row, applies the      *)
(*                      event and commits;                                 *)
(*   Reconcile          reads a batch of invoices, then for each of them   *)
(*                      asks the provider for the charge and writes what   *)
(*                      it answers, from the status read with the batch.   *)
(*                                                                         *)
(* The database runs at READ COMMITTED: a statement that meets a row lock  *)
(* or an uncommitted unique key of another transaction waits for it.       *)
(* Waiting is the action not being enabled.                                *)
(*                                                                         *)
(* The provider is external.  It keeps the status of each charge, emits an *)
(* event for every change, and delivers events at least once if ever: any  *)
(* emitted event may be delivered at any later time, in any order, again   *)
(* after it was acknowledged, or never.                                    *)
(***************************************************************************)
EXTENDS InvoiceStatus, Integers, FiniteSets

CONSTANTS
    Invoices,       \* calls of Create; a charge carries its invoice's id
    Handlers,       \* requests to the webhook endpoint served at a time
    Reconcilers,    \* replicas running the reconciliation job
    Limit,          \* rows one reconciliation run inspects
    RemoteStatuses, \* statuses of a charge at the provider
    ProviderMoves,  \* [from, to, type]: changes the provider may make
    MaxMoves,       \* bound: changes of one charge
    NoEvent,        \* a handler serving nothing
    NoItem          \* a reconciler between two items

\* A new BOLETO charge is pending.
NewCharge == "PENDING"
NoCharge  == "NO_CHARGE"

EventTypes == {"PAYMENT_CREATED"} \cup {m.type : m \in ProviderMoves}

\* n is the version of the charge the event announces: with the payment it
\* makes the event id, which the provider never uses twice.
Event == [payment : Invoices, n : Nat, type : EventTypes, status : RemoteStatuses]

RowStatuses == Statuses \cup {NoRow}

\* A row of the batch with the status it had when the batch was read.
BatchRow == [invoice : Invoices, seen : Statuses]

\* A batch row with the invoice status the provider answered.
Item == [invoice : Invoices, seen : Statuses, remote : MappedStatuses]

ASSUME ConstantsAssumption ==
    /\ Limit \in Nat \ {0}
    /\ MaxMoves \in Nat
    /\ NewCharge \in RemoteStatuses
    /\ NoCharge \notin RemoteStatuses
    /\ RemoteStatuses \cap MappedStatuses = {}
    /\ ProviderMoves \subseteq
         [from : RemoteStatuses, to : RemoteStatuses, type : STRING]
    /\ NoEvent \notin Event
    /\ NoItem \notin Item

VARIABLES
    remote,   \* [Invoices -> status of the charge at the provider]
    version,  \* [Invoices -> changes the charge went through]
    sent,     \* events the provider emitted
    acked,    \* events answered with 200
    create,   \* [Invoices -> where the call of Create is]
    status,   \* [Invoices -> invoices.status, or NoRow]
    payments, \* invoices with a row in payments (unique per charge)
    events,   \* committed rows of asaas_webhook_events
    hook,     \* [Handlers -> the webhook transaction]
    batch,    \* [Reconcilers -> batch rows not yet inspected]
    item      \* [Reconcilers -> the row being reconciled, or NoItem]

provider == <<remote, version, sent>>
rows     == <<status, payments>>
recon    == <<batch, item>>
vars     == <<provider, acked, create, rows, events, hook, recon>>

Idle   == [phase |-> "idle", event |-> NoEvent, seen |-> NoRow]
Keyed(e) == [phase |-> "keyed", event |-> e, seen |-> NoRow]
Locked(e, current) == [phase |-> "locked", event |-> e, seen |-> current]

Init ==
    /\ remote   = [i \in Invoices |-> NoCharge]
    /\ version  = [i \in Invoices |-> 0]
    /\ sent     = {}
    /\ acked    = {}
    /\ create   = [i \in Invoices |-> "new"]
    /\ status   = [i \in Invoices |-> NoRow]
    /\ payments = {}
    /\ events   = {}
    /\ hook     = [h \in Handlers |-> Idle]
    /\ batch    = [r \in Reconcilers |-> {}]
    /\ item     = [r \in Reconcilers |-> NoItem]

-----------------------------------------------------------------------------
(* The provider (external). *)

EventOf(i, n, type, to) ==
    [payment |-> i, n |-> n, type |-> type, status |-> to]

\* Payment, due date, refund, deletion ...: the charge changes, the event of
\* the change is emitted.
ProviderMove(i) ==
    \E m \in ProviderMoves :
        /\ remote[i] = m.from
        /\ version[i] < MaxMoves
        /\ remote' = [remote EXCEPT ![i] = m.to]
        /\ version' = [version EXCEPT ![i] = @ + 1]
        /\ sent' = sent \cup {EventOf(i, version[i] + 1, m.type, m.to)}
        /\ UNCHANGED <<acked, create, rows, events, hook, recon>>

-----------------------------------------------------------------------------
(* Service.Create *)

\* provider.CreateInvoice succeeds: the charge exists, the row does not.
CreateCharge(i) ==
    /\ create[i] = "new"
    /\ create' = [create EXCEPT ![i] = "charged"]
    /\ remote' = [remote EXCEPT ![i] = NewCharge]
    /\ sent' = sent \cup {EventOf(i, 0, "PAYMENT_CREATED", NewCharge)}
    /\ UNCHANGED <<version, acked, rows, events, hook, recon>>

\* The transaction that inserts the invoice with the status of the answer.
CreateCommit(i) ==
    /\ create[i] = "charged"
    /\ create' = [create EXCEPT ![i] = "done"]
    /\ status' = [status EXCEPT ![i] = mapAsaasStatus(NewCharge)]
    /\ UNCHANGED <<provider, acked, payments, events, hook, recon>>

\* A refusal, an error or a crash, before or after the charge was made.
\* Nothing undoes the charge.
CreateFail(i) ==
    /\ create[i] \in {"new", "charged"}
    /\ create' = [create EXCEPT ![i] = "failed"]
    /\ UNCHANGED <<provider, acked, rows, events, hook, recon>>

-----------------------------------------------------------------------------
(* applyInvoiceStatus: current is what the caller believes the status is. *)

\* Mutant: only an issued invoice gets its settlement.
applyInvoiceStatusIssuedOnly(i, current, next) ==
    /\ status' = [status EXCEPT ![i] = next]
    /\ payments' = IF next = "paid" /\ current = "issued" THEN payments \cup {i}
                   ELSE payments

\* Mutant: any new status gets a settlement.
applyInvoiceStatusAlwaysPays(i, current, next) ==
    /\ status' = [status EXCEPT ![i] = next]
    /\ payments' = IF current # "paid" THEN payments \cup {i} ELSE payments

\* Mutant: a refund deletes the settlement.
applyInvoiceStatusForgets(i, current, next) ==
    /\ status' = [status EXCEPT ![i] = next]
    /\ payments' = IF next = "paid" /\ current # "paid" THEN payments \cup {i}
                   ELSE IF next = "cancelled" THEN payments \ {i} ELSE payments

applyInvoiceStatus(i, current, next) ==
    /\ status' = [status EXCEPT ![i] = next]
    /\ payments' = IF next = "paid" /\ current # "paid" THEN payments \cup {i}
                   ELSE payments

(* Service.ProcessAsaasWebhook *)

InFlight(e) == \E h \in Handlers : hook[h].event = e

\* Mutant: the SELECT lost its FOR UPDATE.
RowNeverLocked(i) == i \notin Invoices

RowLocked(i) == \E h \in Handlers : /\ hook[h].phase = "locked"
                                    /\ hook[h].event.payment = i

\* Mutant: the event id is looked up instead of inserted.
WebhookInsertUnguarded(h, e) ==
    /\ hook[h] = Idle
    /\ e \notin events
    /\ hook' = [hook EXCEPT ![h] = Keyed(e)]
    /\ UNCHANGED <<provider, acked, create, rows, events, recon>>

\* A delivery of e: INSERT ... ON CONFLICT DO NOTHING inserts the event id.
WebhookInsert(h, e) ==
    /\ hook[h] = Idle
    /\ e \notin events
    /\ ~InFlight(e)
    /\ hook' = [hook EXCEPT ![h] = Keyed(e)]
    /\ UNCHANGED <<provider, acked, create, rows, events, recon>>

\* A delivery of e whose event id is there already: commit, 200.
WebhookDuplicate(h, e) ==
    /\ hook[h] = Idle
    /\ e \in events
    /\ acked' = acked \cup {e}
    /\ UNCHANGED <<provider, create, rows, events, hook, recon>>

\* SELECT ... FOR UPDATE returns the row and locks it.
WebhookLock(h) ==
    LET e == hook[h].event IN
    /\ hook[h].phase = "keyed"
    /\ status[e.payment] # NoRow
    /\ ~RowLocked(e.payment)
    /\ hook' = [hook EXCEPT ![h] = Locked(e, status[e.payment])]
    /\ UNCHANGED <<provider, acked, create, rows, events, recon>>

\* Mutant: an unknown invoice is answered with 200.
WebhookNotFoundOk(h) ==
    /\ hook[h].phase = "keyed"
    /\ status[hook[h].event.payment] = NoRow
    /\ acked' = acked \cup {hook[h].event}
    /\ hook' = [hook EXCEPT ![h] = Idle]
    /\ UNCHANGED <<provider, create, rows, events, recon>>

\* SELECT ... FOR UPDATE returns no row: rollback, 503.
WebhookNotFound(h) ==
    /\ hook[h].phase = "keyed"
    /\ status[hook[h].event.payment] = NoRow
    /\ hook' = [hook EXCEPT ![h] = Idle]
    /\ UNCHANGED <<provider, acked, create, rows, events, recon>>

\* The event is applied and the transaction commits; the 200 may be lost.
WebhookCommit(h) ==
    LET e    == hook[h].event
        seen == hook[h].seen
        next == paymentStatus(seen, e.type, e.status)
    IN
    /\ hook[h].phase = "locked"
    /\ IF next # seen THEN applyInvoiceStatus(e.payment, seen, next)
       ELSE UNCHANGED rows
    /\ events' = events \cup {e}
    /\ acked' \in {acked, acked \cup {e}}
    /\ hook' = [hook EXCEPT ![h] = Idle]
    /\ UNCHANGED <<provider, create, recon>>

\* A statement or the commit fails, or the process dies: rollback, no 200.
WebhookAbort(h) ==
    /\ hook[h].phase \in {"keyed", "locked"}
    /\ hook' = [hook EXCEPT ![h] = Idle]
    /\ UNCHANGED <<provider, acked, create, rows, events, recon>>

-----------------------------------------------------------------------------
(* Service.Reconcile *)

\* Mutant: overdue invoices are not reconciled.
CandidatesNotOverdue == {i \in Invoices : status[i] \in {"issued", "paid"}}

Candidates == {i \in Invoices : status[i] \in {"issued", "overdue", "paid"}}

\* The query of the run: at most Limit candidates.  Which of them is decided
\* by provider_synced_at; any choice is allowed here.
ReconcileQuery(r) ==
    \E chosen \in SUBSET Candidates :
        /\ batch[r] = {} /\ item[r] = NoItem
        /\ \/ chosen = Candidates /\ Cardinality(chosen) <= Limit
           \/ Cardinality(chosen) = Limit
        /\ batch' = [batch EXCEPT ![r] =
                        {[invoice |-> i, seen |-> status[i]] : i \in chosen}]
        /\ UNCHANGED <<provider, acked, create, rows, events, hook, item>>

\* provider.GetInvoice answers.
ReconcileFetch(r) ==
    \E b \in batch[r] :
        /\ item[r] = NoItem
        /\ batch' = [batch EXCEPT ![r] = @ \ {b}]
        /\ item' = [item EXCEPT ![r] =
                       [invoice |-> b.invoice, seen |-> b.seen,
                        remote |-> mapAsaasStatus(remote[b.invoice])]]
        /\ UNCHANGED <<provider, acked, create, rows, events, hook>>

\* provider.GetInvoice fails: the row is passed over.
ReconcileFetchFails(r) ==
    \E b \in batch[r] :
        /\ item[r] = NoItem
        /\ batch' = [batch EXCEPT ![r] = @ \ {b}]
        /\ UNCHANGED <<provider, acked, create, rows, events, hook, item>>

\* Mutant: the answer is written without the transition rules.
ReconcileApplyVerbatim(r) ==
    /\ item[r] # NoItem
    /\ ~RowLocked(item[r].invoice)
    /\ applyInvoiceStatus(item[r].invoice, item[r].seen, item[r].remote)
    /\ item' = [item EXCEPT ![r] = NoItem]
    /\ UNCHANGED <<provider, acked, create, events, hook, batch>>

\* The transaction of one item.  Both of its UPDATEs name the row by id
\* only, and wait for its lock.
ReconcileApply(r) ==
    LET next == paymentStatus(item[r].seen, ReconcileType, item[r].remote) IN
    /\ item[r] # NoItem
    /\ ~RowLocked(item[r].invoice)
    /\ IF next # item[r].seen
       THEN applyInvoiceStatus(item[r].invoice, item[r].seen, next)
       ELSE UNCHANGED rows
    /\ item' = [item EXCEPT ![r] = NoItem]
    /\ UNCHANGED <<provider, acked, create, events, hook, batch>>

\* The transaction of one item fails and is rolled back.
ReconcileTxFails(r) ==
    /\ item[r] # NoItem
    /\ item' = [item EXCEPT ![r] = NoItem]
    /\ UNCHANGED <<provider, acked, create, rows, events, hook, batch>>

\* The replica stops in the middle of a run.
ReconcileCrash(r) ==
    /\ batch[r] # {} \/ item[r] # NoItem
    /\ batch' = [batch EXCEPT ![r] = {}]
    /\ item' = [item EXCEPT ![r] = NoItem]
    /\ UNCHANGED <<provider, acked, create, rows, events, hook>>

-----------------------------------------------------------------------------
Create(i) == CreateCharge(i) \/ CreateCommit(i) \/ CreateFail(i)

Webhook(h) == \/ \E e \in sent : WebhookInsert(h, e) \/ WebhookDuplicate(h, e)
              \/ WebhookLock(h) \/ WebhookNotFound(h)
              \/ WebhookCommit(h) \/ WebhookAbort(h)

Reconcile(r) == \/ ReconcileQuery(r) \/ ReconcileFetch(r)
                \/ ReconcileFetchFails(r) \/ ReconcileApply(r)
                \/ ReconcileTxFails(r) \/ ReconcileCrash(r)

Next == \/ \E i \in Invoices : ProviderMove(i) \/ Create(i)
        \/ \E h \in Handlers : Webhook(h)
        \/ \E r \in Reconcilers : Reconcile(r)

Spec == Init /\ [][Next]_vars

-----------------------------------------------------------------------------
(* Invariants *)

TypeOK ==
    /\ remote \in [Invoices -> RemoteStatuses \cup {NoCharge}]
    /\ version \in [Invoices -> 0..MaxMoves]
    /\ sent \subseteq Event
    /\ acked \subseteq sent
    /\ create \in [Invoices -> {"new", "charged", "done", "failed"}]
    /\ status \in [Invoices -> RowStatuses]
    /\ payments \subseteq Invoices
    /\ events \subseteq sent
    /\ hook \in [Handlers -> {Idle} \cup {Keyed(e) : e \in sent}
                          \cup {Locked(e, s) : e \in sent, s \in Statuses}]
    /\ batch \in [Reconcilers -> SUBSET BatchRow]
    /\ item \in [Reconcilers -> Item \cup {NoItem}]

\* No invoice is shown paid without its settlement row, whoever wrote the
\* status and however stale the status it started from
\* (applyInvoiceStatus skips the insert when current is "paid").
PaidHasPayment == \A i \in Invoices : status[i] = "paid" => i \in payments

\* The statuses an event can justify: the one the event asks for, and the
\* one a reconciliation sees once the charge has the status it announces.
Claims(e) == {Desired(e.type, e.status), mapAsaasStatus(e.status)}

Reported(i, s) == \E e \in sent : e.payment = i /\ s \in Claims(e)

\* No status and no settlement is invented: whatever the order, delay and
\* duplication of events and however long ago a reconciliation asked, the
\* provider once reported the status the row carries, and every settlement.
NothingInvented ==
    \A i \in Invoices : /\ status[i] # NoRow => Reported(i, status[i])
                        /\ i \in payments => Reported(i, "paid")

\* A webhook transaction decides on the status the row really has: nobody
\* writes the row between its SELECT ... FOR UPDATE and its commit.
LockedStatusCurrent ==
    \A h \in Handlers : hook[h].phase = "locked" =>
                           hook[h].seen = status[hook[h].event.payment]

\* An event is applied at most once: it is never in the hands of two
\* deliveries, nor of one delivery after its commit (event_id is unique).
AppliedOnce ==
    \A h \in Handlers : hook[h] # Idle =>
        /\ hook[h].event \notin events
        /\ \A g \in Handlers \ {h} : hook[g].event # hook[h].event

\* An event answered with 200 is committed, and its invoice exists: an event
\* that outruns the insertion of its invoice is not swallowed.
AckedIsCommitted ==
    /\ acked \subseteq events
    /\ \A e \in events : status[e.payment] # NoRow

\* A committed event is never undone: the invoice is, whatever the order the
\* events came in, at least as far along as each of them says.  This is the
\* promise of docs/billing.md for delayed events; it needs Reconcilers = {}.
EventsNotUndone ==
    \A e \in events : Rank(status[e.payment]) >= Rank(Desired(e.type, e.status))

-----------------------------------------------------------------------------
(* What makes the invariants inductive. *)

\* Only the end of Create inserts a row, and no row is a draft.
RowsFromCreate ==
    \A i \in Invoices : /\ status[i] # NoRow <=> create[i] = "done"
                        /\ status[i] # "draft"

\* Reconciliations work on rows that exist: rows are never deleted.
WorkOnRows ==
    \A r \in Reconcilers :
        /\ \A b \in batch[r] : create[b.invoice] = "done"
        /\ item[r] # NoItem => create[item[r].invoice] = "done"

\* At most one delivery holds the lock of a row.
RowLockExclusive ==
    \A g, h \in Handlers :
        (/\ hook[g].phase = "locked" /\ hook[h].phase = "locked"
         /\ hook[g].event.payment = hook[h].event.payment) => g = h

\* The inductive invariant behind LockedStatusCurrent.
RowInv == RowsFromCreate /\ WorkOnRows /\ LockedStatusCurrent /\ RowLockExclusive

\* The provider announced the status of every charge, and the first one.
ChargesReported ==
    \A i \in Invoices :
        /\ remote[i] # NoCharge =>
              \E e \in sent : e.payment = i /\ e.status = remote[i]
        /\ create[i] \in {"charged", "done"} =>
              remote[i] # NoCharge /\ Reported(i, mapAsaasStatus(NewCharge))

\* The answer a reconciliation holds is one the provider could give.
AnswersReported ==
    \A r \in Reconcilers :
        item[r] # NoItem => Reported(item[r].invoice, item[r].remote)

\* With RowInv, the inductive invariant behind NothingInvented.
ProvenanceInv == ChargesReported /\ AnswersReported /\ NothingInvented

-----------------------------------------------------------------------------
(* Action properties *)

NoRegression(i) == Rank(status'[i]) >= Rank(status[i])

\* No step of a webhook delivery moves an invoice backwards, even while
\* reconciliations run.
WebhooksNeverRegress ==
    [][hook' # hook => \A i \in Invoices : NoRegression(i)]_vars

\* A reconciliation moves an invoice backwards only when the status it read
\* with the batch is no longer the status of the row.
RegressionNeedsStaleRead ==
    [][\A r \in Reconcilers :
          (/\ item[r] # NoItem
           /\ item'[r] = NoItem
           /\ item[r].seen = status[item[r].invoice])
          => \A i \in Invoices : NoRegression(i)]_vars

\* docs/billing.md: "Paid and cancelled states cannot be regressed by delayed
\* events", and reconciliation "applies the same monotonic transition rules".
TerminalStatesStay ==
    [][\A i \in Invoices : status[i] \in {"paid", "cancelled"} =>
                             NoRegression(i)]_vars

Lifecycle == INSTANCE InvoiceLifecycle

\* Without reconciliation, concurrent and repeated deliveries implement the
\* promised life of an invoice.
ImplementsLifecycle == Lifecycle!Spec

\* With reconciliation, rows and settlements are still never lost.
ImplementsLedger == Lifecycle!LedgerSpec

-----------------------------------------------------------------------------
(* Liveness *)

IsId(e, i, n) == e.payment = i /\ e.n = n

DeliverId(i, n) == \E h \in Handlers, e \in sent \ acked :
                      IsId(e, i, n) /\ WebhookInsert(h, e)

\* A delivery in progress ends, one way or another, and deliveries that are
\* repeated for ever do not fail for ever.
HandlerProgress ==
    \A h \in Handlers : /\ WF_vars(WebhookNotFound(h) \/ WebhookAbort(h))
                        /\ SF_vars(WebhookLock(h))
                        /\ SF_vars(WebhookCommit(h))

\* The provider redelivers what was not answered with 200.
RedeliveryFairness ==
    \A i \in Invoices, n \in 0..MaxMoves : SF_vars(DeliverId(i, n))

\* The job runs at every tick, and neither the provider nor the database
\* fails at every one of them.
ReconcileFairness ==
    \A r \in Reconcilers : /\ WF_vars(ReconcileQuery(r))
                           /\ SF_vars(ReconcileFetch(r))
                           /\ SF_vars(ReconcileApply(r))

RedeliverySpec == Spec /\ HandlerProgress /\ RedeliveryFairness

RepairSpec == Spec /\ HandlerProgress /\ ReconcileFairness

\* Every event of a recorded invoice is eventually committed, those that
\* arrived before the invoice was inserted included.
EveryEventCommitted ==
    \A i \in Invoices, n \in 0..MaxMoves :
        (\E e \in sent : IsId(e, i, n)) /\ create[i] = "done"
        ~> \E e \in events : IsId(e, i, n)

\* Reconciliation repairs lost webhooks without any redelivery: an invoice whose charge stays
\* settled, and that the provider never reported cancelled, ends up paid.
SettlementReachesInvoice ==
    \A i \in Invoices :
        <>[](create[i] = "done" /\ mapAsaasStatus(remote[i]) = "paid"
             /\ ~Reported(i, "cancelled"))
        => <>[](status[i] = "paid")
=============================================================================
