---------------------------- MODULE BillingProofs ----------------------------
(***************************************************************************)
(* Theorems about Billing, for every set of invoices, handlers and         *)
(* reconcilers, every graph of provider moves and every bound.             *)
(***************************************************************************)
EXTENDS Billing, TLAPS

-----------------------------------------------------------------------------
(* The status rules. *)

\* Whatever the provider answers is mapped to a status an invoice can have.
LEMMA MapType == \A s : mapAsaasStatus(s) \in MappedStatuses
  BY DEF mapAsaasStatus, MappedStatuses

\* An event always asks for a status an invoice can have.
LEMMA DesiredType == \A t, s : Desired(t, s) \in MappedStatuses
  BY MapType DEF Desired, MappedStatuses

\* A reconciliation asks for exactly what the provider answered.
LEMMA ReconcileDesired == \A s \in MappedStatuses : Desired(ReconcileType, s) = s
  BY DEF Desired, ReconcileType, SettledEvents, OverdueEvents, CancelledEvents

\* paymentStatus keeps the status or takes the one it is asked for.
LEMMA PaymentStatusCases ==
  \A c, t, s : paymentStatus(c, t, s) \in {c, Desired(t, s)}
  BY DEF paymentStatus

\* The result of paymentStatus is a status.
LEMMA PaymentStatusType ==
  \A c \in Statuses : \A t, s : paymentStatus(c, t, s) \in Statuses
  BY PaymentStatusCases, DesiredType DEF Statuses, MappedStatuses

\* paymentStatus never moves a status backwards.
LEMMA PaymentStatusForward ==
  \A c \in Statuses : \A t, s : Rank(paymentStatus(c, t, s)) >= Rank(c)
<1>1. \A c \in Statuses, d \in MappedStatuses :
         Accepts(c, d) => Rank(d) >= Rank(c)
  BY DEF Accepts, Statuses, MappedStatuses, Rank, NoRow
<1>2. \A c \in Statuses : Rank(c) >= Rank(c)
  BY DEF Statuses, Rank, NoRow
<1> QED
  BY <1>1, <1>2, DesiredType DEF paymentStatus

\* Whether an event is accepted or not, the invoice ends up at least as far
\* along as the event asks.
LEMMA PaymentStatusAbsorbs ==
  \A c \in Statuses : \A t, s : Rank(paymentStatus(c, t, s)) >= Rank(Desired(t, s))
<1>1. \A c \in Statuses, d \in MappedStatuses :
         ~Accepts(c, d) => Rank(c) >= Rank(d)
  BY DEF Accepts, Statuses, MappedStatuses, Rank, NoRow
<1>2. \A d \in MappedStatuses : Rank(d) >= Rank(d)
  BY DEF MappedStatuses, Rank, NoRow
<1> QED
  BY <1>1, <1>2, DesiredType DEF paymentStatus

-----------------------------------------------------------------------------
(* What a typed state says of the transaction of a delivery. *)

\* A delivery in the middle of its transaction holds an emitted event.
LEMMA KeyedDelivery ==
  ASSUME TypeOK, NEW h \in Handlers, hook[h].phase = "keyed"
  PROVE  /\ hook[h].event \in sent
         /\ hook[h].event.payment \in Invoices
  BY DEF TypeOK, Idle, Keyed, Locked, Event

\* A delivery that holds the row lock also holds a status it read.
LEMMA LockedDelivery ==
  ASSUME TypeOK, NEW h \in Handlers, hook[h].phase = "locked"
  PROVE  /\ hook[h].event \in sent
         /\ hook[h].event.payment \in Invoices
         /\ hook[h].seen \in Statuses
  BY DEF TypeOK, Idle, Keyed, Locked, Event

\* Writing a status keeps the tables typed.
LEMMA ApplyType ==
  ASSUME TypeOK, NEW i \in Invoices, NEW current, NEW next \in Statuses,
         applyInvoiceStatus(i, current, next)
  PROVE  /\ status' \in [Invoices -> RowStatuses]
         /\ payments' \subseteq Invoices
  BY DEF TypeOK, applyInvoiceStatus, RowStatuses

-----------------------------------------------------------------------------
(* Type correctness. *)

\* Every step keeps every variable in its type.
LEMMA TypeCorrectStep == TypeOK /\ [Next]_vars => TypeOK'
<1> USE ConstantsAssumption
<1> SUFFICES ASSUME TypeOK, [Next]_vars PROVE TypeOK'
  OBVIOUS
<1> USE DEF TypeOK
<1>1. ASSUME NEW i \in Invoices, ProviderMove(i) PROVE TypeOK'
  <2>1. PICK m \in ProviderMoves :
          /\ remote[i] = m.from
          /\ version[i] < MaxMoves
          /\ remote' = [remote EXCEPT ![i] = m.to]
          /\ version' = [version EXCEPT ![i] = @ + 1]
          /\ sent' = sent \cup {EventOf(i, version[i] + 1, m.type, m.to)}
    BY <1>1 DEF ProviderMove
  <2>2. m.to \in RemoteStatuses /\ m.type \in EventTypes
    BY DEF EventTypes
  <2>3. version[i] + 1 \in 0..MaxMoves
    BY <2>1
  <2>4. EventOf(i, version[i] + 1, m.type, m.to) \in Event
    BY <2>2, <2>3 DEF EventOf, Event
  <2> QED
    BY <1>1, <2>1, <2>2, <2>3, <2>4 DEF ProviderMove, rows, recon
<1>2. ASSUME NEW i \in Invoices, Create(i) PROVE TypeOK'
  <2>1. EventOf(i, 0, "PAYMENT_CREATED", NewCharge) \in Event
    BY DEF EventOf, Event, EventTypes
  <2>2. CASE CreateCharge(i)
    BY <2>1, <2>2 DEF CreateCharge, rows, recon
  <2>3. CASE CreateCommit(i)
    BY <2>3, MapType DEF CreateCommit, provider, recon, RowStatuses,
                         Statuses, MappedStatuses
  <2>4. CASE CreateFail(i)
    BY <2>4 DEF CreateFail, provider, rows, recon
  <2> QED
    BY <1>2, <2>2, <2>3, <2>4 DEF Create
<1>3. ASSUME NEW h \in Handlers, Webhook(h) PROVE TypeOK'
  <2>1. CASE \E e \in sent : WebhookInsert(h, e)
    BY <2>1 DEF WebhookInsert, provider, rows, recon
  <2>2. CASE \E e \in sent : WebhookDuplicate(h, e)
    BY <2>2 DEF WebhookDuplicate, provider, rows, recon
  <2>3. CASE WebhookLock(h)
    <3>1. /\ hook[h].event \in sent
          /\ status[hook[h].event.payment] \in Statuses
      BY <2>3, KeyedDelivery DEF WebhookLock, RowStatuses
    <3> QED
      BY <2>3, <3>1 DEF WebhookLock, provider, rows, recon
  <2>4. CASE WebhookNotFound(h)
    BY <2>4 DEF WebhookNotFound, provider, rows, recon
  <2>5. CASE WebhookCommit(h)
    <3>1. hook[h].event \in sent
      BY <2>5, LockedDelivery DEF WebhookCommit
    <3>2. /\ status' \in [Invoices -> RowStatuses]
          /\ payments' \subseteq Invoices
      BY <2>5, LockedDelivery, ApplyType, PaymentStatusType
         DEF WebhookCommit, rows
    <3> QED
      BY <2>5, <3>1, <3>2 DEF WebhookCommit, provider, recon
  <2>6. CASE WebhookAbort(h)
    BY <2>6 DEF WebhookAbort, provider, rows, recon
  <2> QED
    BY <1>3, <2>1, <2>2, <2>3, <2>4, <2>5, <2>6 DEF Webhook
<1>4. ASSUME NEW r \in Reconcilers, Reconcile(r) PROVE TypeOK'
  <2>1. CASE ReconcileQuery(r)
    BY <2>1 DEF ReconcileQuery, Candidates, BatchRow, Statuses, provider, rows
  <2>2. CASE ReconcileFetch(r)
    BY <2>2, MapType DEF ReconcileFetch, BatchRow, Item, provider, rows
  <2>3. CASE ReconcileFetchFails(r)
    BY <2>3 DEF ReconcileFetchFails, provider, rows
  <2>4. CASE ReconcileApply(r)
    <3>1. item[r] \in Item
      BY <2>4 DEF ReconcileApply
    <3>2. /\ status' \in [Invoices -> RowStatuses]
          /\ payments' \subseteq Invoices
      BY <2>4, <3>1, ApplyType, PaymentStatusType DEF ReconcileApply, rows, Item
    <3> QED
      BY <2>4, <3>2 DEF ReconcileApply, provider
  <2>5. CASE ReconcileTxFails(r)
    BY <2>5 DEF ReconcileTxFails, provider, rows
  <2>6. CASE ReconcileCrash(r)
    BY <2>6 DEF ReconcileCrash, provider, rows
  <2> QED
    BY <1>4, <2>1, <2>2, <2>3, <2>4, <2>5, <2>6 DEF Reconcile
<1>5. CASE UNCHANGED vars
  BY <1>5 DEF vars, provider, rows, recon
<1> QED
  BY <1>1, <1>2, <1>3, <1>4, <1>5 DEF Next

\* Every state is well typed: deliveries hold emitted events, commits and
\* acknowledgements are about emitted events, batches hold real statuses.
THEOREM TypeCorrect == Spec => []TypeOK
<1>1. Init => TypeOK
  BY ConstantsAssumption DEF Init, TypeOK, RowStatuses
<1> QED
  BY <1>1, TypeCorrectStep, PTL DEF Spec

-----------------------------------------------------------------------------
\* Three steps write the tables: the end of Create, the commit of a delivery
\* and the transaction of a reconciled item.
LEMMA RowWriters ==
  ASSUME [Next]_vars
  PROVE  \/ UNCHANGED rows
         \/ \E i \in Invoices : CreateCommit(i)
         \/ \E h \in Handlers : WebhookCommit(h)
         \/ \E r \in Reconcilers : ReconcileApply(r)
<1>1. CASE UNCHANGED vars
  BY <1>1 DEF vars
<1>2. ASSUME NEW i \in Invoices, ProviderMove(i) PROVE UNCHANGED rows
  BY <1>2 DEF ProviderMove
<1>3. ASSUME NEW i \in Invoices, Create(i) PROVE UNCHANGED rows \/ CreateCommit(i)
  BY <1>3 DEF Create, CreateCharge, CreateFail
<1>4. ASSUME NEW h \in Handlers, Webhook(h)
      PROVE  UNCHANGED rows \/ WebhookCommit(h)
  BY <1>4 DEF Webhook, WebhookInsert, WebhookDuplicate, WebhookLock,
              WebhookNotFound, WebhookAbort
<1>5. ASSUME NEW r \in Reconcilers, Reconcile(r)
      PROVE  UNCHANGED rows \/ ReconcileApply(r)
  BY <1>5 DEF Reconcile, ReconcileQuery, ReconcileFetch, ReconcileFetchFails,
              ReconcileTxFails, ReconcileCrash
<1> QED
  BY <1>1, <1>2, <1>3, <1>4, <1>5 DEF Next

\* Only the commit of a delivery inserts an event.
LEMMA EventWriters ==
  ASSUME [Next]_vars
  PROVE  UNCHANGED events \/ \E h \in Handlers : WebhookCommit(h)
<1>1. ASSUME NEW i \in Invoices, ProviderMove(i) \/ Create(i) PROVE UNCHANGED events
  BY <1>1 DEF ProviderMove, Create, CreateCharge, CreateCommit, CreateFail
<1>2. ASSUME NEW h \in Handlers, Webhook(h)
      PROVE  UNCHANGED events \/ WebhookCommit(h)
  BY <1>2 DEF Webhook, WebhookInsert, WebhookDuplicate, WebhookLock,
              WebhookNotFound, WebhookAbort
<1>3. ASSUME NEW r \in Reconcilers, Reconcile(r) PROVE UNCHANGED events
  BY <1>3 DEF Reconcile, ReconcileQuery, ReconcileFetch, ReconcileFetchFails,
              ReconcileApply, ReconcileTxFails, ReconcileCrash
<1>4. CASE UNCHANGED vars
  BY <1>4 DEF vars
<1> QED
  BY <1>1, <1>2, <1>3, <1>4 DEF Next

-----------------------------------------------------------------------------
(* Settlements. *)

\* applyInvoiceStatus records the settlement of whatever it turns to paid.
LEMMA ApplySettles ==
  ASSUME TypeOK, PaidHasPayment, NEW i \in Invoices, NEW current, NEW next,
         next # current, applyInvoiceStatus(i, current, next)
  PROVE  PaidHasPayment'
  BY DEF TypeOK, PaidHasPayment, applyInvoiceStatus

\* An invoice shown paid has its settlement row, however stale the status
\* the writer started from.
THEOREM PaidImpliesPayment == Spec => []PaidHasPayment
<1>1. Init => PaidHasPayment
  BY DEF Init, PaidHasPayment, NoRow
<1>2. TypeOK /\ PaidHasPayment /\ [Next]_vars => PaidHasPayment'
  <2> SUFFICES ASSUME TypeOK, PaidHasPayment, [Next]_vars PROVE PaidHasPayment'
    OBVIOUS
  <2>1. CASE UNCHANGED rows
    BY <2>1 DEF rows, PaidHasPayment
  <2>2. ASSUME NEW i \in Invoices, CreateCommit(i) PROVE PaidHasPayment'
    BY <2>2 DEF CreateCommit, PaidHasPayment, TypeOK, mapAsaasStatus, NewCharge,
                SettledRemote
  <2>3. ASSUME NEW h \in Handlers, WebhookCommit(h) PROVE PaidHasPayment'
    BY <2>1, <2>3, LockedDelivery, ApplySettles DEF WebhookCommit
  <2>4. ASSUME NEW r \in Reconcilers, ReconcileApply(r) PROVE PaidHasPayment'
    <3>1. item[r] \in Item
      BY <2>4 DEF ReconcileApply, TypeOK
    <3> QED
      BY <2>1, <2>4, <3>1, ApplySettles DEF ReconcileApply, Item
  <2> QED
    BY <2>1, <2>2, <2>3, <2>4, RowWriters
<1> QED
  BY <1>1, <1>2, TypeCorrect, PTL DEF Spec

-----------------------------------------------------------------------------
(* The row lock. *)

\* Steps that write no row and take no lock leave what is locked alone.
LEMMA LockFrame ==
  ASSUME TypeOK, RowInv, UNCHANGED status,
         \A h \in Handlers : hook'[h].phase = "locked" => hook'[h] = hook[h]
  PROVE  LockedStatusCurrent' /\ RowLockExclusive'
  BY DEF RowInv, LockedStatusCurrent, RowLockExclusive

\* What a locked delivery read stays current: its row is written by itself,
\* or while no delivery holds the lock, or before the row could be locked.
THEOREM RowLocking == Spec => []RowInv
<1>1. Init => RowInv
  BY DEF Init, RowInv, RowsFromCreate, WorkOnRows, LockedStatusCurrent,
         RowLockExclusive, Idle, NoRow
<1>2. TypeOK /\ RowInv /\ [Next]_vars => RowInv'
  <2> SUFFICES ASSUME TypeOK, RowInv, [Next]_vars PROVE RowInv'
    OBVIOUS
  <2> USE DEF TypeOK, RowInv
  <2>1. ASSUME NEW i \in Invoices, ProviderMove(i) PROVE RowInv'
    BY <2>1, LockFrame DEF ProviderMove, rows, recon, RowsFromCreate, WorkOnRows
  <2>2. ASSUME NEW i \in Invoices, CreateCharge(i) \/ CreateFail(i) PROVE RowInv'
    <3>1. UNCHANGED <<status, hook, batch, item>>
      BY <2>2 DEF CreateCharge, CreateFail, rows, recon
    <3>2. \A j \in Invoices : create'[j] = "done" <=> create[j] = "done"
      BY <2>2 DEF CreateCharge, CreateFail
    <3>3. RowsFromCreate' /\ WorkOnRows'
      BY <3>1, <3>2 DEF RowsFromCreate, WorkOnRows, BatchRow, Item
    <3> QED
      BY <3>1, <3>3, LockFrame
  <2>3. ASSUME NEW i \in Invoices, CreateCommit(i) PROVE RowInv'
    <3>1. RowsFromCreate' /\ WorkOnRows'
      BY <2>3, MapType DEF CreateCommit, recon, RowsFromCreate, WorkOnRows,
                           MappedStatuses, NoRow
    <3>2. \A h \in Handlers : hook[h].phase = "locked" =>
                                   hook[h].event.payment # i
      <4> SUFFICES ASSUME NEW h \in Handlers, hook[h].phase = "locked",
                          hook[h].event.payment = i
                   PROVE  FALSE
        OBVIOUS
      <4>1. status[i] \in Statuses
        BY LockedDelivery DEF LockedStatusCurrent
      <4> QED
        BY <2>3, <4>1 DEF CreateCommit, RowsFromCreate, Statuses, NoRow
    <3>3. LockedStatusCurrent' /\ RowLockExclusive'
      BY <2>3, <3>2 DEF CreateCommit, LockedStatusCurrent, RowLockExclusive
    <3> QED
      BY <3>1, <3>3
  <2>4. ASSUME NEW h \in Handlers, NEW e \in sent,
               WebhookInsert(h, e) \/ WebhookDuplicate(h, e)
        PROVE  RowInv'
    BY <2>4, LockFrame DEF WebhookInsert, WebhookDuplicate, rows, recon, Keyed,
                           RowsFromCreate, WorkOnRows
  <2>5. ASSUME NEW h \in Handlers, WebhookLock(h) PROVE RowInv'
    <3>1. RowsFromCreate' /\ WorkOnRows'
      BY <2>5 DEF WebhookLock, rows, recon, RowsFromCreate, WorkOnRows
    <3>2. LockedStatusCurrent' /\ RowLockExclusive'
      BY <2>5 DEF WebhookLock, rows, Locked, RowLocked, LockedStatusCurrent,
                  RowLockExclusive
    <3> QED
      BY <3>1, <3>2
  <2>6. ASSUME NEW h \in Handlers, WebhookNotFound(h) \/ WebhookAbort(h)
        PROVE  RowInv'
    BY <2>6, LockFrame DEF WebhookNotFound, WebhookAbort, rows, recon, Idle,
                           RowsFromCreate, WorkOnRows
  <2>7. ASSUME NEW h \in Handlers, WebhookCommit(h) PROVE RowInv'
    <3> DEFINE e == hook[h].event
               next == paymentStatus(hook[h].seen, e.type, e.status)
    <3>1. /\ e.payment \in Invoices
          /\ hook[h].seen \in Statuses
          /\ hook[h].seen = status[e.payment]
          /\ hook' = [hook EXCEPT ![h] = Idle]
          /\ UNCHANGED <<create, batch, item>>
      BY <2>7, LockedDelivery DEF WebhookCommit, recon, LockedStatusCurrent
    <3>2. /\ next \in Statuses
          /\ hook[h].seen # "draft" => next # "draft"
      BY <3>1, PaymentStatusType, PaymentStatusCases, DesiredType
         DEF MappedStatuses
    <3>3. status' = status \/ status' = [status EXCEPT ![e.payment] = next]
      BY <2>7 DEF WebhookCommit, rows, applyInvoiceStatus
    <3>4. RowsFromCreate' /\ WorkOnRows'
      BY <3>1, <3>2, <3>3 DEF RowsFromCreate, WorkOnRows, Statuses, NoRow
    <3>5. \A g \in Handlers \ {h} : hook[g].phase = "locked" =>
                                         hook[g].event.payment # e.payment
      BY <2>7 DEF WebhookCommit, RowLockExclusive
    <3>6. \A g \in Handlers : hook'[g].phase = "locked" =>
                                 g # h /\ hook'[g] = hook[g]
      BY <3>1 DEF Idle
    <3> HIDE DEF next
    <3>7. LockedStatusCurrent'
      BY <3>1, <3>3, <3>5, <3>6, LockedDelivery DEF LockedStatusCurrent
    <3>8. RowLockExclusive'
      BY <3>6 DEF RowLockExclusive
    <3> QED
      BY <3>4, <3>7, <3>8
  <2>8. ASSUME NEW r \in Reconcilers, ReconcileApply(r) PROVE RowInv'
    <3> DEFINE i == item[r].invoice
               next == paymentStatus(item[r].seen, ReconcileType, item[r].remote)
    <3>1. /\ i \in Invoices /\ create[i] = "done"
          /\ item[r].seen \in Statuses /\ item[r].remote \in MappedStatuses
      BY <2>8 DEF ReconcileApply, Item, WorkOnRows
    <3>2. \/ status' = status
          \/ next \in MappedStatuses /\ status' = [status EXCEPT ![i] = next]
      BY <2>8, <3>1, PaymentStatusCases, DesiredType
         DEF ReconcileApply, rows, applyInvoiceStatus
    <3>3. /\ item' = [item EXCEPT ![r] = NoItem]
          /\ UNCHANGED <<create, hook, batch>>
          /\ ~RowLocked(i)
      BY <2>8 DEF ReconcileApply
    <3> HIDE DEF i, next
    <3>4. RowsFromCreate'
      BY <3>1, <3>2, <3>3 DEF RowsFromCreate, MappedStatuses, NoRow
    <3>5. WorkOnRows'
      BY <3>3 DEF WorkOnRows
    <3>6. LockedStatusCurrent' /\ RowLockExclusive'
      BY <3>2, <3>3, LockedDelivery DEF RowLocked, LockedStatusCurrent,
                                        RowLockExclusive
    <3> QED
      BY <3>4, <3>5, <3>6
  <2>9. ASSUME NEW r \in Reconcilers, ReconcileQuery(r) PROVE RowInv'
    <3>1. \A i \in Candidates : create[i] = "done"
      BY DEF Candidates, RowsFromCreate, NoRow
    <3>2. RowsFromCreate' /\ WorkOnRows'
      BY <2>9, <3>1 DEF ReconcileQuery, rows, RowsFromCreate, WorkOnRows
    <3> QED
      BY <2>9, <3>2, LockFrame DEF ReconcileQuery, rows
  <2>10. ASSUME NEW r \in Reconcilers,
                \/ ReconcileFetch(r) \/ ReconcileFetchFails(r)
                \/ ReconcileTxFails(r) \/ ReconcileCrash(r)
         PROVE  RowInv'
    <3>1. RowsFromCreate' /\ WorkOnRows'
      BY <2>10 DEF ReconcileFetch, ReconcileFetchFails, ReconcileTxFails,
                   ReconcileCrash, rows, RowsFromCreate, WorkOnRows
    <3> QED
      BY <2>10, <3>1, LockFrame DEF ReconcileFetch, ReconcileFetchFails,
                                    ReconcileTxFails, ReconcileCrash, rows
  <2>11. CASE UNCHANGED vars
    BY <2>11, LockFrame DEF vars, rows, recon, RowsFromCreate, WorkOnRows
  <2> QED
    BY <2>1, <2>2, <2>3, <2>4, <2>5, <2>6, <2>7, <2>8, <2>9, <2>10, <2>11
       DEF Next, Create, Webhook, Reconcile
<1> QED
  BY <1>1, <1>2, TypeCorrect, PTL DEF Spec

\* A delivery decides on the status the row has, also while reconciliations
\* write rows without reading them.
THEOREM LockedReadsCurrent == Spec => []LockedStatusCurrent
<1>1. RowInv => LockedStatusCurrent
  BY DEF RowInv
<1> QED
  BY <1>1, RowLocking, PTL

-----------------------------------------------------------------------------
(* Committed events. *)

\* Rows are never deleted: a call of Create that is done stays done.
LEMMA RecordedForEver ==
  ASSUME TypeOK, RowInv, RowInv', [Next]_vars, NEW i \in Invoices, status[i] # NoRow
  PROVE  status'[i] # NoRow
<1>1. create[i] = "done"
  BY DEF RowInv, RowsFromCreate
<1>2. ASSUME NEW j \in Invoices, ProviderMove(j) \/ Create(j) PROVE create'[i] = "done"
  BY <1>1, <1>2 DEF ProviderMove, Create, CreateCharge, CreateCommit, CreateFail, TypeOK
<1>3. ASSUME NEW h \in Handlers, Webhook(h) PROVE create'[i] = "done"
  BY <1>1, <1>3 DEF Webhook, WebhookInsert, WebhookDuplicate, WebhookLock,
                    WebhookNotFound, WebhookCommit, WebhookAbort
<1>4. ASSUME NEW r \in Reconcilers, Reconcile(r) PROVE create'[i] = "done"
  BY <1>1, <1>4 DEF Reconcile, ReconcileQuery, ReconcileFetch, ReconcileFetchFails,
                    ReconcileApply, ReconcileTxFails, ReconcileCrash
<1>5. ASSUME UNCHANGED vars PROVE create'[i] = "done"
  BY <1>1, <1>5 DEF vars
<1>6. create'[i] = "done"
  BY <1>2, <1>3, <1>4, <1>5 DEF Next
<1> QED
  BY <1>6 DEF RowInv, RowsFromCreate

\* An event is in the hands of one delivery at a time, and of none once it is
\* committed, however often and however concurrently it is delivered.
THEOREM EventsAppliedOnce == Spec => []AppliedOnce
<1>1. Init => AppliedOnce
  BY DEF Init, AppliedOnce
<1>2. TypeOK /\ AppliedOnce /\ [Next]_vars => AppliedOnce'
  <2> SUFFICES ASSUME TypeOK, AppliedOnce, [Next]_vars PROVE AppliedOnce'
    OBVIOUS
  <2>1. CASE UNCHANGED <<hook, events>>
    BY <2>1 DEF AppliedOnce
  <2>2. ASSUME NEW h \in Handlers, NEW e \in sent, WebhookInsert(h, e)
        PROVE  AppliedOnce'
    <3>1. /\ hook' = [hook EXCEPT ![h] = Keyed(e)]
          /\ UNCHANGED events
          /\ e \notin events
          /\ \A g \in Handlers : hook[g].event # e
      BY <2>2 DEF WebhookInsert, InFlight
    <3>2. hook'[h].event = e /\ \A g \in Handlers \ {h} : hook'[g] = hook[g]
      BY <3>1 DEF TypeOK, Keyed
    <3> QED
      BY <3>1, <3>2 DEF AppliedOnce
  <2>3. ASSUME NEW h \in Handlers, WebhookLock(h) PROVE AppliedOnce'
    <3>1. /\ hook'[h].event = hook[h].event
          /\ hook[h] # Idle
          /\ \A g \in Handlers \ {h} : hook'[g] = hook[g]
          /\ UNCHANGED events
      BY <2>3 DEF WebhookLock, TypeOK, Locked, Idle
    <3> QED
      BY <3>1 DEF AppliedOnce
  \* The other transactions end: the delivery is idle again.
  <2>4. ASSUME NEW h \in Handlers, hook' = [hook EXCEPT ![h] = Idle],
               events' = events \/ (hook[h] # Idle /\ events' = events \cup {hook[h].event})
        PROVE  AppliedOnce'
    <3>1. \A g \in Handlers : hook'[g] # Idle => g # h /\ hook'[g] = hook[g]
      BY <2>4 DEF TypeOK
    <3>2. \A g, f \in Handlers : g # f /\ hook'[g] # Idle => hook'[f].event # hook[g].event
      <4>1. \A g \in Handlers : hook'[g] # Idle => hook[g].event # NoEvent
        BY <3>1, ConstantsAssumption DEF TypeOK, Keyed, Locked
      <4>2. hook'[h].event = NoEvent
        BY <2>4 DEF TypeOK, Idle
      <4>3. \A f \in Handlers : f # h => hook'[f] = hook[f]
        BY <2>4 DEF TypeOK
      <4> QED
        BY <3>1, <4>1, <4>2, <4>3 DEF AppliedOnce
    <3>3. \A g \in Handlers : hook'[g] # Idle => hook[g].event \notin events'
      BY <2>4, <3>1 DEF AppliedOnce
    <3> QED
      BY <3>1, <3>2, <3>3 DEF AppliedOnce
  <2>5. ASSUME NEW h \in Handlers, WebhookCommit(h) PROVE AppliedOnce'
    <3>1. /\ hook' = [hook EXCEPT ![h] = Idle]
          /\ hook[h].phase = "locked"
          /\ events' = events \cup {hook[h].event}
      BY <2>5 DEF WebhookCommit
    <3>2. hook[h] # Idle
      BY <3>1 DEF Idle
    <3> QED
      BY <2>4, <3>1, <3>2
  <2>6. ASSUME NEW h \in Handlers, WebhookNotFound(h) \/ WebhookAbort(h)
        PROVE  AppliedOnce'
    <3>1. hook' = [hook EXCEPT ![h] = Idle] /\ events' = events
      BY <2>6 DEF WebhookNotFound, WebhookAbort
    <3> HIDE DEF AppliedOnce
    <3> QED
      BY <2>4, <3>1
  <2>7. ASSUME NEW h \in Handlers, NEW e \in sent, WebhookDuplicate(h, e)
        PROVE  UNCHANGED <<hook, events>>
    BY <2>7 DEF WebhookDuplicate
  <2>8. ASSUME NEW i \in Invoices, ProviderMove(i) \/ Create(i)
        PROVE  UNCHANGED <<hook, events>>
    BY <2>8 DEF ProviderMove, Create, CreateCharge, CreateCommit, CreateFail
  <2>9. ASSUME NEW r \in Reconcilers, Reconcile(r) PROVE UNCHANGED <<hook, events>>
    BY <2>9 DEF Reconcile, ReconcileQuery, ReconcileFetch, ReconcileFetchFails,
                ReconcileApply, ReconcileTxFails, ReconcileCrash
  <2> QED
    BY <2>1, <2>2, <2>3, <2>5, <2>6, <2>7, <2>8, <2>9 DEF Next, Webhook, vars
<1> QED
  BY <1>1, <1>2, TypeCorrect, PTL DEF Spec

\* What was answered with 200 is committed, and about an invoice that exists:
\* only a delivery that holds the lock of the row commits its event.
THEOREM AcknowledgedCommitted == Spec => []AckedIsCommitted
<1>1. Init => AckedIsCommitted
  BY DEF Init, AckedIsCommitted
<1>2. TypeOK /\ RowInv /\ RowInv' /\ AckedIsCommitted /\ [Next]_vars => AckedIsCommitted'
  <2> SUFFICES ASSUME TypeOK, RowInv, RowInv', AckedIsCommitted, [Next]_vars
               PROVE  AckedIsCommitted'
    OBVIOUS
  <2>1. \A e \in events : status'[e.payment] # NoRow
    BY RecordedForEver DEF AckedIsCommitted, TypeOK, Event
  <2>2. CASE UNCHANGED <<acked, events>>
    BY <2>1, <2>2 DEF AckedIsCommitted
  <2>3. ASSUME NEW h \in Handlers, NEW e \in sent, WebhookDuplicate(h, e)
        PROVE  AckedIsCommitted'
    BY <2>1, <2>3 DEF WebhookDuplicate, AckedIsCommitted
  <2>4. ASSUME NEW h \in Handlers, WebhookCommit(h) PROVE AckedIsCommitted'
    <3> DEFINE e == hook[h].event
    <3>1. /\ e.payment \in Invoices
          /\ status[e.payment] \in Statuses
      BY <2>4, LockedDelivery DEF WebhookCommit, RowInv, LockedStatusCurrent
    <3>2. status'[e.payment] # NoRow
      BY <3>1, RecordedForEver DEF Statuses, NoRow
    <3>3. events' = events \cup {e} /\ acked' \in {acked, acked \cup {e}}
      BY <2>4 DEF WebhookCommit
    <3> HIDE DEF e
    <3> QED
      BY <2>1, <3>2, <3>3 DEF AckedIsCommitted
  <2>5. ASSUME NEW h \in Handlers, Webhook(h) PROVE AckedIsCommitted'
    BY <2>2, <2>3, <2>4, <2>5
       DEF Webhook, WebhookInsert, WebhookLock, WebhookNotFound, WebhookAbort
  <2>6. ASSUME NEW i \in Invoices, ProviderMove(i) \/ Create(i)
        PROVE  UNCHANGED <<acked, events>>
    BY <2>6 DEF ProviderMove, Create, CreateCharge, CreateCommit, CreateFail
  <2>7. ASSUME NEW r \in Reconcilers, Reconcile(r) PROVE UNCHANGED <<acked, events>>
    BY <2>7 DEF Reconcile, ReconcileQuery, ReconcileFetch, ReconcileFetchFails,
                ReconcileApply, ReconcileTxFails, ReconcileCrash
  <2> QED
    BY <2>2, <2>5, <2>6, <2>7 DEF Next, vars
<1> QED
  BY <1>1, <1>2, TypeCorrect, RowLocking, PTL DEF Spec

-----------------------------------------------------------------------------
(* Action properties. *)

\* A delivery that writes the row writes it forward of what the row holds.
LEMMA CommitForward ==
  ASSUME TypeOK, RowInv, NEW h \in Handlers, WebhookCommit(h)
  PROVE  \A i \in Invoices : NoRegression(i)
<1> DEFINE e == hook[h].event
           next == paymentStatus(hook[h].seen, e.type, e.status)
<1>1. /\ e.payment \in Invoices
      /\ hook[h].seen \in Statuses
      /\ hook[h].seen = status[e.payment]
  BY LockedDelivery DEF WebhookCommit, RowInv, LockedStatusCurrent
<1>2. Rank(next) >= Rank(hook[h].seen)
  BY <1>1, PaymentStatusForward
<1>3. status' = status \/ status' = [status EXCEPT ![e.payment] = next]
  BY DEF WebhookCommit, rows, applyInvoiceStatus
<1>4. \A i \in Invoices : Rank(status[i]) >= Rank(status[i])
  BY DEF TypeOK, RowStatuses, Statuses, NoRow, Rank
<1> HIDE DEF e, next
<1> QED
  BY <1>1, <1>2, <1>3, <1>4 DEF NoRegression, TypeOK

\* An item written from the status the row still has moves it forward: the
\* rules of paymentStatus are those of a delivery.
LEMMA CurrentApplyForward ==
  ASSUME TypeOK, NEW r \in Reconcilers, ReconcileApply(r),
         item[r].seen = status[item[r].invoice]
  PROVE  \A i \in Invoices : NoRegression(i)
<1> DEFINE next == paymentStatus(item[r].seen, ReconcileType, item[r].remote)
<1>1. item[r].invoice \in Invoices /\ item[r].seen \in Statuses
  BY DEF ReconcileApply, TypeOK, Item
<1>2. Rank(next) >= Rank(item[r].seen)
  BY <1>1, PaymentStatusForward
<1>3. status' = status \/ status' = [status EXCEPT ![item[r].invoice] = next]
  BY DEF ReconcileApply, rows, applyInvoiceStatus
<1>4. \A i \in Invoices : Rank(status[i]) >= Rank(status[i])
  BY DEF TypeOK, RowStatuses, Statuses, NoRow, Rank
<1> HIDE DEF next
<1> QED
  BY <1>1, <1>2, <1>3, <1>4 DEF NoRegression, TypeOK

\* A new row is as far along as no row, and further.
LEMMA CreateForward ==
  ASSUME TypeOK, RowInv, NEW j \in Invoices, CreateCommit(j)
  PROVE  \A i \in Invoices : NoRegression(i)
  BY DEF CreateCommit, NoRegression, TypeOK, RowInv, RowsFromCreate,
         RowStatuses, Statuses, NoRow, Rank, mapAsaasStatus

\* Of all steps only one moves an invoice backwards: the transaction of an item
\* whose row has another status by now.
StaleApply ==
    \E r \in Reconcilers : ReconcileApply(r) /\ item[r].seen # status[item[r].invoice]

LEMMA ForwardUnlessStale ==
  ASSUME TypeOK, RowInv, [Next]_vars
  PROVE  (\A i \in Invoices : NoRegression(i)) \/ StaleApply
<1>1. CASE UNCHANGED rows
  BY <1>1 DEF rows, NoRegression, TypeOK, RowStatuses, Statuses, NoRow, Rank
<1>2. ASSUME NEW r \in Reconcilers, ReconcileApply(r)
      PROVE  (\A i \in Invoices : NoRegression(i)) \/ StaleApply
  BY <1>2, CurrentApplyForward DEF StaleApply
<1> QED
  BY <1>1, <1>2, CreateForward, CommitForward, RowWriters

\* Deliveries never regress an invoice, with any number of reconciliations
\* running and of deliveries in flight: the lock makes the read current.
THEOREM WebhooksForward == Spec => WebhooksNeverRegress
<1>1. TypeOK /\ RowInv /\ [Next]_vars =>
         [hook' # hook => \A i \in Invoices : NoRegression(i)]_vars
  <2> SUFFICES ASSUME TypeOK, RowInv, [Next]_vars, hook' # hook
               PROVE  \A i \in Invoices : NoRegression(i)
    OBVIOUS
  <2>1. ~StaleApply
    BY DEF StaleApply, ReconcileApply
  <2> QED
    BY <2>1, ForwardUnlessStale
<1> QED
  BY <1>1, TypeCorrect, RowLocking, PTL DEF Spec, WebhooksNeverRegress

\* A reconciliation regresses an invoice only from a stale read: the end of an
\* item that is written, given up or lost with its replica moves no invoice
\* backwards unless its status changed since the batch was read.
THEOREM OnlyStaleRegress == Spec => RegressionNeedsStaleRead
<1>1. TypeOK /\ RowInv /\ [Next]_vars =>
         [\A r \in Reconcilers :
             (/\ item[r] # NoItem
              /\ item'[r] = NoItem
              /\ item[r].seen = status[item[r].invoice])
             => \A i \in Invoices : NoRegression(i)]_vars
  <2> SUFFICES ASSUME TypeOK, RowInv, [Next]_vars, NEW r \in Reconcilers,
                      item[r] # NoItem, item'[r] = NoItem,
                      item[r].seen = status[item[r].invoice]
               PROVE  \A i \in Invoices : NoRegression(i)
    OBVIOUS
  <2>1. \A q \in Reconcilers : ReconcileApply(q) => q = r
    BY DEF ReconcileApply, TypeOK
  <2>2. ~StaleApply
    BY <2>1 DEF StaleApply
  <2> QED
    BY <2>2, ForwardUnlessStale
<1> QED
  BY <1>1, TypeCorrect, RowLocking, PTL DEF Spec, RegressionNeedsStaleRead

\* Every regression is explained, whoever makes it: some reconciliation ends an
\* item whose row is no longer what the batch said.
THEOREM RegressionsExplained ==
  Spec => [][\/ \A i \in Invoices : NoRegression(i)
             \/ \E r \in Reconcilers : /\ item[r] # NoItem
                                       /\ item'[r] = NoItem
                                       /\ item[r].seen # status[item[r].invoice]]_vars
<1>1. TypeOK /\ RowInv /\ [Next]_vars =>
         [\/ \A i \in Invoices : NoRegression(i)
          \/ \E r \in Reconcilers : /\ item[r] # NoItem
                                    /\ item'[r] = NoItem
                                    /\ item[r].seen # status[item[r].invoice]]_vars
  <2> SUFFICES ASSUME TypeOK, RowInv, [Next]_vars,
                      NEW r \in Reconcilers, ReconcileApply(r)
               PROVE  item[r] # NoItem /\ item'[r] = NoItem
    BY ForwardUnlessStale DEF StaleApply
  <2> QED
    BY DEF ReconcileApply, TypeOK
<1> QED
  BY <1>1, TypeCorrect, RowLocking, PTL DEF Spec

\* What docs/billing.md says of paid and cancelled invoices holds as long as no
\* reconciliation runs; the run billing_regression shows that it needs that.
THEOREM TerminalUnlessReconciled ==
  ASSUME Reconcilers = {}
  PROVE  Spec => TerminalStatesStay
<1>1. TypeOK /\ RowInv /\ [Next]_vars =>
         [\A i \in Invoices : status[i] \in {"paid", "cancelled"} => NoRegression(i)]_vars
  <2> SUFFICES ASSUME TypeOK, RowInv, [Next]_vars
               PROVE  \A i \in Invoices : NoRegression(i)
    OBVIOUS
  <2> QED
    BY ForwardUnlessStale DEF StaleApply
<1> QED
  BY <1>1, TypeCorrect, RowLocking, PTL DEF Spec, TerminalStatesStay

-----------------------------------------------------------------------------
(* Provenance. *)

\* What was reported stays reported.
LEMMA ReportedForEver ==
  ASSUME sent \subseteq sent', NEW i, NEW s, Reported(i, s)
  PROVE  Reported(i, s)'
  BY DEF Reported

\* Emitted events are never taken back.
LEMMA SentGrows == [Next]_vars => sent \subseteq sent'
<1> SUFFICES ASSUME [Next]_vars PROVE sent \subseteq sent'
  OBVIOUS
<1>1. ASSUME NEW i \in Invoices, ProviderMove(i) PROVE sent \subseteq sent'
  BY <1>1 DEF ProviderMove
<1>2. ASSUME NEW i \in Invoices, Create(i) PROVE sent \subseteq sent'
  BY <1>2 DEF Create, CreateCharge, CreateCommit, CreateFail, provider
<1>3. ASSUME NEW h \in Handlers, Webhook(h) PROVE sent \subseteq sent'
  BY <1>3 DEF Webhook, WebhookInsert, WebhookDuplicate, WebhookLock,
              WebhookNotFound, WebhookCommit, WebhookAbort, provider
<1>4. ASSUME NEW r \in Reconcilers, Reconcile(r) PROVE sent \subseteq sent'
  BY <1>4 DEF Reconcile, ReconcileQuery, ReconcileFetch, ReconcileFetchFails,
              ReconcileApply, ReconcileTxFails, ReconcileCrash, provider
<1>5. CASE UNCHANGED vars
  BY <1>5 DEF vars, provider
<1> QED
  BY <1>1, <1>2, <1>3, <1>4, <1>5 DEF Next

\* The charges: a change of a charge is announced with the change.
LEMMA ChargesStayReported ==
  ASSUME TypeOK, ChargesReported, [Next]_vars
  PROVE  ChargesReported'
<1> USE DEF TypeOK
<1>1. sent \subseteq sent'
  BY SentGrows
<1>2. CASE UNCHANGED <<remote, create>>
  BY <1>1, <1>2, ReportedForEver DEF ChargesReported
<1>3. ASSUME NEW i \in Invoices, ProviderMove(i) PROVE ChargesReported'
  <2>1. PICK m \in ProviderMoves :
          /\ remote[i] = m.from
          /\ remote' = [remote EXCEPT ![i] = m.to]
          /\ sent' = sent \cup {EventOf(i, version[i] + 1, m.type, m.to)}
          /\ create' = create
    BY <1>3 DEF ProviderMove
  <2>2. m.to \in RemoteStatuses /\ NoCharge \notin RemoteStatuses
    BY ConstantsAssumption
  <2>3. \E e \in sent' : e.payment = i /\ e.status = m.to
    <3> DEFINE e == EventOf(i, version[i] + 1, m.type, m.to)
    <3>1. e.payment = i /\ e.status = m.to
      BY DEF EventOf
    <3>2. e \in sent'
      BY <2>1
    <3> QED
      BY <3>1, <3>2
  <2>4. \A j \in Invoices : remote'[j] # NoCharge =>
           \E e \in sent' : e.payment = j /\ e.status = remote'[j]
    BY <1>1, <2>1, <2>3 DEF ChargesReported
  <2>5. \A j \in Invoices : create'[j] \in {"charged", "done"} =>
           remote'[j] # NoCharge /\ Reported(j, mapAsaasStatus(NewCharge))
    BY <2>1, <2>2 DEF ChargesReported
  <2> QED
    BY <1>1, <2>4, <2>5, ReportedForEver DEF ChargesReported
<1>4. ASSUME NEW i \in Invoices, CreateCharge(i) PROVE ChargesReported'
  <2> DEFINE e == EventOf(i, 0, "PAYMENT_CREATED", NewCharge)
  <2>1. e \in sent' /\ e.payment = i /\ e.status = NewCharge
    BY <1>4 DEF CreateCharge, EventOf
  <2>2. Reported(i, mapAsaasStatus(NewCharge))'
    BY <2>1 DEF Reported, Claims
  <2>3. /\ remote' = [remote EXCEPT ![i] = NewCharge]
        /\ create' = [create EXCEPT ![i] = "charged"]
        /\ NewCharge # NoCharge
    BY <1>4 DEF CreateCharge, NewCharge, NoCharge
  <2> HIDE DEF e
  <2>4. \A j \in Invoices : remote'[j] # NoCharge =>
           \E f \in sent' : f.payment = j /\ f.status = remote'[j]
    BY <1>1, <2>1, <2>3 DEF ChargesReported
  <2>5. \A j \in Invoices : create'[j] \in {"charged", "done"} =>
           remote'[j] # NoCharge /\ Reported(j, mapAsaasStatus(NewCharge))'
    BY <1>1, <2>2, <2>3, ReportedForEver DEF ChargesReported
  <2> QED
    BY <2>4, <2>5 DEF ChargesReported
<1>5. ASSUME NEW i \in Invoices, CreateCommit(i) \/ CreateFail(i)
      PROVE  ChargesReported'
  <2>1. /\ UNCHANGED remote
        /\ \A j \in Invoices : create'[j] \in {"charged", "done"} =>
                                create[j] \in {"charged", "done"}
    BY <1>5 DEF CreateCommit, CreateFail, provider
  <2> QED
    BY <1>1, <2>1, ReportedForEver DEF ChargesReported
<1>6. ASSUME NEW h \in Handlers, Webhook(h) PROVE UNCHANGED <<remote, create>>
  BY <1>6 DEF Webhook, WebhookInsert, WebhookDuplicate, WebhookLock,
              WebhookNotFound, WebhookCommit, WebhookAbort, provider
<1>7. ASSUME NEW r \in Reconcilers, Reconcile(r) PROVE UNCHANGED <<remote, create>>
  BY <1>7 DEF Reconcile, ReconcileQuery, ReconcileFetch, ReconcileFetchFails,
              ReconcileApply, ReconcileTxFails, ReconcileCrash, provider
<1>8. CASE UNCHANGED vars
  BY <1>2, <1>8 DEF vars, provider
<1> QED
  BY <1>2, <1>3, <1>4, <1>5, <1>6, <1>7, <1>8 DEF Next, Create

\* The answers: the provider answers with the status of the charge.
LEMMA AnswersStayReported ==
  ASSUME TypeOK, RowInv, ChargesReported, AnswersReported, [Next]_vars
  PROVE  AnswersReported'
<1> USE DEF TypeOK
<1>1. sent \subseteq sent'
  BY SentGrows
<1>2. CASE \A r \in Reconcilers : item'[r] \in {item[r], NoItem}
  BY <1>1, <1>2, ReportedForEver DEF AnswersReported
<1>3. ASSUME NEW r \in Reconcilers, ReconcileFetch(r) PROVE AnswersReported'
  <2>1. PICK b \in batch[r] :
          item' = [item EXCEPT ![r] =
                      [invoice |-> b.invoice, seen |-> b.seen,
                       remote |-> mapAsaasStatus(remote[b.invoice])]]
    BY <1>3 DEF ReconcileFetch
  <2>2. b.invoice \in Invoices /\ create[b.invoice] = "done"
    BY DEF BatchRow, RowInv, WorkOnRows
  <2>3. PICK e \in sent : e.payment = b.invoice /\ e.status = remote[b.invoice]
    BY <2>2 DEF ChargesReported
  <2>4. Reported(b.invoice, mapAsaasStatus(remote[b.invoice]))
    BY <2>3 DEF Reported, Claims
  <2>5. sent' = sent
    BY <1>3 DEF ReconcileFetch, provider
  <2> QED
    BY <2>1, <2>4, <2>5 DEF AnswersReported, Reported
<1>4. ASSUME NEW i \in Invoices, ProviderMove(i) \/ Create(i) PROVE UNCHANGED item
  BY <1>4 DEF ProviderMove, Create, CreateCharge, CreateCommit, CreateFail, recon
<1>5. ASSUME NEW h \in Handlers, Webhook(h) PROVE UNCHANGED item
  BY <1>5 DEF Webhook, WebhookInsert, WebhookDuplicate, WebhookLock,
              WebhookNotFound, WebhookCommit, WebhookAbort, recon
<1>6. ASSUME NEW r \in Reconcilers, Reconcile(r), ~ReconcileFetch(r)
      PROVE  \A q \in Reconcilers : item'[q] \in {item[q], NoItem}
  BY <1>6 DEF Reconcile, ReconcileQuery, ReconcileFetchFails, ReconcileApply,
              ReconcileTxFails, ReconcileCrash
<1>7. CASE UNCHANGED vars
  BY <1>2, <1>7 DEF vars, recon
<1> QED
  BY <1>2, <1>3, <1>4, <1>5, <1>6, <1>7 DEF Next

\* The rows: a writer writes what an event, an answer or the creation claims.
LEMMA NothingGetsInvented ==
  ASSUME TypeOK, RowInv, ProvenanceInv, [Next]_vars
  PROVE  NothingInvented'
<1> USE DEF TypeOK, ProvenanceInv
<1>1. sent \subseteq sent'
  BY SentGrows
<1>2. CASE UNCHANGED rows
  BY <1>1, <1>2, ReportedForEver DEF rows, NothingInvented
<1>3. ASSUME NEW i \in Invoices, NEW next, Reported(i, next),
             \/ UNCHANGED rows
             \/ /\ status' = [status EXCEPT ![i] = next]
                /\ payments' \in {payments, payments \cup {i}}
                /\ payments' # payments => next = "paid"
      PROVE  NothingInvented'
  <2>1. \A j \in Invoices : /\ status'[j] # NoRow => Reported(j, status'[j])
                            /\ j \in payments' => Reported(j, "paid")
    BY <1>3 DEF rows, NothingInvented
  <2> QED
    BY <1>1, <2>1, ReportedForEver DEF NothingInvented
<1>4. ASSUME NEW i \in Invoices, CreateCommit(i) PROVE NothingInvented'
  <2>1. Reported(i, mapAsaasStatus(NewCharge))
    BY <1>4 DEF CreateCommit, ChargesReported
  <2> QED
    BY <1>3, <1>4, <2>1 DEF CreateCommit
<1>5. ASSUME NEW h \in Handlers, WebhookCommit(h) PROVE NothingInvented'
  <2> DEFINE e == hook[h].event
             next == paymentStatus(hook[h].seen, e.type, e.status)
  <2>1. /\ e \in sent /\ e.payment \in Invoices
        /\ hook[h].seen \in Statuses /\ hook[h].seen = status[e.payment]
    BY <1>5, LockedDelivery DEF WebhookCommit, RowInv, LockedStatusCurrent
  <2>2. next = hook[h].seen \/ Reported(e.payment, next)
    BY <2>1, PaymentStatusCases DEF Reported, Claims
  <2>3. \/ UNCHANGED rows
        \/ /\ next # hook[h].seen
           /\ status' = [status EXCEPT ![e.payment] = next]
           /\ payments' \in {payments, payments \cup {e.payment}}
           /\ payments' # payments => next = "paid"
    BY <1>5 DEF WebhookCommit, applyInvoiceStatus
  <2> HIDE DEF e, next
  <2> QED
    BY <1>2, <1>3, <2>1, <2>2, <2>3
<1>6. ASSUME NEW r \in Reconcilers, ReconcileApply(r) PROVE NothingInvented'
  <2> DEFINE i == item[r].invoice
             next == paymentStatus(item[r].seen, ReconcileType, item[r].remote)
  <2>1. /\ i \in Invoices /\ item[r].remote \in MappedStatuses
        /\ Reported(i, item[r].remote)
    BY <1>6 DEF ReconcileApply, Item, AnswersReported
  <2>2. next = item[r].seen \/ Reported(i, next)
    BY <2>1, PaymentStatusCases, ReconcileDesired
  <2>3. \/ UNCHANGED rows
        \/ /\ next # item[r].seen
           /\ status' = [status EXCEPT ![i] = next]
           /\ payments' \in {payments, payments \cup {i}}
           /\ payments' # payments => next = "paid"
    BY <1>6 DEF ReconcileApply, applyInvoiceStatus
  <2> HIDE DEF i, next
  <2> QED
    BY <1>2, <1>3, <2>1, <2>2, <2>3
<1> QED
  BY <1>2, <1>4, <1>5, <1>6, RowWriters

\* Every status and every settlement goes back to a report of the provider.
THEOREM Provenance == Spec => []NothingInvented
<1>1. Init => ProvenanceInv
  BY DEF Init, ProvenanceInv, ChargesReported, AnswersReported,
         NothingInvented, NoCharge, NoRow
<1>2. TypeOK /\ RowInv /\ ProvenanceInv /\ [Next]_vars => ProvenanceInv'
  <2> SUFFICES ASSUME TypeOK, RowInv, ProvenanceInv, [Next]_vars
               PROVE  ProvenanceInv'
    OBVIOUS
  <2> USE DEF ProvenanceInv
  <2>1. ChargesReported'
    BY ChargesStayReported
  <2>2. AnswersReported'
    BY AnswersStayReported
  <2>3. NothingInvented'
    BY NothingGetsInvented
  <2> QED
    BY <2>1, <2>2, <2>3
<1>3. ProvenanceInv => NothingInvented
  BY DEF ProvenanceInv
<1> QED
  BY <1>1, <1>2, <1>3, TypeCorrect, RowLocking, PTL DEF Spec

-----------------------------------------------------------------------------
(* Refinement. *)

\* Inserting the row is recording the invoice.
LEMMA CommitRecords ==
  ASSUME RowInv, NEW i \in Invoices, CreateCommit(i)
  PROVE  Lifecycle!Record(i)
  BY DEF CreateCommit, RowInv, RowsFromCreate, Lifecycle!Record, NoRow,
         Lifecycle!NoRow, mapAsaasStatus, NewCharge, SettledRemote,
         OverdueRemote, CancelledRemote

\* The commit of a delivery leaves the tables, or takes an accepted status.
LEMMA CommitAdvances ==
  ASSUME TypeOK, RowInv, NEW h \in Handlers, WebhookCommit(h)
  PROVE  \/ UNCHANGED rows
         \/ \E i \in Invoices : Lifecycle!Advance(i)
<1> DEFINE e == hook[h].event
           d == Desired(e.type, e.status)
<1>1. /\ e.payment \in Invoices
      /\ hook[h].seen \in Statuses
      /\ hook[h].seen = status[e.payment]
  BY LockedDelivery DEF WebhookCommit, RowInv, LockedStatusCurrent
<1>2. \/ UNCHANGED rows
      \/ /\ Accepts(status[e.payment], d)
         /\ status' = [status EXCEPT ![e.payment] = d]
         /\ payments' = IF d = "paid" /\ status[e.payment] # "paid"
                        THEN payments \cup {e.payment} ELSE payments
  BY <1>1 DEF WebhookCommit, applyInvoiceStatus, paymentStatus
<1>3. d \in MappedStatuses
  BY DesiredType
<1>4. status[e.payment] # NoRow
  BY <1>1 DEF Statuses, NoRow
<1> HIDE DEF d, e
<1>5. ASSUME ~(UNCHANGED rows)
      PROVE  Lifecycle!Advance(e.payment)
  BY <1>1, <1>2, <1>3, <1>4, <1>5
     DEF Lifecycle!Advance, Lifecycle!Become, Lifecycle!Accepts, Accepts,
         Lifecycle!MappedStatuses, MappedStatuses, Lifecycle!NoRow, NoRow
<1> QED
  BY <1>1, <1>5

\* An accepted status is a status.
LEMMA AdvanceOverwrites ==
  ASSUME NEW i \in Invoices, Lifecycle!Advance(i)
  PROVE  Lifecycle!Overwrite(i)
  BY DEF Lifecycle!Advance, Lifecycle!Overwrite

\* A reconciled item leaves the tables, or overwrites the status.
LEMMA ApplyOverwrites ==
  ASSUME TypeOK, RowInv, NEW r \in Reconcilers, ReconcileApply(r)
  PROVE  \/ UNCHANGED rows
         \/ \E i \in Invoices : Lifecycle!Overwrite(i)
<1> DEFINE i == item[r].invoice
           next == paymentStatus(item[r].seen, ReconcileType, item[r].remote)
<1>1. /\ i \in Invoices
      /\ status[i] # NoRow
  BY DEF ReconcileApply, TypeOK, Item, RowInv, RowsFromCreate, WorkOnRows
<1>2. \/ UNCHANGED rows
      \/ /\ next # item[r].seen
         /\ status' = [status EXCEPT ![i] = next]
         /\ payments' = IF next = "paid" THEN payments \cup {i} ELSE payments
  BY DEF ReconcileApply, applyInvoiceStatus
<1>3. next = item[r].seen \/ next \in MappedStatuses
  BY PaymentStatusCases, DesiredType
<1> HIDE DEF i, next
<1>4. ASSUME ~(UNCHANGED rows) PROVE Lifecycle!Overwrite(i)
  BY <1>1, <1>2, <1>3, <1>4
     DEF Lifecycle!Overwrite, Lifecycle!Become, Lifecycle!MappedStatuses,
         MappedStatuses, Lifecycle!NoRow, NoRow
<1> QED
  BY <1>1, <1>4

\* With any number of reconciliations, rows and settlements are never lost
\* and no invoice turns paid without a settlement.
THEOREM LedgerRefinement == Spec => ImplementsLedger
<1>1. Init => Lifecycle!Init
  BY DEF Init, Lifecycle!Init, NoRow, Lifecycle!NoRow
<1>2. TypeOK /\ RowInv /\ [Next]_vars =>
        [\E i \in Invoices : Lifecycle!Record(i) \/ Lifecycle!Overwrite(i)]_Lifecycle!vars
  <2> SUFFICES ASSUME TypeOK, RowInv, [Next]_vars
               PROVE  \/ \E i \in Invoices : \/ Lifecycle!Record(i)
                                            \/ Lifecycle!Overwrite(i)
                      \/ UNCHANGED rows
    BY DEF rows, Lifecycle!vars
  <2> QED
    BY RowWriters, CommitRecords, CommitAdvances, AdvanceOverwrites, ApplyOverwrites
<1> QED
  BY <1>1, <1>2, TypeCorrect, RowLocking, PTL
     DEF Spec, ImplementsLedger, Lifecycle!LedgerSpec

\* Where no reconciliation runs, deliveries in any number and any order
\* implement the life of an invoice the documentation promises.
THEOREM LifecycleRefinement ==
  ASSUME Reconcilers = {}
  PROVE  Spec => ImplementsLifecycle
<1>1. Init => Lifecycle!Init
  BY DEF Init, Lifecycle!Init, NoRow, Lifecycle!NoRow
<1>2. TypeOK /\ RowInv /\ [Next]_vars =>
        [\E i \in Invoices : Lifecycle!Record(i) \/ Lifecycle!Advance(i)]_Lifecycle!vars
  <2> SUFFICES ASSUME TypeOK, RowInv, [Next]_vars
               PROVE  \/ \E i \in Invoices : \/ Lifecycle!Record(i)
                                            \/ Lifecycle!Advance(i)
                      \/ UNCHANGED rows
    BY DEF rows, Lifecycle!vars
  <2> QED
    BY RowWriters, CommitRecords, CommitAdvances
<1> QED
  BY <1>1, <1>2, TypeCorrect, RowLocking, PTL
     DEF Spec, ImplementsLifecycle, Lifecycle!Spec

\* Where no reconciliation runs, no delayed or duplicated event undoes what
\* a committed one did.
THEOREM EventsPersist ==
  ASSUME Reconcilers = {}
  PROVE  Spec => []EventsNotUndone
<1>1. Init => EventsNotUndone
  BY DEF Init, EventsNotUndone
<1>2. TypeOK /\ RowInv /\ EventsNotUndone /\ [Next]_vars => EventsNotUndone'
  <2> SUFFICES ASSUME TypeOK, RowInv, EventsNotUndone, [Next]_vars
               PROVE  EventsNotUndone'
    OBVIOUS
  <2>1. \A i \in Invoices : /\ Rank(status[i]) \in Int
                            /\ Rank(status'[i]) \in Int
    BY TypeCorrectStep DEF TypeOK, RowStatuses, Statuses, NoRow, Rank
  <2>2. \A i \in Invoices : NoRegression(i)
    BY ForwardUnlessStale DEF StaleApply
  <2>3. ASSUME NEW e \in events' \ events
        PROVE  Rank(status'[e.payment]) >= Rank(Desired(e.type, e.status))
    <3>1. PICK h \in Handlers : WebhookCommit(h) /\ e = hook[h].event
      BY <2>3, EventWriters DEF WebhookCommit
    <3>2. /\ e.payment \in Invoices
          /\ hook[h].seen \in Statuses
          /\ hook[h].seen = status[e.payment]
      BY <3>1, LockedDelivery DEF WebhookCommit, RowInv, LockedStatusCurrent
    <3>3. status'[e.payment] = paymentStatus(hook[h].seen, e.type, e.status)
      BY <3>1, <3>2 DEF WebhookCommit, rows, applyInvoiceStatus, TypeOK
    <3> QED
      BY <3>2, <3>3, PaymentStatusAbsorbs
  <2>4. ASSUME NEW e \in events
        PROVE  Rank(status'[e.payment]) >= Rank(Desired(e.type, e.status))
    <3>1. e.payment \in Invoices
      BY DEF TypeOK, Event
    <3>2. Rank(Desired(e.type, e.status)) \in Int
      BY DesiredType DEF MappedStatuses, Rank, NoRow
    <3> QED
      BY <2>1, <2>2, <3>1, <3>2 DEF EventsNotUndone, NoRegression
  <2> QED
    BY <2>3, <2>4 DEF EventsNotUndone
<1> QED
  BY <1>1, <1>2, TypeCorrect, RowLocking, PTL DEF Spec
=============================================================================
