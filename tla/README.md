# FluentHub verification

TLA+ models of FluentHub, their model-checking configurations and their proofs.
FluentHub is the management system of a language school: a Go API
(`src/backend`) over PostgreSQL, a React front end, and four outside services
(the Asaas payment provider, LiveKit rooms, ClamAV and a file store).

The code has few locks of its own. Nearly all of its concurrency is that of
HTTP requests, provider webhooks and a periodic job which meet in the database
at READ COMMITTED, and the rest is one in-process hub for server-sent events.
The models are therefore about transactions that interleave between their
statements, about calls to an outside service that are not part of any
transaction, and about events that are lost, repeated or late.

## 1. Inventory

Paths are relative to `src/backend/internal` unless they start with `src/`.

| Component | State | Operations | Hard behaviour | What makes it correct |
|---|---|---|---|---|
| **billing** (`billing/`) | `invoices`, `payments`, `asaas_webhook_events`, `billing_accounts`, and the charge at the provider | `Create`, `ProcessAsaasWebhook`, `Reconcile` | provider call before the row exists; duplicated, late and reordered events; a reconciliation that works on what it read before a network call; replicas | no settlement lost or invented; deliveries never move an invoice back; acknowledged events are committed; lost events are repaired |
| **assessment** (`assessment/service.go`) | attempts, answers, grades, revisions | `Start*`, `Save*Answer`, `Submit*`, `Grade*` | overlapping requests of one student (tabs, retries, autosave) and of a teacher; checks in one statement, writes in another | attempt limit; answers count as stored; a published grade changes only with a revision |
| **notifications** (`notifications/`, the `/api/v1/events` handler, `src/backend/cmd/api/main.go`) | `notifications` rows, the PostgreSQL channel, the hub's map of Go channels | `Send`, `Hub.Run`/`listen`/`dispatch`, `Subscribe`/unsubscribe, `Close` | goroutines over shared channels; full channels; reconnection; shutdown | no send on a closed channel; ordered, per user, at most once; leavers removed; shutdown drains |
| **identity** (`users/store.go`, `auth/`, `http/middleware/`) | `users`, `user_roles`, `user_sessions` | `Authenticate`, `ByToken`, `Revoke`, `ChangePassword`, `Create`, `Disable`, `Reactivate` | two administrators who disable each other; a sign-in racing a revocation | one active administrator always remains; what survives a revocation has raced it |
| **live classes** (`liveclasses/`) | `live_sessions`, `lessons`, rooms and egresses at LiveKit | `Create`, `Start`, `End`, `Join`, recording | provider call outside the transaction; lost answers; an in-memory map of egresses and its restart | session and lesson agree; an ended session had its room closed; a recording can be stopped |
| **support** (`support/service.go`) | `support_tickets`, `support_assignments`, messages | `Assign`, `AddMessage` | assignments on snapshots that do not see each other | the assignee has an open assignment; one is open at a time unless two overlapped |
| **records** (`records/service.go`) | every authored resource | create, update, `Transition` | any status to any other; status read by assessments | a resource changes status atomically with its audit row |
| **setup** (`setup/service.go`) | schools, first administrator, roles | `Complete` | two installers at once | exactly one school |
| **storage and backup** (`storage/`) | encrypted objects, archives and checksums | `Put`, `Open`, `BackupManager.Run`, `prune`, `VerifyBackup` | crash anywhere in an upload or a snapshot; lost tails; uploads during the walk; the key that shutdown overwrites | a key holds all of an upload; a read that succeeds is whole; a snapshot has what was there; one that verifies always remains |
| **scheduler** (`scheduler/`) | none | `Run` | a job longer than the interval | runs of one process never overlap; every invoice has its turn |
| **academic and attendance rules** (`academic/`, `attendance/`, `exams/model.go`) | none | `Calculate`, `Classify` | rounding, thresholds | the documented weighting and classes |
| **certificates, configuration, router, validator, front end** | none of their own | read, decode, render | none | |

How they meet: the router calls the services; billing, assessment, support and
identity write only their own tables, records changes the status of exercises and exams
that assessment reads, notifications are sent by the other services, the
scheduler runs the reconciliation and the backup, and `main.go` closes the hub
before it stops the server.

## 2. Modules

| Module | Models | Correspondence |
|---|---|---|
| `InvoiceStatus` | `paymentStatus`, `mapAsaasStatus` | operators over statuses; the priority of the statuses is `Rank` |
| `InvoiceLifecycle` | what `docs/billing.md` promises of an invoice | abstract: rows and settlements appear and stay (`LedgerSpec`), and the status only advances (`Spec`) |
| `Billing` | invoices with Asaas enabled | one action per statement boundary of the three operations (below) |
| `MCBilling` | constants of the billing runs | the moves of a boleto, with and without a dispute |
| `BillingProofs` | proofs about `Billing` | |
| `NotificationHub` | `Send`, the hub, the streams and the shutdown | one action per critical section |
| `MCNotificationHub`, `HubProofs` | its constants, its proofs | |
| `AttemptSheet` | what a student may rely on | abstract: start, answer, hand in |
| `Assessment` | one exercise or exam | one action per statement boundary |
| `MCAssessment`, `AssessmentProofs` | its constants, its proofs | |
| `Accounts` | installation, accounts, sessions | one action per statement boundary and per advisory lock |
| `SupportTicket` | a ticket and the history of its assignments | one action per statement boundary of `Assign` |
| `LiveClass` | the live session of a lesson with LiveKit | one action per read, per call of the room service, per write |
| `MCOperations` | constants of these three, and `focus` | each behaviour explores one of them |
| `AccountsProofs`, `SupportProofs`, `LiveProofs` | their proofs | |
| `OperationsProofs` | proofs about the composition | a behaviour of it is one of each component |
| `ObjectStore` | uploads, reads, the life of the process, lost tails | one action per effect on the storage |
| `StorageBackup` | the snapshots, composed with `ObjectStore` | extends it: a store step may occur between any two steps of a run |
| `MCStorage`, `StorageProofs` | its constants, its proofs | |
| `ReconcileRotation` | which invoices a reconciliation takes | the order of the rows by `provider_synced_at` as a sequence; the status rules are those of `InvoiceStatus` |
| `MCReconcileRotation` | its constants | |

The billing, notification, assessment and identity services share no rows a
property relates, so each has its own state. `MCOperations` puts three such
modules in one specification: `focus`, chosen at the start and never changed, says
which one acts, so that the states of the three add up and do not multiply.
`MCStorage` uses the same device for two families of behaviours of one module.

Operators named in a comment as `Mutant:` stand next to the definition they
alter. No specification uses them: each is a plausible mistake in that
definition, and substituting it makes a property fail.

### Billing

`CreateCharge` is the provider call of `Create`, `CreateCommit` the transaction
that follows and `CreateFail` anything that ends the call early, before or
after the charge exists. A delivery is `WebhookInsert` (the unique key of the
event; while another transaction holds it, the insert waits), `WebhookLock` (`SELECT
... FOR UPDATE` of the invoice) and `WebhookCommit`; `WebhookDuplicate`,
`WebhookNotFound` and `WebhookAbort` are its other exits. A reconciliation is
`ReconcileQuery` (the batch, with the status of each row), then per item
`ReconcileFetch` (the provider) and `ReconcileApply` (one transaction from the
status of the batch), with failures of each and a crash. `ProviderMove` is the
provider: a charge changes and an event is emitted; the events are a set from
which any may be delivered at any time, again, or never.

Abstracted: amounts, customers and texts; audit rows and run counters; `paid_at` and
`cancelled_at`; the rotation of the batch (any batch within the limit may be
read, `ReconcileRotation` says which). `CancelInvoice` is called by nobody. The mock provider has no events.

### Notifications

`SendStore`/`SendPublish` are the two statements of `Send`; `Listen`/`Unlisten`
the connection of the listener, whose `cursor` starts at the end of what was
published; `Dispatch` one event under the read lock, which skips full channels.
`Subscribe`, `Write`, `SeeClosed`, `Disconnect` and `Unsubscribe` are the
request handler; `Signal`, `HubClose` and `ServerStopped` the shutdown in `main.go`.
`unsubscribe` closes its channel between `Lock` and an `Unlock` that is not
deferred; when the channel is closed already the panic leaves
`mutex = "abandoned"`. `net/http` recovers the panic of a handler, so that ends
the request (`"panicked"`), not the process. `MarkRead` and `MarkAllRead`, one UPDATE
each, are left out.

### Assessment

One exercise or exam with its attempts. `StartLock` is the `SELECT ... FOR
UPDATE` with the checks of status and window, `StartCount` the count,
`StartCommit` the insert. An answer is saved by one statement, split at its
snapshot: `SaveRead` evaluates the `SELECT`, `SaveCommit` writes the row. A
submission is `SubmitRead` (the score of the stored answers) and `SubmitCommit`
(the UPDATE by id). `GradeRead` looks the grade up `FOR UPDATE`, which holds
the row if there is one and nothing otherwise, `GradeScore` reads the objective
score, `GradeCommit` upserts the grade and inserts the revision. `Transition`
is the records service, `Tick` the clock.

Abstracted: each objective question is worth one point and of the answers only
the set of correct ones is kept; the enrolment is active; the clock of the
process and that of the database are one; feedback and reasons are present or absent.

### Accounts

A call is one HTTP request. `InstallLock`, `InstallCheck` and `InstallCommit`
are `setup.Complete` under its advisory lock. `SignInRead` and `SignInInsert`
are the two statements of a sign-in; `Arrive` is the middleware, after which a
request acts for its user whatever happens to the account. Both transactions
that revoke sessions, `ChangePassword` and `Disable`, go through the write of
the user (which holds its row), `Sweep` (the UPDATE of the sessions committed
by then) and `RevokeCommit`; before it, `PasswordRead` compares the hash
outside the transaction, and `DisableLock` and `DisableCheck` are the advisory
lock and the count of administrators. `Create`, `Reactivate`, `Logout` and
`Expire` are one statement or one transaction nothing can disturb.

`racing` is a history: the sign-ins whose read is older than a sweep. Of the roles
only being an administrator is kept.

### Support

`AssignBegin` is the snapshot of the UPDATE that closes the open rows of the
history, `AssignClose` that UPDATE once the rows it saw are free,
`AssignTicket` the UPDATE of the ticket, which waits for its row, and
`AssignCommit` publishes all three statements. `passed` is a history: the rows
committed since the snapshot. `Move` is `records.Transition`.

### Live classes

`CreateCheck`, `CreateRoom`, `CreateCommit` are `Create`. `Load` is the read
every other operation begins with, and its test of the status. `StartWrite`,
`EndRoom`/`EndWrite`, `Join`, `RecordStart`/`RecordNote` and
`StopRead`/`StopCall`/`StopForget` follow it. A call of the room service may
take effect without its answer (`\/ Finish(r)`). `Restart` loses the requests and the
map of egresses. `Enter`, `InviteExpires` and `RoomEmptied` are LiveKit.

`Start` and `End` send two UPDATEs with parameters in one `Exec`
(`liveclasses/service.go:63,79`). The extended protocol of the driver accepts
one statement only; the model assumes that the text is run as one implicit
transaction or fails as a whole, and allows that it always fails (section 6).

### Storage and snapshots

An upload is `Receive`, `Scan`, `Seal`, `CreateTemp`, `WriteTemp`, `Publish`;
its exits are `UploadFail` and `Stop`, which leaves the temporary file. `Read`
is what a reader gets of a file under a configuration: an operator, not an
action, so that `CleanReadIsWhole` asks about every file in every state. A file
begins with the magic of the envelope (`secure.go:91`) only when it was
sealed: plaintext that happens to begin with those eight bytes is left out.
`Cut` is the medium. At this commit only the certificate renderer and the
validator call `Put`; the model takes the public operations of the store as
its inputs.

`StorageBackup` adds the scheduler (`ProcessStart`, `Tick`) and a run:
`RunBegin` lists the names, `RunVisit` copies one of them or skips a temporary
file, `RunRename`, `SumOpen` (which truncates) and `SumWrite`, then
`PruneArchive` and `PruneSum` in the order of the names. `still`, `completed` and
`reused` are histories.

### Rotation

`NextBatch` is the query; a batch keeps the statuses it has read. Three things
set `provider_synced_at` and move an invoice to the end of the queue: an
inspection that commits (`Write`), an answer that fails (`AskFails`), and a
delivery whose status is accepted (`Deliver`, through `applyInvoiceStatus`,
`service.go:199`). The last one does so without the provider having been asked,
also when the invoice stays open. A transaction that fails leaves it where it is
(`WriteFails`). `Write` applies what follows from the status of the batch: a stale
one brings a cancelled invoice back into the rotation, and a paid one back to overdue.

Abstracted: the charge, so that any status may be delivered or answered at any
time; other replicas, which would only ask more often; and that `now()` is the
begin of a transaction, not its commit: rows are in the order of their commits.

### Modelling conventions

A statement that meets the row lock or the uncommitted key of another
transaction is a disabled action. Between two statements of a transaction any
other step may occur. Statements that only this transaction could disturb, and
the commit that follows, are one step. A rollback is one step, `*Abort` or
`*Fail`, and covers errors and the end of the request's context alike. The
database is assumed to accept the statements. A history variable or field is
named so in its module; no guard reads one.

## 3. Runs

| Run | Asks | Result |
|---|---|---|
| `billing` | one invoice, two handlers, two replicas reconciling, three changes of the charge with a dispute: are settlements kept, locks sound, deliveries monotonic? | holds |
| `billing_webhooks` | no reconciliation: do deliveries implement the documented life of an invoice, and is every event committed in the end? | holds |
| `billing_repair` | webhooks may all be lost: does a settled charge reach the invoice? | holds |
| `billing_regression` | does a paid or cancelled invoice stay so when reconciliations run? | violated, see 6 |
| `hub` | streams of two users, three calls of `Send`, reconnection, capacity one, shutdown: order, closed channels, removal, stalling | holds |
| `hub_shutdown` | does every stream that `Close` has closed end? | violated, see 6 |
| `assessment` | two overlapping requests of a student and two of the teacher | holds |
| `assessment_serial` | one request of each at a time: answer sheet, revisions, components | holds |
| `operations` | accounts, assignments, live session, each with overlapping requests: one school, an administrator, what survives a revocation, ticket and history, lesson and session, recordings | holds |
| `storage` | uploads, crashes, restarts with other configurations, lost tails and snapshots: is what is stored, read and archived whole, and does one archive always verify? | holds |
| `rotation` | more open invoices than the limit, refusals, one that can never be written, deliveries that move invoices to the end: does everyone have a turn? | holds |
| `assessment_overwrite` | is a published grade never silently overwritten when calls overlap? | violated, see 6 |

Properties worth reading first: `RegressionNeedsStaleRead` (the exact condition
under which reconciliation moves an invoice back), `AckedIsCommitted` (an event
that outruns its invoice is not swallowed), `NothingInvented`,
`ImplementsLifecycle`, `ToldInOrder`, `StartedWhileOffered`,
`SilentOnlyWhenFirst` (the exact condition of a silent change of a grade),
`ImplementsSheet`, `SurvivorRaced`, `OneOpenUnlessOverlapped`,
`RunawayHasCause` (who survives a revocation, a history left ambiguous, a
recording nobody can stop: each with its only causes), `AlwaysRestorable`,
`TurnComes`.

### Bounds

* `MaxMoves` bounds the changes of a charge. Three allow paid, disputed and
  won back, the only way a charge comes back to a status it left, and at two
  moves every pair of events can be swapped.
* Two handlers and two replicas are enough for every race in the code: each
  transaction conflicts with one other over one row. `Limit` is 1 with one
  invoice; the proofs hold for any number of each.
* `Buffer = 1` makes a full channel reachable with two events; a third event is
  then delivered after one that was dropped.
* `Horizon` stops the clock after the closing time; `MaxRevisions` stops the
  teacher. In `assessment`, `MaxScore = 1` lets the sum of the components exceed
  the maximum; in `assessment_serial`, the objective score is 0 or 1, the manual
  one 1 or 2 and the maximum 2: both components of a grade can be other than 0,
  and a sum can still be refused.
  `Attempts` has one identifier more than the limit in the run that checks it.
* In `operations` two users, two calls, two tokens and two passwords: of the
  races over accounts each is between two requests, a third user would only add
  administrators. Three assignments let the third meet the trace a race of two
  left; three requests and three recordings let a stop meet two starts.
  `MaxSchools = 2` makes a second installation possible.
* In `storage`, two objects (one visited while the other changes), two chunks
  (a cut between them), a clock of two units with a retention shorter than one
  (every older archive expires; `backup.go:152` keeps all for a retention of 0,
  which the configuration cannot ask for, its least is an hour), three runs (two can be interrupted before or after a complete one)
  and four environments, one of which production must refuse.
* In `rotation`, three invoices and a limit of two, one of which can never be
  written: the smallest case in which failures could use up the batches. All
  five statuses are in play, and deliveries are bounded by nothing but
  `Accepts`: between two inspections of an invoice only a few change its status,
  which is why `TurnComes` holds although each of them costs the invoice its place.
  Invoices are finite: new ones come before all others, and a school that issued
  more than the limit between any two runs for ever would starve the rest.
* Symmetry is used for handlers, replicas, requests and attempts, in runs that
  check only invariants and action properties or safety refinements.

`CHECK_DEADLOCK FALSE` is set for billing, where everything may be settled and
delivered, for the hub, which stops after its shutdown, and for `operations`
and `storage`, where identifiers, runs and the clock are used up.

### Fairness

Liveness is checked under assumptions about the environment the code relies on.

* `HandlerProgress`: a delivery in progress comes to an end (the request has a
  context), and one that is repeated for ever does not fail for ever: weak
  fairness of the exits, strong fairness of the lock and of the commit, because
  other transactions may hold the row in between.
* `RedeliveryFairness`: Asaas redelivers what was not answered with 200.
* `ReconcileFairness`: the scheduler starts the job again and again, and
  neither the provider nor the database fails every time.
* `Fairness` of `ReconcileRotation`: the scheduler begins run after run; an
  invoice at the head is asked about, and one that can be written is written,
  if that is tried again and again: strong fairness, because a run may be
  aborted in between. That an answer is a refusal may go on for ever.
* `HubFairness`: a stream that returns runs its deferred `unsubscribe`, and the
  listener handles the events it receives. Browsers may be arbitrarily slow.
  `ShutdownSpec` adds browsers that take what is written to them, so that its
  counterexample does not rest on a slow browser.

No fairness is assumed of the creation of invoices, of the provider's changes,
of users or of shutdown.

## 4. Proofs

All theorems are checked by TLAPS for every value of the constants allowed by
the named assumptions (`ConstantsAssumption`, `HubAssumption`,
`AssessmentAssumption`, `AccountsAssumption`, `DeskAssumption`,
`StoreAssumption`, `BackupAssumption`); TLC evaluates those in every run. The
proofs about the modules of `operations` and `storage` are of their own
specifications (`Spec`, `DeskSpec`, `LiveSpec`, `BackupSpec`), which a `focus`
only restricts; for `operations`, `OperationsProofs` proves that it does.

Some theorems have a hypothesis on the constants: `Reconcilers = {}` (no
reconciliation), `OneRequest` (at most one client) or `OneTeacher` (at most one
call of the teacher). Each states what a document promises and overlap breaks:
the runs `billing_regression` and `assessment_overwrite` show the behaviours
that the hypothesis excludes, section 6 describes the others.

**Billing** (`BillingProofs`). `TypeCorrect` is inductive as it stands.
`PaidImpliesPayment` follows from it: whoever turns a row paid inserts the
settlement, unless the status it started from was paid, and a row that was ever
paid has one. `RowLocking` proves `RowInv`: a delivery that holds the lock
still sees the status it read, which needs that locks exclude each other, that
only `Create` inserts rows and that reconciliations work on rows that exist.
`LockedReadsCurrent` is its part that a run checks. Everything about the
direction an invoice moves in rests on one lemma, `ForwardUnlessStale`: a step
moves no invoice back, or applies the item of a reconciliation whose row is no
longer what the batch said (`StaleApply`), since monotonic in what was read is
monotonic in what is there. From it follow `WebhooksForward`,
`OnlyStaleRegress` (`RegressionNeedsStaleRead`), `RegressionsExplained` (the
converse: whatever regresses is such an item) and `TerminalUnlessReconciled`,
which is what `docs/billing.md` promises, under `Reconcilers = {}`.
`EventsAppliedOnce` is inductive over the types: the unique key acts as a lock
from the insertion of the event id to the commit. `AcknowledgedCommitted` adds
to `RowInv` that rows are never deleted (`RecordedForEver`). `Provenance`
strengthens `NothingInvented` to `ProvenanceInv`: each answer a reconciliation
holds and the status of each charge were announced by an event. `LedgerRefinement` and `LifecycleRefinement` map every step to a
step or a stutter of `InvoiceLifecycle`; the second one, and `EventsPersist`, assume
`Reconcilers = {}`, and the run `billing_regression` shows they need it.

**Notifications** (`HubProofs`). `TypeCorrect`; `ListenerSafe`, whose
strengthening says that a channel is closed only after its stream registered,
so that no later `Subscribe` registers a closed one; `OrderedDelivery`, where
each event a stream was told of was passed by the cursor, so that the next one
dispatched comes after all of them; `TellsStored`, since only stored
notifications are published. `OnlyShutdownPanics` bounds the exception of the
two liveness properties: `PanicInv` says that before `Hub.Close` only streams
that have returned have a closed channel, so that the mutex is abandoned only
after it, and by one stream, since nobody passes the mutex after that.

**Assessment** (`AssessmentProofs`). `TypeCorrect` needs that calls under way
are on attempts that exist. `AttemptLimit` and `OfferedWhenStarted` rest on
`LockInv`: at most one request is between `StartLock` and `StartCommit`, once
it has counted, the student's attempts stay below the limit, and the exam stays
offered. `SheetRefinement` assumes that requests do not overlap (`OneRequest`):
what a request read is then still so when it writes. `SilentOnlyFirst` rests on
`GradeInv`: a call that found a grade holds it, so what it looked up is the
score it replaces. Under `OneTeacher` a call that found no grade is still the
first when it commits (`FirstInv`); with `GradeInv` each revision then begins
with the score the one before ended with: `RevisionsChain` and
`NoSilentOverwrite`. `ComponentsSum` needs `OneRequest` too: an attempt is then
scored once (`ObjectiveStays`, from `SerialInv`), so that every call after the
submission reads the same objective score and every call before it reads 0
(`ComponentsInv`). The field `read` of a grade, a history, tells which of the
two inserted the row.

**Accounts** (`AccountsProofs`). `WellFormed` carries the types, that what a
request names goes on to exist, and the exclusion of the installation's lock;
`InstalledOnce` is part of it. `AdministratorRemains` rests on `DisableInv`:
one request disables at a time, and from its count to its commit an active
administrator other than its target exists; only that commit can take one
away. (The count itself needs a lemma on finite sets.) `OnlyRacingSurvive`
rests on `SessionInv`, which follows a session through its life: a sign-in no
sweep has met holds the current password; a session of a user whose sweep is
done is in the sweep or has raced.

**Support** (`SupportProofs`). `TicketAgrees` is inductive over the types.
`OverlapOpens` needs `Accounted`: every open row was in an assignment's
snapshot or was committed since, and past its UPDATE those of its snapshot are
its own to close.

**Live classes** (`LiveProofs`). `LessonAgrees`; `RoomClosedFirst`, since a
request that is about to store the end has seen a room that was closed before;
`RunawaysExplained`, since a recording the process has stopped is over.

**Operations** (`OperationsProofs`). A step of the composition is a step of one
component and a stutter of the others (`AccountsWithin`, `DeskWithin`,
`LiveWithin`); `OperationsTypeCorrect` and `OperationsSafe` collect what the
three promise.

**Storage** (`StorageProofs`). `StoredAlwaysSound` strengthens the invariant to
uploads under way (`StoreInv`): what waits for the rename is sound already, no
upload outlives its process, and a name and a temporary file exclude each
other. `CleanReads` follows from it. `SnapshotsHoldAll` needs the invariant of
a walk: what has been there since its beginning is copied or still to come.
`RestorableAlways` numbers the runs: a checksum under way belongs to no
archive that verified before, and while a run prunes, its own archive is of
the time of its clock and out of reach of the pruning.

## 5. Only model-checked

* Liveness (`EveryEventCommitted`, `SettlementReachesInvoice`,
  `LeaverRemoved`, `DispatchNeverStalls`, `TurnComes`): temporal properties under fairness
  are out of the prover's reach.
* `ReconcileRotation` has no theorem: it filters sequences with `SelectSeq`,
  whose recursive definition the provers cannot unfold by induction. `TurnComes`,
  its only property, is temporal besides.

Every invariant, action property and refinement of a passing run is stated by
a theorem; those of `assessment_serial` and `billing_webhooks` under the
hypotheses named above, which are how these runs are configured.

## 6. Where the code departs from what is written about it

* **A reconciliation can undo a webhook** (`billing_regression`).
  `docs/billing.md` says that paid and cancelled states cannot be regressed and
  that reconciliation applies the same monotonic rules. It applies them to the
  status read with the batch, before the provider was asked, and writes the
  result without a condition on the current one.
* **Shutdown with two open streams does not drain** (`hub_shutdown`).
  `Hub.Close` closes every channel; the streams then unsubscribe and close
  theirs again. The first panics while it holds the mutex, the others wait for
  it for ever; `Server.Shutdown` gives up after its timeout.
* **A published grade can be silently overwritten** (`assessment_overwrite`).
  Two first gradings overlap, neither finds a row to lock, and the upsert of
  the second replaces the published score of the first without a revision.

More were met while modelling and have no run of their own. An answer
that was checked before the submission can be stored after it and is then not in the
score (`docs/exams.md` says that answers are saved only while the attempt is
active; `SaveRead`, `SubmitRead`, `SubmitCommit`, `SaveCommit` in that order).
`SubmitExercise` does not look at the due date, which `docs/exercises.md`
says is enforced when submitting. An exam graded before the attempt is handed
in and again after it keeps the objective component 0 while its final score
counts the current one. That is the only exception `ComponentsAddUp` makes: every
exercise, and every exam first graded after it was handed in, has to add up,
and the others have to be off by exactly the objective score of the attempt.

Two statements may never succeed as they are written, which the model, where
every statement may fail, allows but does not claim. `Start` and `End` of a live class
(`liveclasses/service.go:63,79`) send two UPDATEs with parameters in one `Exec`,
which the extended protocol refuses: sessions would then never be live. Several audit
rows pass untyped parameters to `jsonb_build_object` (`billing/service.go:67`
for one), whose type PostgreSQL cannot infer: if it refuses them, so fails the
transaction around them.

Those of the other modules are stated as exceptions in their properties, or
are reachable in their runs:

* A sign-in that read the user before a revocation and inserts its session
  after the sweep survives it (`docs/security.md`: "Password changes and user
  disablement revoke sessions"). A disabled user cannot use that session until
  reactivated; after a password change it is valid (`SurvivorRaced`).
* Two assignments that overlap leave two open rows, which stay until the next
  one (`README.md`: "Assignment history prevents ambiguity";
  `OneOpenUnlessOverlapped`).
* `Start` does not look at the status: started after its end, a session is live
  again, its lesson too. An invitation opens the room of an ended session again
  for as long as it is valid (`EndedRoomWasClosed` speaks of `"reopened"`).
* A second `StartRecording` replaces the entry of the first, which the API can
  then no longer stop; so do a restart and a lost answer (`RunawayHasCause`).
* A sealed object cut exactly between two fields of its frames reads as
  complete (`docs/storage-security.md`: "Reads authenticate every chunk before
  returning plaintext", which they do; `CleanReadIsWhole`).
* An upload that outlives the timeout of the shutdown is sealed with a key that
  was just overwritten and cannot be read again.
* A file that disappears while a snapshot walks, a temporary one included,
  fails the run; the next one tries again. Temporary files of a process that
  was killed are never removed. Two runs that begin in the same second share a
  name (`reused`; in the model, in the same unit of the clock).
* A reconciliation counts an update before it commits.

## 7. Not modelled

The table of components in `PROJECT.json` gives each one's status.

* `academic.Calculate`, `attendance.Classify` and the models of exams and
  exercises are pure arithmetic on one value, called by no service at this
  commit.
* Certificates, the configuration's parsing, the router's decoding, the
  integration validator and the front end are I/O and presentation.
* `MarkRead`, `MarkAllRead`, `AddMessage` and the creation of most records are
  one statement with its audit row, which nothing else reads.
* Customer provisioning in `billing.Create` ends in an upsert; the last one
  wins, and each charge carries the customer it was created for.
* `CancelInvoice` is called by nobody. The mock providers keep no state. Lists
  only read.
* The migrations are modelled as far as constraints matter (unique keys, checks).

## 8. Plan

Done: every component that keeps state has its module, its runs and its
proofs; what the passing runs check, temporal properties under fairness aside,
is proved. What is left:

1. The inductive arguments inside the temporal properties, stated as safety:
   that the place of an open invoice in the rotation only improves until it is asked
   about or a delivery changes its status (which needs the queue of
   `ReconcileRotation` as an order and not as a sequence), and that a reconciliation whose read is current brings a settled
   charge to a paid invoice.
2. That each batch of `ReconcileRotation` is one that `ReconcileQuery` of
   `Billing` allows.
3. What overlapping requests of a student can still rely on: which parts of
   `ImplementsSheet` survive without `OneRequest`.
