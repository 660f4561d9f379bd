SPECIFICATION Spec
CONSTANTS
    Invoices = {i1}
    Handlers = {h1, h2}
    Reconcilers = {r1, r2}
    Limit = 1
    RemoteStatuses <- MCRemoteStatuses
    ProviderMoves <- DisputedMoves
    MaxMoves = 3
    NoEvent = NoEvent
    NoItem = NoItem
CHECK_DEADLOCK FALSE
SYMMETRY Symmetry
INVARIANTS
    TypeOK
    PaidHasPayment
    NothingInvented
    LockedStatusCurrent
    AppliedOnce
    AckedIsCommitted
PROPERTIES
    WebhooksNeverRegress
    RegressionNeedsStaleRead
    ImplementsLedger
