SPECIFICATION RedeliverySpec
CONSTANTS
    Invoices = {i1}
    Handlers = {h1, h2}
    Reconcilers = {}
    Limit = 1
    RemoteStatuses <- MCRemoteStatuses
    ProviderMoves <- DisputedMoves
    MaxMoves = 3
    NoEvent = NoEvent
    NoItem = NoItem
CHECK_DEADLOCK FALSE
PROPERTIES
    ImplementsLifecycle
    EveryEventCommitted
