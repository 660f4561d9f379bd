SPECIFICATION RepairSpec
CONSTANTS
    Invoices = {i1}
    Handlers = {h1}
    Reconcilers = {r1, r2}
    Limit = 1
    RemoteStatuses <- MCRemoteStatuses
    ProviderMoves <- BoletoMoves
    MaxMoves = 2
    NoEvent = NoEvent
    NoItem = NoItem
CHECK_DEADLOCK FALSE
PROPERTIES
    SettlementReachesInvoice
