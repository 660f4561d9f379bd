SPECIFICATION Spec
CONSTANTS
    Invoices = {i1}
    Handlers = {h1}
    Reconcilers = {r1}
    Limit = 1
    RemoteStatuses <- MCRemoteStatuses
    ProviderMoves <- BoletoMoves
    MaxMoves = 3
    NoEvent = NoEvent
    NoItem = NoItem
CHECK_DEADLOCK FALSE
PROPERTIES
    TerminalStatesStay
