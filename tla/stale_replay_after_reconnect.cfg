\* One subscription failure, RPCs reliable: logs still buffered in e.events when the reconnect back-fills.
CONSTANTS
    Nodes <- MC_Nodes
    Pubkeys <- MC_Pubkeys
    MaxBlock = 4
    MaxLogs = 1
    MaxChainLogs = 2
    ReconnectRetries = 2
    SubErrorBudget = 1
    RpcFails = FALSE
SPECIFICATION Spec
INVARIANT CaughtUpNotStale
CHECK_DEADLOCK FALSE
