\* One subscription failure, RPCs reliable: the indices after a reconnect.
CONSTANTS
    Nodes <- MC_Nodes
    Pubkeys <- MC_Pubkeys
    MaxBlock = 4
    MaxLogs = 2
    MaxChainLogs = 2
    ReconnectRetries = 2
    SubErrorBudget = 1
    RpcFails = FALSE
SPECIFICATION Spec
INVARIANT IndexMatchesChain
CHECK_DEADLOCK FALSE
