\* An unreliable client: one subscription failure and failing RPCs.
CONSTANTS
    Nodes <- MC_Nodes
    Pubkeys <- MC_Pubkeys
    MaxBlock = 3
    MaxLogs = 2
    MaxChainLogs = 2
    ReconnectRetries = 2
    SubErrorBudget = 1
    RpcFails = TRUE
SPECIFICATION Spec
PROPERTY ReconnectTerminates
\* Init may fail and the reconnect loop may panic: the process stops.
CHECK_DEADLOCK FALSE
