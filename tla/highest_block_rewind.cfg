\* A reliable client: highestBlock against spec 4.2 "never decreased".
CONSTANTS
    Nodes <- MC_Nodes
    Pubkeys <- MC_Pubkeys
    MaxBlock = 4
    MaxLogs = 1
    MaxChainLogs = 2
    ReconnectRetries = 2
    SubErrorBudget = 0
    RpcFails = FALSE
SPECIFICATION Spec
PROPERTY HighestBlockMonotonic
CHECK_DEADLOCK FALSE
