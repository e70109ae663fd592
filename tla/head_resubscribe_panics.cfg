\* RPCs may fail: a failed header re-subscription against spec 4.4.
CONSTANTS
    Nodes <- MC_Nodes
    Pubkeys <- MC_Pubkeys
    MaxBlock = 3
    MaxLogs = 1
    MaxChainLogs = 2
    ReconnectRetries = 2
    SubErrorBudget = 1
    RpcFails = TRUE
SPECIFICATION Spec
PROPERTY HeadResubscribeRetried
CHECK_DEADLOCK FALSE
