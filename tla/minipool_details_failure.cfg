\* Subscriptions reliable, RPCs may fail: a failed GetMinipoolDetails in handleMinipoolEvent.
CONSTANTS
    Nodes <- MC_Nodes
    Pubkeys <- MC_Pubkeys
    MaxBlock = 3
    MaxLogs = 1
    MaxChainLogs = 2
    ReconnectRetries = 2
    SubErrorBudget = 0
    RpcFails = TRUE
SPECIFICATION Spec
INVARIANT IndexMatchesChain
CHECK_DEADLOCK FALSE
