\* A reliable client: the fee recipient of a minipool of a node registered after the snapshot.
CONSTANTS
    Nodes <- MC_Nodes
    Pubkeys <- MC_Pubkeys
    MaxBlock = 4
    MaxLogs = 1
    MaxChainLogs = 2
    ReconnectRetries = 2
    SubErrorBudget = 0
    RpcFails = FALSE
SPECIFICATION Spec
INVARIANT FeeRecipientNeverZero
CHECK_DEADLOCK FALSE
