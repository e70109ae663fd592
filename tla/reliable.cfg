\* A reliable execution client: no subscription or RPC ever fails.
CONSTANTS
    Nodes <- MC_Nodes
    Pubkeys <- MC_Pubkeys
    MaxBlock = 3
    MaxLogs = 2
    MaxChainLogs = 3
    ReconnectRetries = 2
    SubErrorBudget = 0
    RpcFails = FALSE
SPECIFICATION Spec
INVARIANT TypeOK
INVARIANT IndexMatchesChain
INVARIANT NoOrphanMinipool
PROPERTY EventuallyConsistent
PROPERTY ImplementsOracle
\* The chain stops at MaxBlock and the goroutine then waits in select.
CHECK_DEADLOCK FALSE
