\* Deinit at any point, two subscription failures, failing RPCs.
CONSTANTS
    MaxBlock = 3
    ReconnectRetries = 2
    SubErrorBudget = 2
    RpcFails = TRUE
SPECIFICATION Spec
INVARIANT TypeOK
INVARIANT DrainedOnExit
PROPERTY DeinitReturns
\* Init may fail, the reconnect loop may panic, and the goroutine exits.
CHECK_DEADLOCK FALSE
