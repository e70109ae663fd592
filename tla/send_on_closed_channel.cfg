\* One subscription failure: a reconnect racing Deinit.
CONSTANTS
    MaxBlock = 2
    ReconnectRetries = 2
    SubErrorBudget = 1
    RpcFails = FALSE
SPECIFICATION Spec
INVARIANT NoSendOnClosedChannel
CHECK_DEADLOCK FALSE
