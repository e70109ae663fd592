\* A reliable client: Deinit's wg.Wait against spec 5 / scenario 6.
CONSTANTS
    MaxBlock = 2
    ReconnectRetries = 2
    SubErrorBudget = 0
    RpcFails = FALSE
SPECIFICATION Spec
INVARIANT DeinitWaitsForIngestor
CHECK_DEADLOCK FALSE
