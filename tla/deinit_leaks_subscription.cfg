\* Failing RPCs, no subscription failure: Deinit after a failed ecEventsConnect.
CONSTANTS
    MaxBlock = 2
    ReconnectRetries = 2
    SubErrorBudget = 0
    RpcFails = TRUE
SPECIFICATION Spec
INVARIANT NoLiveSubscriptionAfterDeinit
CHECK_DEADLOCK FALSE
