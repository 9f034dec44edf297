\* Every call is answered and every dirty projection caught up, as long as the
\* process lives and the catch-up itself succeeds.
SPECIFICATION FairSpec
CONSTANTS
    Attempts <- Retry
    Commands <- MCCommands
    CommandOf <- RetryOf
    Targets <- MCTargets
    Target <- MCTarget
    Plan <- MCPlan
    ReadLimit = 10
    Disturbances = {"timeout", "sql", "defect", "receipt", "reconcile", "deferred"}
PROPERTIES DispatchIsAnswered 
CHECK_DEADLOCK FALSE
