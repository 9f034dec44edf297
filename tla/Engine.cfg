\* Two rival creations and a retried turn start: interruptions at any point,
\* failures, repairs and restarts; the events and the receipts can be re-read.
SPECIFICATION Spec
CONSTANTS
    Attempts <- Rivals
    Commands <- MCCommands
    CommandOf <- RivalsOf
    Targets <- MCTargets
    Target <- MCTarget
    Plan <- MCPlan
    ReadLimit = 10
    Disturbances = {"timeout", "sql", "defect", "deferred", "catchup", "repair", "crash"}
INVARIANTS TypeOK ReceiptsMatchLog AcceptedIsDurable RefusedLeavesNoTrace
    LogIsLegal ModelMissesNothing StreamIsComplete StreamHasNoGap
PROPERTIES ReceiptsAreFinal ImplementsService
CHECK_DEADLOCK FALSE
