\* Failing deferred projections and catch-ups, repairs and restarts, without
\* timeouts and with a log shorter than the read limit.
SPECIFICATION Spec
CONSTANTS
    Attempts <- Day
    Commands <- MCCommands
    CommandOf <- DayOf
    Targets <- MCTargets
    Target <- MCTarget
    Plan <- MCPlan
    ReadLimit = 10
    Disturbances = {"sql", "defect", "deferred", "catchup", "repair", "crash"}
INVARIANTS ModelInStep SummariesFresh StreamInDispatchOrder RowsCoverLog
CHECK_DEADLOCK FALSE
