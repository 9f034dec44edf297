\* A pass listed the automation before the stop check disabled it.
SPECIFICATION Spec
CONSTANTS
    N = 2
    MaxSlots = 1
    Caps = {0}
    StopOnError = FALSE
    Workers = {w1}
    MaxDisturbances = 0
PROPERTIES NoHeartbeatAfterStop
