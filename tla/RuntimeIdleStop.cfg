SPECIFICATION Spec
CONSTANTS
    Others = {o1}
    MaxCalls = 5
    MaxSurprises = 2
INVARIANT IdleRuntimeIsTimed
PROPERTY NoWorkIsStopped
\* the callers may have called as often as they will
CHECK_DEADLOCK FALSE
