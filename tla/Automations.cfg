\* Two runs from a pass or by hand, and one edit, cancel, delete, message of the
\* user, failure or crash at any point.
SPECIFICATION Spec
CONSTANTS
    N = 2
    MaxSlots = 1
    Caps = {1, 2}
    StopOnError = FALSE
    Workers = {w1}
    MaxDisturbances = 1
INVARIANTS TypeOK OneRunAtATime SlotIsSentOnce
PROPERTIES StaleCheckStopsNothing
\* states that differ in the names of moments are one
VIEW View
