\* One run, launched by a pass or by hand, and any two disturbances: whatever
\* becomes of it, it settles, and so does the stop check it leaves owing.
SPECIFICATION FairSpec
CONSTANTS
    N = 1
    MaxSlots = 1
    Caps = {0}
    StopOnError = TRUE
    Workers = {w1}
    MaxDisturbances = 2
PROPERTIES RunsSettle StopChecksSettle
