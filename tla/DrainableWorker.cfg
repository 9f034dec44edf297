\* Every interleaving of three enqueues and two drains, with a process that may
\* fail and a scope that may close at any time.
SPECIFICATION FairSpec
CONSTANTS
    Items = {i1, i2, i3}
    Drainers = {d1, d2}
    Faults = {"fail", "stop"}
INVARIANTS TypeOK CounterIsExact DrainCoversEarlierItems
PROPERTIES DrainReturns
CHECK_DEADLOCK FALSE
