SPECIFICATION FairSpec
CONSTANTS
    N = 3
    Providers = {"codex", "claude"}
    MaxDisturbances = 0
INVARIANT QueuedMessagesAreSent
CHECK_DEADLOCK FALSE
