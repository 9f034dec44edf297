SPECIFICATION FairSpec
CONSTANTS
    N = 3
    Providers = {"codex", "claude"}
    MaxDisturbances = 2
INVARIANTS TypeOK EachMessageInOnePlace PromotedInOrder NoPhantomTurn
PROPERTY WorkSettles
\* the users may have sent all they will send, and the turns have ended
CHECK_DEADLOCK FALSE
