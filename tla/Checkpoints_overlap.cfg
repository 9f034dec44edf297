\* Two turns, the second possibly asked for before the first has started.
SPECIFICATION Spec
CONSTANTS
    Turns <- TwoTurns
    MaxTurns = 2
    MaxEdits = 2
    MaxTexts = 1
    MaxReverts = 0
    Endings = {"completed", "aborted"}
    Overlap = TRUE
    LiveDiff = TRUE
    GitFails = TRUE
INVARIANTS TypeOK CountsUnique AtMostOneOpenTurn SettledTurnsAreClosed CheckpointHoldsItsTurn
CHECK_DEADLOCK FALSE
