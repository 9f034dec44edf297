\* One revert, requested at any time, against two turns sent one after the other.
SPECIFICATION Spec
CONSTANTS
    Turns <- TwoTurns
    MaxTurns = 2
    MaxEdits = 1
    MaxTexts = 1
    MaxReverts = 1
    Endings = {"interrupted", "exited"}
    Overlap = FALSE
    LiveDiff = TRUE
    GitFails = FALSE
INVARIANTS CheckpointsAreRestorable BaselinePrecedesTurn
CHECK_DEADLOCK FALSE
