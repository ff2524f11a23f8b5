SPECIFICATION Spec
CONSTANTS
    Files = {f1}
    NoFile = NoFile
    Cut = Cut
    CanCancel = TRUE
    CanFail = FALSE
    CanShrink = FALSE
    Edited = {}
    RepeatLimit = 3
    GuardAt = 3
    MaxBatch = 2
    MaxCalls = 3
    MaxTasks = 2
    MaxVersion = 1
    MaxUnits = 2
INVARIANT EveryCallAnswered
