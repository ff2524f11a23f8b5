SPECIFICATION Spec
CONSTANTS
    Files = {f1}
    NoFile = NoFile
    Cut = Cut
    CanCancel = TRUE
    CanFail = TRUE
    CanShrink = TRUE
    Edited = {f1}
    RepeatLimit = 2
    GuardAt = 2
    MaxBatch = 2
    MaxCalls = 3
    MaxTasks = 2
    MaxVersion = 1
    MaxUnits = 2
INVARIANT WireWellFormed
INVARIANT AnsweredOnce
INVARIANT DuplicatesAreFresh
