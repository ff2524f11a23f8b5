SPECIFICATION Spec
CONSTANTS
    Efforts <- MCEfforts
    EffortTurns <- MCEffortTurns
    Ceiling <- MCCeiling
    TopCeiling = 3
    Reviewing <- MCReviewing
    ClassTurns <- MCClassTurns
    Extension = 1
    Window = 2
    ChatFailures = 1
    FailureWindow = 2
    TaskFailures = 2
    MaxBatch = 1
    MaxMessages = 1
INVARIANT TurnsBounded
INVARIANT HeardOnceByItsTask
PROPERTY HeardBeforeTheEnd
PROPERTY EveryTaskEnds
