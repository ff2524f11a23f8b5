SPECIFICATION Spec
CONSTANTS
    MaxRequests = 1
    MaxCommands = 1
    MaxLists = 1
INVARIANT RepliesShowTheirChoices
CHECK_DEADLOCK FALSE
