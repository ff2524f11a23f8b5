SPECIFICATION Spec
CONSTANTS
    MaxRetries = 3
    MalformedLimit = 1
    NoOutcome = NoOutcome
    MaxTokens = 2
    MaxChats = 2
    MaxInt = 3
    Numbers <- MCNumbers
    CacheMin = 2
    Indexes = {0, 1}
    RescueCap = 2
    MaxFrames = 3
    Models = {m1, m2}
    Usages <- MCUsages
    Block = 1
    RingCap = 2
    MaxRecords = 2
    MaxEvents = 1
    MaxTasks = 2
    OutputLimit = 2
    ToolNames = {"run_shell", "read"}
    MaxPieces = 2
    MaxTools = 2
    MaxSteers = 1
    Servers = {docs, web}
    NewServer = web
    Callers = {main}
    Versions = {1}
    MaxRefreshes = 1
    MaxCalls = 2
    MaxToggles = 1
INVARIANT ShownEndsWithReply
INVARIANT EmissionsNeverGoBack
INVARIANT UsageAddsUp
INVARIANT ReportsAgree
INVARIANT OrderKept
INVARIANT ToolsAreLive
PROPERTY EveryChatReturns
PROPERTY EveryRecordShown
PROPERTY EveryShellReturns
PROPERTY NoTextStranded
PROPERTY EveryMCPCallReturns
PROPERTY OneReplySpec
CHECK_DEADLOCK FALSE
