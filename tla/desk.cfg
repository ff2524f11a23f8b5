SPECIFICATION Spec
CONSTANTS
    Lexemes = {"rm", "git", "commit", "env", "sh", "-c", "-rf", "-f", "file", "|", "$(", "'", ">", "/dev/null"}
    MaxCommand = 4
    Letters = {"x", "y", "sp", "dash", "lf", "crlf"}
    Texts <- MCTexts
    Edits <- MCEdits
    DiffTargets <- MCDiffTargets
    MaxChanges = 1
    Durable = TRUE
    MaxToggles = 2
    Paths = {"p", "q", "out"}
    Outside = {"out"}
    Protected = {}
    Contents = {"a", "b", "big"}
    Foreign = {"a"}
    Targets = {"b"}
    InitialDisks <- MCDisks
    Big = "big"
    Absent = "absent"
    MaxPatch = 2
    MaxCalls = 2
    MaxExternal = 1
    Sessions = {s1, s2}
    First = s1
    NoSession = NoSession
    Stored <- MCStored
    RecentLimit = 2
    PageLimit = 2
    MaxPrompts = 2
    MaxSwitches = 2
    MaxAnswers = 1
    MaxRequests = 2
    MaxCommands = 3
    MaxLists = 2
    Blocks = {"log", "book"}
    Oversized = {"book"}
    Typed = "typed"
    Cut = "cut"
    Label = "label"
    MaxParts = 2
    MaxPastes = 3
    MaxSent = 2
    CanShortWrite = TRUE
    CanFailSync = TRUE
    CanLosePower = TRUE
    MaxAppends = 4
    MaxLives = 2
    Kinds <- MCKinds
    Budget = 6
    KeepFull = 1
    MinBatch = 1
    KeepUnits = 1
    MaxMessages = 4
    MaxRewrites = 2
    MaxStarts = 1
    Docs = {"instructions", "memory"}
    Instructions = "instructions"
    DocTexts = {"v1", "v2", "secret"}
    Unloadable = {"secret"}
    Beginning <- MCBeginning
    Nothing = "nothing"
    Unknown = Unknown
    MaxEdits = 2
    MaxTasks = 3
    MaxOpens = 3
    MaxTroubles = 1
    Processes = {p1, p2}
    Topics = {"t"}
    Facts <- MCFacts
    Legacy <- MCLegacy
    NoTopic = "index"
    NoLine = NoLine
    TopicLimit = 1
    MaxOps = 3
    MaxFaults = 1
    ListPlaces = {"root", "games"}
    Root = "root"
    Checklists <- MCChecklists
    MaxWrites = 3
    MaxBuilds = 1
    SkillNames = {1, 2}
    Roots = {1, 2}
    Shelves <- MCShelves
    SkillLimit = 1
    KeepPrompts = 1
    MaxPutOn = 1
    MaxReads = 3
    MaxSkillTasks = 2
    MaxCompactions = 1
    MaxInstalls = 1
    Batches = {1, 8}
    LineCounts = {0, 40}
    RepoCounts = {0}
    MaxSteps = 2
    Apps = {"p1", "p2"}
    Labels = {"a", "A", "b", "B", "own"}
    Listings <- MCListings
    Rank <- MCRank
    M3Labels = {"b"}
    NoModel = ""
    MaxListings = 2
    MaxSets = 2
    McpServers = {"docs", "web"}
    Managers = {"here", "cli"}
    MaxJobs = 3
    MaxGrants = 3
INVARIANT GatesAgree
INVARIANT ChangesAreExact
INVARIANT EveryChangeConsented
INVARIANT RewindIsExact
INVARIANT ScreenIsTrue
INVARIANT AskedIsVisible
INVARIANT AckedReadBack
INVARIANT ReclaimIsSafe
INVARIANT ContextIsTrue
INVARIANT AtHandIsTrue
INVARIANT ReviewFollowsChange
INVARIANT CatalogIsKept
INVARIANT SecretsAreCurrent
PROPERTY PatchAllOrNothing
PROPERTY RequestsExtend
CHECK_DEADLOCK FALSE
