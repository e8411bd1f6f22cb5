SPECIFICATION ServicesSpec
CONSTANTS
    None = None
    Projects = {p, q}
    Slots = {s1, s2}
    MaxCalls = 2
    MaxAsks = 1
    MaxGeneration = 2
    Logins = {l1, l2}
    Terms = {t1, t2, t3}
    MaxSessions = 2
    Threads = {c}
    TurnIds = {u1, u2}
    Convs = {a, b, d}
    Inventories = {p}
    Roots = {r}
    MaxRoots = 8
    Scans = {scan1, scan2}
    MaxProgress = 1
    MaxSkills = 1
    Items = {i}
    Limit = 3
    MaxText = 2
    MaxOutput = 5
    Source = source
    Target = target
    MaxEdits = 1
    MaxDiscards = 2
    MaxDiscarded = 2
    MaxStash = 1
    Habits = {}
    StateChannels = {runtime}
    AgentChannel = agent
    MaxPages = 2
    MaxChanges = 1
    MaxChunks = 2
    MaxWire = 2
    Branches = {b1, b2}
    Bases = {b1, main}
    MaxOpen = 2
    MaxUpdateCalls = 4
    MaxFiles = 2
    MaxSize = 2
    MaxTokens = 1
    TokenTTL = 2
    MaxClock = 2
    Urls = {x, y}
    MaxViews = 2
    MaxLoads = 3
    Day = 5
    MaxOffset = 2
    Change = 5
    Start = 2
    End = 9
    Zones <- MCZones
    Rules <- MCRules
    NextWall <- MCNextWall
    WallTimes <- MCWallTimes
    Never = Never
    MaxQueued = 1
    Trees = {t1, t2}
    Chats = {c}
    MaxLines = 4
    MaxCrashes = 3
    MaxBytes = 1
    RetainedFiles = 2
    Instances = {i1, i2}
    LastVersion = 2
    ApiKeys = {k1}
    EnvKey = NoKey
    NoKey = NoKey
    MaxKeyCalls = 2
    Targets = {f}
    NoTarget = NoTarget
    MaxPermissionOptions = 3
    MaxListed = 1
    MaxEntries = 2
    LastRelease = 2
    Binaries = {b1, b2}
    NoFile = NoFile
    MaxAbandoned = 1
    Models = {"deepseek-v4-flash", "deepseek-v4-pro"}
    Tariff <- MCTariff
    ObservedAt = {15, 16, 25, 28, 33, 34}
    PeakStart = 16
    MaxReported = 1
    MaxReports = 2
    Shells = {h1, h2}
    Chunks = {x, y}
    MaxTail = 1
    NoShell = NoShell
    GoalCalls = {g1, g2}
    MaxGoalChanges = 3
SYMMETRY
    SameNames
VIEW
    PickedState
INVARIANTS
    ServicesTypeOK
    ExistingWallTimeIsHit
    LoginIsOfThisEngine
    ProcessesAreAccountedFor
    EngineCanBeAnswered
    NoPhantomTurn
    ConversationIsKept
    AnswersReachTheirRequest
    OneScanAtATime
    NoUnwantedCost
    TriageNeverAhead
    NoSilentLoss
    DiscardsAreRecoverable
    WindowIsCurrent
    OnePullRequestPerBranch
    PhaseFollowsUpdater
    ResponseIsThePreview
    PanelShowsThePage
    LatestLinesAreKept
    StoredDataIsInForce
    GrantIsWhatWasShown
    ScansRunWholeRuntime
    EstimateCoversUse
    ScreenShowsSession
    GoalShownIsHeld
PROPERTY
    WorktreeWorkIsKept
CHECK_DEADLOCK FALSE
