CONSTANTS
    A = A
    B = B
    C = C
    Both = Both
    None = None
    Late = Late
    Short = Short
    Garbage = Garbage
    Endless = Endless
    NoFlare = NoFlare
    NoLimit = NoLimit
    Flare <- MCFlare
    Board <- MCBoard
    Result <- MCResult
    Configs <- MCConfigs
    Limit <- MCLimit
    FactorNum = 1
    FactorDen = 2
    StartBoard = 1
    EndBoard = 7
    BoardNumStep = 2
    Iters <- MCIters
    Threads = 3
    PlanErrors <- EitherPlan
    Children = 3
    MaxEvents = 4
    BufferInts = 4
    PerBoardLimit = 100
    Spots <- MCSpots
    Dealt <- MCDealt
    Derived <- MCDerived
    Won <- MCWon
    CacheRoom = 2
    DeltaLimit = 3
    MaxRuns = 3
    Layouts <- MCLayouts
    FirstLayout = "a1"
    WonLayout = "won"
    Derives <- Chained
    Fingerprint <- MCFingerprint
    FccDepth <- MCFccDepth
    Workers <- MCWorkers
    KilledIn = {"solving", "sorting", "merging"}
    MaxKills = 2
    Games <- MCGames
    Orders <- MCOrders
    Preludes <- MCPreludes
    MaxFreecells = 8
    MaxStacks = 13
    MaxDecks = 1
    MaxScans = 4
    Lines <- MCLines
    Tools <- MCTools
    Numbers <- MCNumbers
    Commas <- MCCommas
    Undigited <- MCUndigited
    Lists <- MCLists
    Spelling <- MCSpelling
    Texts <- MCTexts
    NoDir = NoDir
    PresetFiles <- MCPresetFiles
    Dashed = {"--huh"}
    EarlierCalls <- MCEarlierCalls
    Levels <- MCLevels
SPECIFICATION FrontSpec
INVARIANTS
    AnswersTrue
    RangeExact
    WalkExact
    SplitExact
    AsConfigured
PROPERTIES
    ProgramsEnd
\* The programs end.
CHECK_DEADLOCK FALSE
