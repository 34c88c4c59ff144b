SPECIFICATION FairSpec
CONSTANTS
    None = None
    CacheSize = 1
    KlineTtl = 1
    MaxRetries = 1
    PageSize = 3
    Server = {"w1"}
    NRequests = 4
    Keys = {"k"}
    RateMax = 2
    RateWindow = 2
    MaxWait = 1
    IdemTtl = 2
    IdemMax = 1
    UseRedis = FALSE
    MaxTime = 4
    MaxRestarts = 1
    MaxFaults = 1
    Proc = {"w1", "w2"}
    Thread <- MCThread
    MaxListing = 2
    MaxInode = 6
    MaxGets = 1
    Parts = {"limit", "analyze", "symbols", "feeds", "chat", "events"}
    AnalyzeTime = 3
    Candle = 4
    History = 7
    Starts = {0, 3, 4, 9}
    Ends = {4, 11, 12, 24, 30}
    Symbol = {"S1", "S2"}
    Asked <- MCAsked
    Prices = {1, 2}
    Run = {"r1", "r2"}
    Failing = {"r2"}
    Titled = {}
    Backends = {"redis", "supabase"}
    EventLimit = 2
    MaxEvents = 6
    MaxStoreFaults = 1
INVARIANTS
    LimiterSound
    CachesHonest
    FeedsComplete
    ChatKept
PROPERTY
    RefreshEnds
CHECK_DEADLOCK FALSE
