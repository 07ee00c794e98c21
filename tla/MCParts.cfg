SPECIFICATION PartsSpec
CONSTANTS
    Days = {1, 2}
    Callers = {c1, c2}
    Sources = {"aws", "binance"}
    MaxGb = 2
    MaxCalls = 3
    MaxCrashes = 2
    Newest = 3
    MaxJobs = 3
    MaxDeaths = 1
    Parts = {1, 2}
    MaxRuns = 2
    Kinds = {"aws", "binance", "compute", "bench", "probe"}
    Jobs = {1, 2, 3}
    RefOf <- MCRefOf
    Threads = {t1, t2}
    Keep = 2
    NoFile = NoFile
    Torn = Torn
    MaxRefreshes = 1
    MaxRestarts = 1
    Procs = {"api", "run"}
    Api = "api"
    Handlers = {"callback", "quotas", "plan"}
    ProcOf <- MCProcOf
    Accts = {t1, t2}
    Nonces = {n1, n2}
    None = None
    Spent = Spent
    MaxKilled = 1
    Files = {1, 2, 3}
    Threshold = 2
    Seconds = 3
    MaxStops = 1
    Users = {t1, t2}
    Keys = 2
    Rest = 3
    MaxAttempts = 2
    MaxTime = 3
    MaxAsks = 2
    Platforms <- MCPlatforms
    ExactCaps <- MCCaps
    DailyUpload = 2
    MinShard = 2
SYMMETRY Symmetry
INVARIANTS ReportsHonest JobsTracked AccountsSafe WatchdogSafe KeysShared PlanSound
PROPERTIES FilesWhole
CHECK_DEADLOCK FALSE
