SPECIFICATION Spec
CONSTANTS
    Sizes = {3}
    Chunk = 2
    Retries = 1
    NetRetries = 1
    MaxFaults = 3
    Platforms <- MCPlatforms
    ExactCaps <- MCCaps
    Available <- MCAvailable
    DailyUpload = 4
    MinShard = 1
    Days = {d1, d2}
    Accounts <- MCAccounts
    None = None
    MaxRetries = 2
    MaxPerRun = 2
    MaxKills = 1
INVARIANTS RecordedIsThere CountedOnce
PROPERTIES DaysArchived
CHECK_DEADLOCK FALSE
