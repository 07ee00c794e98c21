SPECIFICATION FairFleetSpec
CONSTANTS
    Jobs = {j1, j2, j3}
    Workers = {w1}
    None = None
    JobStale = 1
    WorkerTimeout = 1
    MaxCredit = 3
    Conns = {c1, c2}
    Quick = {j1, j2, j3}
    Unsendable = {j1, j2}
    MaxFaults = 1
PROPERTIES QuickJobsSettle
