SPECIFICATION CatalogSpec
CONSTANTS
    Shards = 2
    Datasets = {d1}
    Homes = {a1}
    Absent = Absent
    Legacy = 2
    MaxUpserts = 3
    MaxDeaths = 1
    MaxBackups = 2
    MaxLosses = 1
INVARIANTS MergedViewsAgree MainNeverOvercounts
PROPERTIES MainRepaired
CHECK_DEADLOCK FALSE
