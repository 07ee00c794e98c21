SPECIFICATION CatalogSpec
CONSTANTS
    Shards = 2
    Datasets = {d1}
    Homes = {a1, a2}
    Absent = Absent
    Legacy = 0
    MaxUpserts = 3
    MaxDeaths = 0
    MaxBackups = 0
    MaxLosses = 0
PROPERTIES AccountKept
CHECK_DEADLOCK FALSE
