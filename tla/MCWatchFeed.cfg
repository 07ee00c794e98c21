SPECIFICATION FairFeedSpec
CONSTANTS
    Ids = {1, 2, 3, 4, 5}
    Marks <- AllKinds
    PageSize = 3
    MaxEntries = 4
    MaxOld = 2
    MaxKilled = 2
INVARIANTS NoGap DuplicatesBounded
PROPERTIES WatermarkMonotone EventuallyStored
