SPECIFICATION Spec
CONSTANTS
    Requests = {1, 2, 3}
    Slice = {1, 2}
    Keys = {1, 2, 3}
    Contents = {1, 2}
    MaxAttempts = 2
    Tasks = {t1, t2}
    None = None
    MaxKills = 1
INVARIANTS DoneResolves
PROPERTIES ImplementsFrontier ReopenedOnlyLate RequestsSettle
CHECK_DEADLOCK FALSE
