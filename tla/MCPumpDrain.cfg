SPECIFICATION PacedSpec
CONSTANTS
    Pages = 2
    MaxRetries = 1
    Sinks = {TRUE, FALSE}
    Writers = {w1, w2}
    MaxKills = 2
    Rate = 1
    Cost = 2
    Burst = 1
    MaxPermits = 1
    MaxPenalty = 1
    MaxAccrued = 3
    MaxSessions = 2
INVARIANTS HolesBuffered RereadsBounded SessionsPaced
PROPERTIES Drained
