SPECIFICATION FleetSpec
CONSTANTS
    Jobs = {j1, j2}
    Workers = {w1, w2}
    None = None
    JobStale = 1
    WorkerTimeout = 1
    MaxCredit = 2
    Conns = {c1, c2}
    Quick = {}
    Unsendable = {}
    MaxFaults = 1
SYMMETRY Symmetry
INVARIANTS FreshLeaseHolds SettledJobWasRun CreditCoversDone
PROPERTIES ImplementsBoard SettledStaysSettled LeaseRespected
