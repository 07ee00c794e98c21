SPECIFICATION Spec
CONSTANTS
    Procs = {mcp, api}
    Gates = {mcp}
    Admins = {api}
    Keys = {1, 2}
    Owner <- OneUser
    None = None
    Torn = Torn
    Quota = 1
    Rate = 1
    MinutesPerDay = 2
    MaxNow = 3
    MaxWrites = 8
    MaxKills = 1
INVARIANTS GrantsBounded UsersKept
PROPERTIES DisabledRefused
CHECK_DEADLOCK FALSE
