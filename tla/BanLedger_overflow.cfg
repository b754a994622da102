\* One client that is struck again and again, under an escalation of thirty doublings.
SPECIFICATION LedgerSpec
CONSTANTS
    Clients = {k1}
    Callers = {c1}
    Afters = {1}
    TTLs = {1}
    Escs = {30}
    Lengths = {}
    MaxAge = 1
    MaxTime = 1
    MaxStrikes = 27
    MaxBans = 27
INVARIANTS BanTimeFits
