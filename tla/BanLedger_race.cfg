\* Two goroutines race on one client while the configuration changes.
SPECIFICATION LedgerSpec
CONSTANTS
    Clients = {k1}
    Callers = {c1, c2}
    Afters = {2}
    TTLs = {1}
    Escs = {1}
    Lengths = {2}
    MaxAge = 1
    MaxTime = 3
    MaxStrikes = 3
    MaxBans = 2
SYMMETRY Symmetry
INVARIANTS StrikesMatchBan
PROPERTIES FreshEntryClean BanEndsOnlyBy EscalationMemory
