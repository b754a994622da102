\* GuardSlots: three requests, two clients, the sweeper at work, one counter swept.
\* Trackers: five requests or failed challenges of one client over two windows, two
\* at a time, with clocks applied out of order, and a sweep.
SPECIFICATION MCSpec
CONSTANTS
    Requests = {r1, r2, r3}
    Keys = {k1, k2}
    Cells = {1, 2, 3, 4}
    Globals = {2}
    PerClient = {1}
    Switch = {TRUE}
    MaxSweeps = 1
    Visitors = {v1}
    Callers = {g1, g2}
    Visits <- MCVisits
    Settings <- MCSettings
    Statuses = {404, 302}
    Follows <- OnePageOn
    Forum = {"/p/1"}
    Forge = {"/p/1"}
    BlockScore = 2
    Window = 1
    MaxAge = 2
    MaxLate = 1
    MaxClock = 3
    MaxEvents = 5
    NoPath = NoPath
SYMMETRY Symmetry
INVARIANTS CountsExact LimitsHold WindowsHold
