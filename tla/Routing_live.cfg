\* Routing: two administrators, one row of each table, one request.
\* Lists: addresses and user agents, two requests, the reload timer and an operator who
\* edits or moves one of two source files.
SPECIFICATION MCSpec
CONSTANTS
    Upstream = {u1}
    Route = {r1}
    Policy = {p1}
    Schema = {s1}
    Admin = {h1, h2}
    PolicyRows <- MCPolicyRows
    SchemaRows <- MCSchemaRows
    MaxWrites = 2
    Seeded = {"ups", "routes"}
    None = None
    a = a
    net = net
    hash = hash
    Kind <- MCKind
    Line = {a, net, hash}
    Comment = {hash}
    Bad <- MCBad
    First = {a}
    Listed <- MCListed
    Entry <- MCEntry
    NFiles = 2
    Worker = {w1, w2}
    Ticker = Ticker
    MaxOps = 2
    MaxEdits = 1
    MaxFaults = 1
    NoActor = NoActor
INVARIANTS RefsIntact SettledLive CheckersLive FailClosed
PROPERTIES SupersededCheckersEnd Heals RequestKeeps
CHECK_DEADLOCK FALSE
