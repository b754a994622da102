\* One proxy and the hub: three entries against a ledger of two, a pull of one, a memory of
\* two ids and a queue of one; entries live for one tick or for two.
CONSTANTS
    p1 = p1   k1 = k1  u1 = u1  x1 = x1  NoKey = noKey  Hub = hub
    Peers <- MCPeers
    Keys <- MCKeys
    Binds <- MCBinds
    UAs <- MCUAs
    BadIPs <- MCBadIPs
    TTLs <- MCTTLs
    BanTTLs <- MCBanTTLs
    ReportTTL = 1
    QueueMax = 1  SeenMax = 2  LedgerMax = 2
    PullLimit = 1  ListMax = 3  ListDefault = 1  FeedSlack = 2
    FeedLen = 2  MaxRev = 3   MaxNow = 1  MaxEvents = 1
SPECIFICATION MCSpec
INVARIANTS Covered
PROPERTIES LiftedStays
CHECK_DEADLOCK FALSE
