\* Every kind of request, three configurations and two routing tables that alternate.
SPECIFICATION Spec
CONSTANTS
    Requests = {r1}
    Clients = {c1}
    Facts <- Arrivals
    Configs <- AllConfigs
    Tables <- TwoRoutes
INVARIANTS ClearanceEnforced AccessEnforced HostileNotServed DenialsRecorded
