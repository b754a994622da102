\* A source and a destination, one migrating route, two admin requests at a time.
SPECIFICATION Spec
CONSTANTS
    Proxy = {source, destination}
    From = source
    To = destination
    Route = {r1}
    Worker = {w1, w2}
    MaxOps = 2
    MaxCfg = 1
    MaxFaults = 1
    None = None
SYMMETRY Symmetry
INVARIANTS Converged ColdStart  RouteKept
