\* Two goroutines with one client: clocks applied out of order, two paths, per-path
\* mode switched on and off, and a sweep that lets the client start over.
SPECIFICATION Spec
CONSTANTS
    Clients = {a}
    Paths = {"/", "/a"}
    Callers = {g1, g2}
    Rates = {1}
    Bursts = {1}
    PerPaths = {TRUE, FALSE}
    Costs = {1}
    MaxAge = 3
    MaxLag = 1
    MaxTime = 5
SYMMETRY Symmetry
INVARIANTS SpendBounded
