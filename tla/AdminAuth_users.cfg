\* Two users, two requests in flight, a lock after two failures.
SPECIFICATION Spec
CONSTANTS
    User = {u1, u2}
    Token = {t1}
    Handler = {h1, h2}
    MaxFailures = 2
    MaxOps = 2
    MaxPw = 1
    None = None
SYMMETRY Symmetry
INVARIANTS OwnersSafe GuessBound PasswordRevokes
