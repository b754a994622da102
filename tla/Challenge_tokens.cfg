\* Challenge: two handlers of one client, the sweeper and the operator, every setting.
\* LiveConfig: two saves at a time, four files, restarts anywhere.
SPECIFICATION MCSpec
CONSTANTS
    Clients = {a}
    Nonces = {n1}
    Goroutines = {g1, g2}
    Modes = {"detect", "attack"}
    Captchas = {TRUE, FALSE}
    TokenTTL = 1
    MaxLag = 0
    MaxTime = 3
    MaxStrikes = 1
    None = None
    Saver = {g1, g2}
    Files <- MCFiles
    Bodies <- MCBodies
    Feeds <- MCFeeds
    Attested = FALSE
    Rules = FALSE
    MaxSaves = 3
    Absent = Absent
SYMMETRY Symmetry
INVARIANTS SingleUse FailureRemembered EnginesFollow TrustComplete RestartKeeps
PROPERTIES FailureEscalates
