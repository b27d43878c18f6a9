SPECIFICATION FairSpec

CONSTANTS
    p1 = p1
    Playlists = {p1}
    ContextPerRun = FALSE
    MaxChecks = 3
    MaxEvents = 3
    MaxChanges = 3
    MaxCrashes = 2
    None = None

INVARIANT
    HealthInv

PROPERTIES
    HealthSettles
    HomeCatchesUp
    AgreementLasts
    KeepsRegister
