SPECIFICATION Spec

CONSTANTS
    Media <- MCMedia
    UrlOf <- MCUrlOf
    IdOf <- MCIdOf
    Offers <- FullOffers
    Null = Null
    Down <- Failure
    None = None
    a1 = a1
    a2 = a2
    b1 = b1
    MaxId = 2
    Existing = 2
    Urls = {u1}
    Handlers = {h1}
    Clients = {c1}
    DialogUsers = {c1}
    ContextPerRun = FALSE
    MaxPending = 1
    MaxChanges = 0
    MaxCrashes = 0

PROPERTIES
    ReportsAreOnThePlaylist
