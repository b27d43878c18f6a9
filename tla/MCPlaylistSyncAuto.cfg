SPECIFICATION FairSpec

CONSTANTS
    Media <- MCMedia
    UrlOf <- MCUrlOf
    IdOf <- MCIdOf
    Offers <- MCOffers
    Null = Null
    Down <- Failure
    None = None
    a1 = a1
    a2 = a2
    b1 = b1
    MaxId = 1
    Existing = 1
    Urls = {u1}
    Handlers = {h1}
    Clients = {}
    DialogUsers = {}
    ContextPerRun = TRUE
    MaxPending = 1
    MaxChanges = 1
    MaxCrashes = 0

PROPERTIES
    AutoRowsFollowTheirSource
