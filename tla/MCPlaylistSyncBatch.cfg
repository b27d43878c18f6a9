SPECIFICATION FairSpec

CONSTANTS
    Media <- MCMedia
    UrlOf <- MCUrlOf
    IdOf <- MCIdOf
    Offers <- DoublingOffers
    Null = Null
    Down <- Failure
    None = None
    a1 = a1
    a2 = a2
    b1 = b1
    MaxId = 2
    Existing = 1
    Urls = {u1}
    Handlers = {h1, h2}
    Clients = {}
    DialogUsers = {}
    ContextPerRun = TRUE
    MaxPending = 2
    MaxChanges = 1
    MaxCrashes = 1

INVARIANTS
    SyncInv

PROPERTIES
    DeletedStaysDeleted
    KeepsStorePromises
    FollowsItsSource
