SPECIFICATION FairSpec

CONSTANTS
    media = media
    epg = epg
    sitepack = sitepack
    mediaQuery = mediaQuery
    sitePackQuery = sitePackQuery
    Pages <- MCPages
    KeyOf <- MCKeyOf
    Switching = {media}
    Restoring = {sitepack}
    Texts = {"", "news"}
    Empty = ""
    MaxIndex = 1
    MaxFlight = 2
    MaxLate = 1
    None = None

INVARIANTS
    SearchInv
    SettledShowsCurrent
    StoredIsOnScreen

PROPERTIES
    ShowsCurrentOnly
    Settles
