SPECIFICATION Spec

CONSTANTS
    Users <- MCUsers
    Tabs <- MCTabs
    UserOf <- MCUserOf
    Keys <- MCKeys
    KeysOf <- MCKeysOf
    None = None
    MaxVersion = 2
    alice = alice
    bob = bob
    k1 = k1
    k2 = k2
    a1 = a1
    a2 = a2
    b1 = b1

INVARIANTS
    OwnChangesAreListed
    FirstKeyIsFresh
    CacheInv

PROPERTY
    KeepsView
