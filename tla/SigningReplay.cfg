SPECIFICATION Spec
CONSTANTS
    Updater = u
    Reloaders = {}
    Queriers = {}
    u = u
    KeyOrder <- MCKeyOrder
    FoldCase <- MCFoldCase
    Seed <- MCSeed
    Spellings <- MCSpellings
    Canon <- MCCanon
    RTypes <- MCRTypes
    RDatas <- MCRDatas
    TTLs = {300}
    Malformed = {}
    None = None
    Changes <- OneLower
    KeyIds = {1}
    Life = 1
    Faults = {"restart"}
    MaxUpdates = 1
    MaxTime = 0
CHECK_DEADLOCK FALSE
INVARIANTS
    SignedAtRest
