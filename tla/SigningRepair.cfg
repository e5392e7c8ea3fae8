SPECIFICATION Spec
CONSTANTS
    Updater = u
    Reloaders = {r1, r2}
    Queriers = {q1}
    u = u
    r1 = r1
    r2 = r2
    q1 = q1
    KeyOrder <- OneKeyOrder
    FoldCase <- MCFoldCase
    Seed <- OneSeed
    Spellings <- OneSpellings
    Canon <- OneCanon
    RTypes <- MCRTypes
    RDatas <- MCRDatas
    TTLs = {300}
    Malformed = {}
    None = None
    Changes <- MixedChanges
    KeyIds = {1, 2}
    Life = 1
    Faults = {"sign", "restart"}
    MaxUpdates = 1
    MaxTime = 0
CHECK_DEADLOCK FALSE
INVARIANTS
    ReloadRepairs
    RefusalExplained
SYMMETRY Symmetry
