SPECIFICATION Spec
CONSTANTS
    Updater = u
    Reloaders = {}
    Queriers = {q1}
    u = u
    q1 = q1
    KeyOrder <- MCKeyOrder
    FoldCase <- MCFoldCase
    Seed <- MCSeed
    Spellings <- MCSpellings
    Canon <- MCCanon
    RTypes <- MCRTypes
    RDatas <- MCRDatas
    TTLs = {300}
    Malformed = {}
    None = None
    Changes <- FiledChanges
    KeyIds = {1, 2, 3}
    Life = 1
    Faults = {"refuse"}
    MaxUpdates = 3
    MaxTime = 2
CHECK_DEADLOCK FALSE
INVARIANTS
    TypeOK
    SignedAtRest
    RefusalExplained
    AnswersAreDurable
    AnswersAreCurrent
