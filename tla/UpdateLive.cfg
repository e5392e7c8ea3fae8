SPECIFICATION FairSpec
CONSTANTS
    Clients = {c1, c2}
    c1 = c1
    c2 = c2
    Zones = {"com", "org"}
    ZoneOf <- MCZoneOf
    Seeds <- MCSeeds
    SeedSerial = 1
    Spellings <- MCSpellings
    Canon <- MCCanon
    RTypes <- MCRTypes
    RDatas <- MCRDatas
    TTLs <- MCTTLs
    Malformed <- MCMalformed
    NameText <- MCNameText
    DataText <- MCDataText
    Kinds = {"upsert"}
    Requests <- LiveRequests
    None = None
    Torn = Torn
    Oversized <- MCOversized
    Durable = TRUE
    Faults = {"refuse"}
    MaxCalls = 3
    MaxStops = 2
CHECK_DEADLOCK FALSE
INVARIANTS
    ShutdownAnswersCallers
    ValuesDistinct
PROPERTIES
    CallAnswered
    ServesAgain
