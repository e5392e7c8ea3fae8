SPECIFICATION Spec
CONSTANTS
    Clients = {c1}
    c1 = c1
    Zones = {"com", "org"}
    ZoneOf <- MCZoneOf
    Seeds <- MCSeeds
    SeedSerial = 1
    Spellings <- MCSpellings
    Canon <- MCCanon
    RTypes <- MCRTypes
    RDatas <- MCRDatas
    TTLs <- MCTTLs
    Malformed <- MCMalformed
    NameText <- MCNameText
    DataText <- MCDataText
    Kinds = {"upsert"}
    Requests <- TwoRequests
    None = None
    Torn = Torn
    Oversized = {}
    Durable = TRUE
    Faults = {"deadline"}
    MaxCalls = 1
    MaxStops = 1
CHECK_DEADLOCK FALSE
INVARIANTS
    AckedIsJournaled
