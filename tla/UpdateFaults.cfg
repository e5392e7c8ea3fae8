SPECIFICATION Spec
CONSTANTS
    Clients = {c1, c2}
    c1 = c1
    c2 = c2
    Zones = {"com", "org"}
    ZoneOf <- MCZoneOf
    Seeds <- MCSeeds
    SeedSerial = 1
    Spellings <- MCSpellings
    Canon <- MCCanon
    RTypes <- MCRTypes
    RDatas <- MCRDatas
    TTLs <- MCTTLs
    Malformed <- MCMalformed
    NameText <- MCNameText
    DataText <- MCDataText
    Kinds = {"upsert", "delete"}
    Requests <- PlainRequests
    None = None
    Torn = Torn
    Oversized = {}
    Durable = TRUE
    Faults = {"refuse", "unsynced", "torn", "resign", "notify", "deadline"}
    MaxCalls = 3
    MaxStops = 1
CHECK_DEADLOCK FALSE
INVARIANTS
    HistoryExplainsZone
    AnnouncedNotFailed
SYMMETRY Symmetry
