SPECIFICATION SystemSpec
CONSTANTS
    Clients = {c1}
    c1 = c1
    Workers = {w1}
    w1 = w1
    Zones = {"com"}
    ZoneOf <- OneZoneOf
    Seeds <- OneSeeds
    SeedSerial = 1
    FromSerials = {0, 1}
    Position <- MCPosition
    Spellings <- OneSpellings
    Canon <- OneCanon
    RTypes <- TwoTypes
    RDatas <- FourDatas
    TTLs <- MCTTLs
    Malformed <- MCMalformed
    NameText <- MCNameText
    DataText <- MCDataText
    Kinds = {"upsert"}
    Requests <- TwoRequests
    None = None
    Torn = Torn
    Oversized = {}
    Durable = TRUE
    Faults = {}
    MaxCalls = 1
    MaxStops = 0
    MaxTransfers = 2
CHECK_DEADLOCK FALSE
INVARIANT
    IncrementCatchesUp
