SPECIFICATION Spec
CONSTANTS
    Queriers = {q1, q2}
    q1 = q1
    q2 = q2
    None = None
    Error = Error
    Absent = Absent
    Texts <- MCTexts
    Root = ""
    Packable = {"", "www", "WWW", "www.COM", "elsewhere"}
    TargetOf <- MCTargetOf
    RValues = {"v1", "v2"}
    Lower <- MCLower
    InZone = {"www", "WWW"}
    ZoneSoa <- MCZoneSoa
    Questions <- MCQuestions
    Unserved <- MCUnserved
    Lists <- MCLists
    Rank <- MCRank
    Minimum = 2
    MaxTTL = 2
    MaxEntries = 2
    MaxChanges = 1
    MaxTime = 3
CHECK_DEADLOCK FALSE
INVARIANTS
    TypeOK
    Grounded
    CacheBounded
    RepliesWereTrue
    OldAnswersEnd
    WireRepliesTrue
    WireRepliesSent
SYMMETRY Symmetry
