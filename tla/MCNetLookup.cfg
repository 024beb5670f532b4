SPECIFICATION NetSpec
CONSTANTS
    Width = 3
    MaxASN = 7
    NetDocuments <- MCDocuments
    NetEmbedded <- MCEmbedded
    Callers = {c1, c2}
    Requests <- MCRequests
    NonPublic = {2}
    TTLNet = 0
    TTLRaw = 0
    MaxQuery = 0
INVARIANTS
    LookupsMostSpecific
    AnsweredByHolder
PROPERTIES
    FamiliesKept
    EveryResourceReturns
