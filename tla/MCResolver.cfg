SPECIFICATION ResolverSpec
CONSTANTS
    Callers = {c1, c2}
    Options <- MCOptions
    MaxTolerance = 2
    MaxFetch = 1
    TTLRegistered = 2
    TTLUnregistered = 1
    TTLUnknown = 1
    WhoisConfigured = TRUE
INVARIANTS
    ContactsKept
    CacheTolerated
PROPERTIES
    LiveEntryKept
    EveryLookupReturns
