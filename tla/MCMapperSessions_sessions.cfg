CONSTANTS
    r1 = r1
    r2 = r2
    r3 = r3
    r4 = r4
    Requests = {r1, r2, r3, r4}
    NoRequest = NoRequest
    MaxSessions = 2
    TTL = 1
    MaxClock = 4
SPECIFICATION FairSpec
INVARIANTS TypeOK BoundHolds GoneForAReason
PROPERTIES EveryRequestAnswered ImplementsCache
