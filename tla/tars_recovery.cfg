\* A good record and a two-part one; marked one at a time;
\* one failure anywhere, then recovery.
SPECIFICATION FairSpec
CONSTANTS
    r1 = r1
    r2 = r2
    r3 = r3
    Results = {r1, r3}
    Malformed = {}
    Incomplete = {r3}
    Linked = {r3}
    FetchCount = 2
    BatchSize = 1
    MaxFailures = 1
    MaxDay = 1
INVARIANTS
    ProcessedDelivered
    OnlyMalformedFail
PROPERTIES
    EventuallyDispatched
