\* A good record, a malformed one and a two-part result whose other part may
\* never be passed, through a query window of two rows, marked one at a time;
\* no failure.
SPECIFICATION FairSpec
CONSTANTS
    r1 = r1
    r2 = r2
    r3 = r3
    Results = {r1, r2, r3}
    Malformed = {r2}
    Incomplete = {}
    Linked = {r3}
    FetchCount = 2
    BatchSize = 1
    MaxFailures = 0
    MaxDay = 1
INVARIANTS
    OnceWithoutFailure
PROPERTIES
    EventuallyDispatched
