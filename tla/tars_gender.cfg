\* A two-part result and a record whose gender is to be worked out from the
\* licence, in one query answer; no failure at all.
SPECIFICATION Spec
CONSTANTS
    r1 = r1
    r2 = r2
    r3 = r3
    Results = {r1, r2}
    Malformed = {}
    Incomplete = {r2}
    Linked = {r1}
    FetchCount = 3
    BatchSize = 3
    MaxFailures = 0
    MaxDay = 1
INVARIANTS
    OnlyMalformedFail
