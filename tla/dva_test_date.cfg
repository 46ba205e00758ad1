\* Two two-part results in one query answer, no failure at all.
SPECIFICATION MCSpec
CONSTANTS
    r1 = r1
    r2 = r2
    r3 = r3
    Learner = TRUE
    Results = {r1, r2}
    Malformed = {}
    Linked = {r1, r2}
    Undated = {}
    FetchCount = 2
    BatchSize = 1
    CreateMetadata = TRUE
    DefaultSequence = 1
    Present = {}
    MaxFailures = 0
    MaxIdle = 0
    MaxDay = 1
INVARIANTS
    LinkedResultsResolved
