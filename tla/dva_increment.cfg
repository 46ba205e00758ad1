\* Learner files up to number 99 are on the server already; no failure.
SPECIFICATION MCSpec
CONSTANTS
    r1 = r1
    r2 = r2
    r3 = r3
    Learner = TRUE
    Results = {r1, r2}
    Malformed = {}
    Linked = {}
    Undated = {}
    FetchCount = 2
    BatchSize = 1
    CreateMetadata = TRUE
    DefaultSequence = 1
    Present = {99}
    MaxFailures = 0
    MaxIdle = 0
    MaxDay = 1
INVARIANTS
    ProcessedDelivered
