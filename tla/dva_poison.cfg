\* A malformed record beside one whose other part has no start time.
SPECIFICATION MCFairSpec
CONSTANTS
    r1 = r1
    r2 = r2
    r3 = r3
    Learner = TRUE
    Results = {r1, r2}
    Malformed = {r1}
    Linked = {r2}
    Undated = {r2}
    FetchCount = 2
    BatchSize = 1
    CreateMetadata = TRUE
    DefaultSequence = 1
    Present = {}
    MaxFailures = 1
    MaxIdle = 0
    MaxDay = 1
PROPERTIES
    MalformedRecordsMarked
