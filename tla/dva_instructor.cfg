\* Instructor results; the metadata blob is provided by hand.
SPECIFICATION MCFairSpec
CONSTANTS
    r1 = r1
    r2 = r2
    r3 = r3
    Learner = FALSE
    Results = {r1, r2}
    Malformed = {}
    Linked = {}
    Undated = {}
    FetchCount = 2
    BatchSize = 1
    CreateMetadata = FALSE
    DefaultSequence = 1
    Present = {}
    MaxFailures = 2
    MaxIdle = 0
    MaxDay = 2
INVARIANTS
    ProcessedDelivered
    RecordedInSequence
PROPERTIES
    ImplementsLog
    EventuallyDispatched
