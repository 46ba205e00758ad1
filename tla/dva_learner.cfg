\* Learner results, one of them two-part, marked one at a time; one failure
\* anywhere, midnight anywhere; the first day's files start at number 99.
SPECIFICATION MCSpec
CONSTANTS
    r1 = r1
    r2 = r2
    r3 = r3
    Learner = TRUE
    Results = {r1, r2}
    Malformed = {}
    Linked = {r2}
    Undated = {}
    FetchCount = 2
    BatchSize = 1
    CreateMetadata = TRUE
    DefaultSequence = 1
    Present = {98}
    MaxFailures = 1
    MaxIdle = 1
    MaxDay = 2
INVARIANTS
    TypeOK
    DeliveredBelowHundred
    RecordedInSequence
    OnceWithoutFailure
    LinkedResultsResolved
PROPERTIES
    ImplementsLog
