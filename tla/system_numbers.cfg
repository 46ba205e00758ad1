\* Two results, one sent as a pass and then the other as a negation; one
\* dispatcher failure, one housekeeping failure and midnight anywhere.
SPECIFICATION SystemSpec
CONSTANTS
    r1 = r1
    r2 = r2
    Results = {r1, r2}
    Malformed = {}
    Incomplete = {}
    Linked = {}
    FetchCount = 1
    BatchSize = 1
    MaxFailures = 1
    MaxHousekeepingFailures = 1
    MaxDay = 2
CONSTRAINT OneOfEachKind
INVARIANTS
    SystemTypeOK
    PlaceKept
    NumbersKept
PROPERTIES
    LogKept
