\* Two results, one of them negated; one dispatcher failure on one day.
SPECIFICATION SystemSpec
CONSTANTS
    r1 = r1
    r2 = r2
    Results = {r1, r2}
    Malformed = {}
    Incomplete = {}
    Linked = {}
    FetchCount = 1
    BatchSize = 1
    MaxFailures = 2
    MaxHousekeepingFailures = 0
    MaxDay = 1
CONSTRAINT KeptFileSearch
INVARIANTS
    LatestFileKept
