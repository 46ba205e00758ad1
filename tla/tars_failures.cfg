\* One result, sent as a pass and then as a negation: three invocations may
\* fail, anywhere, and midnight may fall anywhere.
SPECIFICATION Spec
CONSTANTS
    r1 = r1
    r2 = r2
    r3 = r3
    Results = {r1}
    Malformed = {}
    Incomplete = {}
    Linked = {}
    FetchCount = 1
    BatchSize = 1
    MaxFailures = 3
    MaxDay = 2
INVARIANTS
    TypeOK
    SequenceUnique
    SequenceContiguous
    NamesInSequence
PROPERTIES
    ImplementsLog
