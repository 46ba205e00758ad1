\* The stateless parts over all inputs within the bounds.
SPECIFICATION Spec
CONSTANTS
    MaxUnits = 5
    MaxCauses = 4
    MaxScore = 2
    Contents <- MCContents
    ChunkSizes = {1, 2, 3}
    TarsRows <- MCTarsRows
    LearnerRows <- MCLearnerRows
    InstructorRows <- MCInstructorRows
    Tests <- MCTests
    OtherRows <- MCOtherRows
    Chains <- MCChains
    Depths = {0, 1, 2}
INVARIANTS
    UploadsExact
    TarsResolvedIfTold
    TarsSchemasAgree
    LearnerRecordsFit
    InstructorRecordsFit
    ScoresRightOrWarned
    NearestEventReported
    SftpFailureReported
