------------------------------ MODULE Records ------------------------------
(***************************************************************************)
(* The stateless parts of the program, over any inputs: a state is an      *)
(* input, each step takes one, and the invariants compare what the code    *)
(* computes from it with what it should.                                   *)
(***************************************************************************)
EXTENDS Integers, Sequences, FiniteSets, SequencesExt

CONSTANTS
    Contents,           \* contents of results files
    ChunkSizes,         \* units of a chunk
    TarsRows,           \* rows of the TARS queries
    LearnerRows,        \* rows of the DVA learner queries
    InstructorRows,     \* rows of the DVA instructor queries
    Tests,              \* instructor tests: a score for each topic
    OtherRows,          \* score rows of other results in the same answer
    Chains,             \* errors with their causes
    Depths              \* errorEventMaxDeep

VARIABLE input

Upload == INSTANCE ChunkedUpload
Tars   == INSTANCE TarsRecord
Dva    == INSTANCE DvaRecord
Scores == INSTANCE BandScores
Errors == INSTANCE ErrorEvents

ASSUME UploadsAssumption ==
    /\ \A content \in Contents :
          content \in Seq(Upload!Units) /\ Upload!WellFormed(content)
    /\ ChunkSizes \subseteq Nat \ {0}

ASSUME RowsAssumption ==
    /\ TarsRows \subseteq Tars!Row
    /\ LearnerRows \subseteq Dva!LearnerRow
    /\ InstructorRows \subseteq Dva!InstructorRow

ASSUME ScoresAssumption ==
    /\ \A test \in Tests : Scores!IsTest(test)
    /\ IsFiniteSet(OtherRows) /\ \A row \in OtherRows : row.id # "r1"

ASSUME ErrorsAssumption ==
    /\ Chains \subseteq Seq(Errors!Links) \ {<<>>}
    /\ Depths \subseteq Nat

NoInput == [kind |-> "none"]

----------------------------------------------------------------------------
UploadContent ==
    \E content \in Contents, chunkSize \in ChunkSizes :
        input' = [kind |-> "upload", content |-> content, chunkSize |-> chunkSize]

TakeTarsRow == \E row \in TarsRows : input' = [kind |-> "tars", row |-> row]

TakeLearnerRow == \E row \in LearnerRows : input' = [kind |-> "learner", row |-> row]

TakeInstructorRow == \E row \in InstructorRows : input' = [kind |-> "instructor", row |-> row]

\* Any part of the rows, in any order.
AnswerScores ==
    \E test \in Tests :
        \E rows \in SUBSET (Scores!ScoreRows("r1", test) \union OtherRows) :
            \E answer \in SetToSeqs(rows) :
                input' = [kind |-> "scores", test |-> test, answer |-> answer]

ThrowError ==
    \E error \in Chains, maxDeep \in Depths :
        input' = [kind |-> "error", error |-> error, maxDeep |-> maxDeep]

CallSftp ==
    \E operation \in Errors!SftpOperations, failing \in SUBSET {"open", "operation", "close"} :
        input' = [kind |-> "sftp", operation |-> operation, failing |-> failing]

----------------------------------------------------------------------------
Init == input = NoInput

TakeInput ==
    /\ input = NoInput
    /\ \/ UploadContent
       \/ TakeTarsRow
       \/ TakeLearnerRow
       \/ TakeInstructorRow
       \/ AnswerScores
       \/ ThrowError
       \/ CallSftp

Return == input # NoInput /\ input' = NoInput

Next == TakeInput \/ Return

Spec == Init /\ [][Next]_input

----------------------------------------------------------------------------
\* Cutting a file into ranges never damages it (azureFilesClient.ts 51-85).
UploadsExact ==
    input.kind = "upload" => Upload!UploadExact(input.content, input.chunkSize)

\* A TARS record is given up for its title or gender exactly if the row does not
\* tell them, or its licence alone does: the title is asked for before the licence
\* (tarsResultsDispatcher.ts 52-53, title.ts, gender.ts).
TarsResolvedIfTold == input.kind = "tars" => Tars!ResolvedIfTold(input.row)

\* What passes the schema of a TARS record passes that of the file
\* (xmlTestResultsFileGenerator.ts 57-65).
TarsSchemasAgree == input.kind = "tars" => Tars!SchemasAgree(input.row)

\* Which learner records that pass their schema stop every file.
LearnerRecordsFit == input.kind = "learner" => Dva!LearnerRecordsFit(input.row)

\* Which instructor records that pass their schema stop every file.
InstructorRecordsFit == input.kind = "instructor" => Dva!InstructorRecordsFit(input.row)

\* Wrong scores are warned about (dvaInstructorBandScore.ts 16-49).
ScoresRightOrWarned ==
    input.kind = "scores" => Scores!ScoresRightOrWarned("r1", input.test, input.answer)

\* The nearest event in a chain of causes is logged (handleError.ts).
NearestEventReported ==
    input.kind = "error" => Errors!NearestEventReported(input.error, input.maxDeep)

\* A failed SFTP call is reported, unless closing fails (baseSftpClient.ts).
SftpFailureReported ==
    input.kind = "sftp" => Errors!SftpFailureReported(input.operation, input.failing)
=============================================================================
