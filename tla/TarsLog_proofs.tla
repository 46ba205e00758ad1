--------------------------- MODULE TarsLog_proofs ---------------------------
(***************************************************************************)
(* The TARS dispatcher implements ResultsLog, and sends nothing twice      *)
(* while no invocation fails.  Both rest on SafetyInv and on what an       *)
(* invocation knows of the records it holds: DispatchInv.                  *)
(***************************************************************************)
EXTENDS TarsDispatch_proofs

\* The steps from the query to the decision on the numbers, and to the upload.
Preparing == {"latest", "exists", "existsProcessed", "compare", "uploadMetadata"}

AllUnprocessed(S) == \A r \in S : exported[r] = "Unprocessed"

\* Numbers start at the default.
NumbersFromDefault ==
    /\ \A m \in metadata \cup Emitted : m.seq >= DEFAULT_SEQUENCE_NUMBER
    /\ pc = "uploadMetadata" => basic.seq >= DEFAULT_SEQUENCE_NUMBER

\* What an invocation holds is unmarked until the invocation itself marks it.
HeldUnmarked ==
    /\ pc \in {"resolve"} \cup Preparing \cup Writing => AllUnprocessed(results)
    /\ pc \in Preparing \cup Writing \cup {"mark"} =>
          AllUnprocessed(malformed) /\ malformed \cap results = {}
    /\ pc = "markMalformed" => AllUnprocessed(left)

DispatchInv == NumbersFromDefault /\ HeldUnmarked

Holding == {"resolve"} \cup Preparing \cup Writing \cup {"mark"}

\* No query for files of type t will return r again.
Settled(t, r) ==
    \/ exported[r] # "Unprocessed" /\ (t = "NEGATED_RESULT" => status[r] = "Negated")
    \/ t = "RESULT" /\ status[r] = "Negated"

HeldNegated == type = "NEGATED_RESULT" => \A r \in results : status[r] = "Negated"

\* The correct files of earlier invocations, or of an earlier phase.
Older == IF pc \in Writing \cup {"mark"} THEN Emitted \ {Target} ELSE Emitted

OlderSettled == \A m \in Older : \A r \in m.rows : Settled(m.type, r)

OlderDisjoint == \A m \in Older : m.type = type => m.rows \cap results = {}

HeldSettled == pc = "mark" => \A r \in results \ left : Settled(type, r)

Disjoint ==
    \A m, n \in Emitted : m # n /\ m.type = n.type => m.rows \cap n.rows = {}

OnceInv ==
    failures = 0 =>
        /\ Disjoint
        /\ HeldNegated
        /\ OlderSettled
        /\ pc \in Holding => OlderDisjoint
        /\ HeldSettled

-----------------------------------------------------------------------------
(* The log of correct files.                                               *)

\* The correct files change only by the upload, which adds the target, and by
\* a delete after it, which can take the target away again.
LEMMA EmittedStep ==
    ASSUME TypeOK, StorageInv, StepInv, [Next]_vars
    PROVE  \/ Emitted' = Emitted
           \/ /\ UploadRanges \/ UploadFails
              /\ Emitted' = Emitted \cup {Target}
           \/ /\ DeletePartial \/ DeleteInvalid
              /\ Emitted' = Emitted \ {Target}
<1> USE DEF crmVars, storeVars, loopVars, metaVars, runVars, histVars
<1>1. CASE UNCHANGED <<files, taken>>
    BY <1>1, FilesKept
<1>2. CASE ConsumerTakes
    BY <1>2, RenameKeeps DEF StorageInv
<1>3. CASE CreateFile
    BY <1>3, WriteKeeps DEF CreateFile, StorageInv, StepInv, Written, Writing
<1>4. CASE UploadRanges \/ UploadFails
    BY <1>1, <1>4, WriteKeeps DEF UploadRanges, UploadFails, StorageInv, StepInv,
        Written, Writing
<1>5. CASE DeletePartial \/ DeleteInvalid
    BY <1>5, DeleteKeeps DEF DeletePartial, DeleteInvalid, Throw, StorageInv,
        StepInv, Written, Writing
<1>6. CASE Start \/ Fetch \/ ResolveResult \/ RemoveUnmatched \/ Validate
    BY <1>1, <1>6 DEF Start, Fetch, ResolveResult, RemoveUnmatched, Validate
<1>7. CASE \/ NoMetadataFile \/ DownloadLatest \/ CheckResultsFile
           \/ CheckProcessedFile \/ CompareChecksum \/ CompareMissing
           \/ UploadMetadata
    BY <1>1, <1>7 DEF NoMetadataFile, DownloadLatest, CheckResultsFile,
        CheckProcessedFile, CompareChecksum, CompareMissing, UploadMetadata, Throw
<1>8. CASE \/ VerifyFile \/ VerifyMissing \/ UpdateChunk \/ UpdateChunkFails
           \/ ProcessedMarked \/ PhaseDone
    BY <1>1, <1>8 DEF VerifyFile, VerifyMissing, UpdateChunk, UpdateChunkFails,
        ProcessedMarked, PhaseDone, Throw
<1>9. CASE \/ Abort \/ PublishResult \/ NegateResult \/ PassCounterpart
           \/ Midnight \/ UNCHANGED vars
    BY <1>1, <1>9 DEF Abort, PublishResult, NegateResult, PassCounterpart,
        Midnight, Throw, vars
<1> QED
    BY <1>2, <1>3, <1>4, <1>5, <1>6, <1>7, <1>8, <1>9
    DEF Next, Dispatcher, Environment

LEMMA NumbersStep ==
    ASSUME TypeOK, StorageInv, StepInv, NumbersFromDefault, [Next]_vars
    PROVE  NumbersFromDefault'
<1> USE DEF crmVars, storeVars, loopVars, metaVars, runVars, histVars
<1>1. TypeOK' /\ \A ok : latest \in metadata => NextBasic(ok).seq >= DEFAULT_SEQUENCE_NUMBER
  <2>1. latest \in metadata => latest.seq \in Nat /\ latest.seq >= DEFAULT_SEQUENCE_NUMBER
      BY DEF NumbersFromDefault, TypeOK, Metadata
  <2> QED
      BY <2>1, TypeStep DEF NextBasic, DEFAULT_SEQUENCE_NUMBER
<1>2. metadata' = metadata \/ UploadMetadata
    BY DEF Next, Dispatcher, Environment, Start, Fetch, ResolveResult,
        RemoveUnmatched, Validate, NoMetadataFile, DownloadLatest,
        CheckResultsFile, CheckProcessedFile, CompareChecksum, CompareMissing,
        CreateFile, UploadRanges, UploadFails, DeletePartial, VerifyFile,
        VerifyMissing, DeleteInvalid, UpdateChunk, UpdateChunkFails,
        ProcessedMarked, PhaseDone, Abort, PublishResult, NegateResult,
        PassCounterpart, ConsumerTakes, Midnight, vars
<1>3. \A m \in metadata' : m.seq >= DEFAULT_SEQUENCE_NUMBER
  <2>1. CASE UploadMetadata
      BY <2>1 DEF UploadMetadata, NumbersFromDefault, Target
  <2> QED
      BY <1>2, <2>1 DEF NumbersFromDefault
<1>4. \A m \in Emitted' : m.seq >= DEFAULT_SEQUENCE_NUMBER
  <2>1. pc = "upload" => Target \in metadata
      BY DEF StepInv, Written, Writing
  <2> QED
      BY <2>1, EmittedStep DEF NumbersFromDefault, UploadRanges, UploadFails
<1>5. pc' = "uploadMetadata" => basic'.seq >= DEFAULT_SEQUENCE_NUMBER
  <2>1. CASE NoMetadataFile
      BY <2>1 DEF NoMetadataFile, FirstBasic, DEFAULT_SEQUENCE_NUMBER
  <2>2. CASE CheckProcessedFile \/ CompareChecksum
    <3>1. latest \in metadata
        BY <2>2 DEF CheckProcessedFile, CompareChecksum, StepInv, Examining
    <3>2. pc' = "uploadMetadata" => \E ok : basic' = NextBasic(ok)
        BY <2>2 DEF CheckProcessedFile, CompareChecksum
    <3> QED
        BY <1>1, <3>1, <3>2
  <2>3. CASE pc' = pc /\ basic' = basic
      BY <2>3 DEF NumbersFromDefault
  <2>4. \/ NoMetadataFile \/ CheckProcessedFile \/ CompareChecksum
        \/ (pc' = pc /\ basic' = basic) \/ pc' # "uploadMetadata"
      BY DEF Next, Dispatcher, Environment, Start, Fetch, ResolveResult,
          RemoveUnmatched, Validate, DownloadLatest, CheckResultsFile,
          CompareMissing, UploadMetadata, CreateFile, UploadRanges, UploadFails,
          DeletePartial, VerifyFile, VerifyMissing, DeleteInvalid, UpdateChunk,
          UpdateChunkFails, ProcessedMarked, PhaseDone, Abort, PublishResult,
          NegateResult, PassCounterpart, ConsumerTakes, Midnight, Throw, vars
  <2> QED
      BY <2>1, <2>2, <2>3, <2>4
<1> QED
    BY <1>3, <1>4, <1>5 DEF NumbersFromDefault

-----------------------------------------------------------------------------
(* The records an invocation holds.                                        *)

LEMMA HeldStep ==
    ASSUME TypeOK, StepInv, HeldUnmarked, [Next]_vars
    PROVE  HeldUnmarked'
<1> USE DEF crmVars, storeVars, loopVars, metaVars, runVars, histVars
<1>1. CASE UNCHANGED <<exported, pc, results, malformed, left>>
    BY <1>1 DEF HeldUnmarked, AllUnprocessed
<1>2. CASE Start \/ Fetch \/ ResolveResult \/ RemoveUnmatched
    BY <1>2 DEF Start, Fetch, ResolveResult, RemoveUnmatched, Unprocessed,
        HeldUnmarked, AllUnprocessed, Preparing, Writing
<1>3. CASE Validate
    BY <1>3 DEF Validate, Invalid, HeldUnmarked, AllUnprocessed, Preparing, Writing
<1>4. CASE \/ NoMetadataFile \/ DownloadLatest \/ CheckResultsFile
           \/ CheckProcessedFile \/ CompareChecksum \/ UploadMetadata
           \/ CreateFile \/ UploadRanges \/ UploadFails
  <2>1. /\ UNCHANGED <<exported, results, malformed, left>>
        /\ pc \in Preparing \cup Writing /\ pc' \in Preparing \cup Writing
      BY <1>4 DEF NoMetadataFile, DownloadLatest, CheckResultsFile,
          CheckProcessedFile, CompareChecksum, UploadMetadata, CreateFile,
          UploadRanges, UploadFails, Preparing, Writing
  <2> QED
      BY <2>1 DEF HeldUnmarked, AllUnprocessed, Preparing, Writing
<1>5. CASE VerifyFile
    BY <1>5 DEF VerifyFile, HeldUnmarked, AllUnprocessed, Preparing, Writing
<1>6. CASE \/ CompareMissing \/ DeletePartial \/ VerifyMissing \/ DeleteInvalid
           \/ UpdateChunkFails \/ Abort
    BY <1>6 DEF CompareMissing, DeletePartial, VerifyMissing, DeleteInvalid,
        UpdateChunkFails, Abort, Throw, HeldUnmarked, Preparing, Writing
<1>7. CASE UpdateChunk
  <2>1. PICK C \in SUBSET left : Mark(C) /\ left' = left \ C
      BY <1>7 DEF UpdateChunk
  <2>2. \A r \in Results \ C : exported'[r] = exported[r]
      BY <2>1 DEF Mark
  <2>3. /\ pc \in {"mark", "markMalformed"}
        /\ UNCHANGED <<pc, results, malformed>>
      BY <1>7 DEF UpdateChunk, Marking
  <2>4. CASE pc = "mark"
    <3>1. left \subseteq results
        BY <2>4 DEF StepInv, Written
    <3> QED
        BY <2>1, <2>2, <2>3, <2>4, <3>1 DEF TypeOK, HeldUnmarked, AllUnprocessed,
            Preparing, Writing
  <2>5. CASE pc = "markMalformed"
      BY <2>1, <2>2, <2>3, <2>5 DEF TypeOK, HeldUnmarked, AllUnprocessed,
          Preparing, Writing
  <2> QED
      BY <2>3, <2>4, <2>5
<1>8. CASE ProcessedMarked \/ PhaseDone
    BY <1>8 DEF ProcessedMarked, PhaseDone, ResetLocals, HeldUnmarked,
        AllUnprocessed, Preparing, Writing
<1>9. CASE NegateResult
    BY <1>9 DEF NegateResult, TypeOK, HeldUnmarked, AllUnprocessed, Preparing, Writing
<1>10. CASE \/ PublishResult \/ PassCounterpart \/ ConsumerTakes \/ Midnight
            \/ UNCHANGED vars
    BY <1>1, <1>10 DEF PublishResult, PassCounterpart, ConsumerTakes, Midnight, vars
<1> QED
    BY <1>2, <1>3, <1>4, <1>5, <1>6, <1>7, <1>8, <1>9, <1>10
    DEF Next, Dispatcher, Environment

LEMMA InitDispatch == Init => DispatchInv
BY DEF Init, DispatchInv, NumbersFromDefault, HeldUnmarked, Emitted, Preparing, Writing

\* Numbers start at the default, and an invocation holds only records that
\* nobody but itself marks.
THEOREM HeldRecords == Spec => []DispatchInv
<1>1. SafetyInv /\ DispatchInv /\ [Next]_vars => DispatchInv'
    BY NumbersStep, HeldStep DEF SafetyInv, DispatchInv
<1> QED
    BY <1>1, InitDispatch, Safety, PTL DEF Spec

-----------------------------------------------------------------------------
(* The refinement.                                                         *)

EntryOf(m) == [seq |-> m.seq, rows |-> m.rows]

Entries == {EntryOf(m) : m \in Emitted}

LEMMA EntryNumbers ==
    ASSUME SafetyInv
    PROVE  \A m, n \in Emitted : m = n \/ m.seq < n.seq \/ n.seq < m.seq
BY DEF SafetyInv, StorageInv, EmittedOrdered, Before

\* The target is the last file of the log once it is in it.
LEMMA TargetLast ==
    ASSUME SafetyInv, pc \in Writing \cup {"mark"}, Target \in Emitted
    PROVE  EntryOf(Target) \in Log!LastEntries
<1>1. Target \in metadata /\ IsLatest(Target)
    BY DEF SafetyInv, StepInv, Written
<1>2. \A m \in Emitted : m.seq <= Target.seq
  <2>1. \A m \in Emitted : m = Target \/ m.seq < Target.seq
      BY <1>1 DEF SafetyInv, StorageInv, Frontier, Before
  <2> QED
      BY <2>1, EmittedType DEF SafetyInv, Metadata
<1> QED
    BY <1>2 DEF Log!LastEntries, Log!IsLast, EntryOf

\* Before that, its number is the next one.
LEMMA TargetNext ==
    ASSUME SafetyInv, NumbersFromDefault, pc = "upload"
    PROVE  Target.seq \in Log!NextNumbers
<1>1. Target \in metadata /\ IsLatest(Target) /\ Target \notin Emitted
    BY DEF SafetyInv, StepInv, Written, Writing
<1>2. \A m \in Emitted : m.seq < Target.seq
    BY <1>1 DEF SafetyInv, StorageInv, Frontier, Before
<1>3. Preceded(Target.seq)
    BY <1>1 DEF SafetyInv, StorageInv, LatestPreceded
<1>4. CASE Emitted = {}
    BY <1>3, <1>4 DEF Preceded, Log!NextNumbers
<1>5. CASE Emitted # {}
  <2>1. Target \in Metadata /\ Emitted \subseteq Metadata
      BY EmittedType, RecordTypes DEF SafetyInv
  <2>2. Target.seq # DEFAULT_SEQUENCE_NUMBER
      BY <1>2, <1>5, <2>1 DEF NumbersFromDefault, Metadata, DEFAULT_SEQUENCE_NUMBER
  <2>3. PICK n \in Emitted : n.seq = Target.seq - 1
      BY <1>3, <2>2 DEF Preceded
  <2>4. \A m \in Emitted : m.seq <= n.seq
      BY <1>2, <2>1, <2>3 DEF Metadata
  <2>5. EntryOf(n) \in Log!LastEntries
      BY <2>4 DEF Log!LastEntries, Log!IsLast, EntryOf
  <2>6. EntryOf(n).seq + 1 = Target.seq
      BY <2>1, <2>3 DEF EntryOf, Metadata
  <2> QED
      BY <1>5, <2>5, <2>6 DEF Log!NextNumbers
<1> QED
    BY <1>4, <1>5

LEMMA UploadAppends ==
    ASSUME SafetyInv, DispatchInv, UploadRanges \/ UploadFails,
           Emitted' = Emitted \cup {Target}
    PROVE  Log!Append
<1>1. pc = "upload" /\ exported' = exported
    BY DEF UploadRanges, UploadFails, crmVars
<1>2. Target.seq \in Log!NextNumbers
    BY <1>1, TargetNext DEF DispatchInv
<1>3. Target.rows \in SUBSET Log!Unmarked
    BY <1>1 DEF DispatchInv, HeldUnmarked, AllUnprocessed, Writing, Target,
        Log!Unmarked, SafetyInv, TypeOK
<1>4. {EntryOf(m) : m \in Emitted'} = Entries \cup {EntryOf(Target)}
    BY DEF Entries
<1> QED
    BY <1>1, <1>2, <1>3, <1>4 DEF Log!Append, EntryOf, Entries

LEMMA DeleteWithdraws ==
    ASSUME SafetyInv, DispatchInv, DeletePartial \/ DeleteInvalid,
           Emitted' = Emitted \ {Target}, Target \in Emitted
    PROVE  Log!Withdraw
<1>1. pc \in {"deletePartial", "deleteInvalid"} /\ exported' = exported
    BY DEF DeletePartial, DeleteInvalid, crmVars
<1>2. EntryOf(Target) \in Log!LastEntries
    BY <1>1, TargetLast DEF Writing
<1>3. EntryOf(Target).rows \subseteq Log!Unmarked
    BY <1>1 DEF DispatchInv, HeldUnmarked, AllUnprocessed, Writing, Target, EntryOf,
        Log!Unmarked, SafetyInv, TypeOK
<1>4. \A m \in Emitted : EntryOf(m) = EntryOf(Target) => m = Target
  <2>1. \A m \in Emitted : m.seq \in Nat
      BY EmittedType DEF SafetyInv, Metadata
  <2> QED
      BY <2>1, EntryNumbers DEF EntryOf
<1>5. {EntryOf(m) : m \in Emitted'} = Entries \ {EntryOf(Target)}
    BY <1>4 DEF Entries
<1> QED
    BY <1>1, <1>2, <1>3, <1>5 DEF Log!Withdraw, EntryOf, Entries

LEMMA MarkConfirmsOrRejects ==
    ASSUME SafetyInv, DispatchInv, UpdateChunk \/ UpdateChunkFails,
           Emitted' = Emitted
    PROVE  Log!Confirm \/ Log!Reject
<1>1. PICK C \in SUBSET left : Mark(C)
    BY DEF UpdateChunk, UpdateChunkFails
<1>2. pc \in {"mark", "markMalformed"}
    BY DEF UpdateChunk, UpdateChunkFails, Marking
<1>3. CASE pc = "mark"
  <2>1. Target \in Emitted /\ C \subseteq Target.rows
      BY <1>1, <1>3 DEF SafetyInv, StepInv, Written, Target
  <2>2. EntryOf(Target) \in Log!LastEntries /\ C \in SUBSET EntryOf(Target).rows
      BY <1>3, <2>1, TargetLast DEF EntryOf
  <2>3. Log!MarkAll(C, "Processed")
      BY <1>1, <1>3 DEF Mark, Marking, Log!MarkAll
  <2> QED
      BY <2>2, <2>3 DEF Log!Confirm
<1>4. CASE pc = "markMalformed"
  <2>1. C \in SUBSET Log!Unmarked
      BY <1>1, <1>4 DEF DispatchInv, HeldUnmarked, AllUnprocessed, Log!Unmarked,
          SafetyInv, TypeOK
  <2>2. Log!MarkAll(C, "FailedValidation")
      BY <1>1, <1>4 DEF Mark, Marking, Log!MarkAll
  <2> QED
      BY <2>1, <2>2 DEF Log!Reject
<1> QED
    BY <1>2, <1>3, <1>4

LEMMA NegateReopens ==
    ASSUME TypeOK, NegateResult, Emitted' = Emitted
    PROVE  Log!Reopen
<1>1. PICK r \in Results : exported' = [exported EXCEPT ![r] = "Unprocessed"]
    BY DEF NegateResult
<1>2. Log!MarkAll({r}, "Unprocessed")
    BY <1>1 DEF Log!MarkAll, TypeOK
<1> QED
    BY <1>2 DEF Log!Reopen

LEMMA LogStep ==
    ASSUME SafetyInv, DispatchInv, [Next]_vars
    PROVE  [Log!Next]_(Log!vars)
<1> USE DEF crmVars, storeVars, loopVars, metaVars, runVars, histVars
<1>1. CASE Emitted' = Emitted /\ exported' = exported
    BY <1>1 DEF Log!vars
<1>2. CASE (UploadRanges \/ UploadFails) /\ Emitted' = Emitted \cup {Target}
    BY <1>2, UploadAppends DEF Log!Next
<1>3. CASE (DeletePartial \/ DeleteInvalid) /\ Emitted' = Emitted \ {Target}
  <2>1. exported' = exported /\ (Target \notin Emitted => Emitted' = Emitted)
      BY <1>3 DEF DeletePartial, DeleteInvalid
  <2> QED
      BY <1>1, <1>3, <2>1, DeleteWithdraws DEF Log!Next
<1>4. CASE (UpdateChunk \/ UpdateChunkFails) /\ Emitted' = Emitted
    BY <1>4, MarkConfirmsOrRejects DEF Log!Next
<1>5. CASE NegateResult /\ Emitted' = Emitted
    BY <1>5, NegateReopens DEF Log!Next, SafetyInv
<1>6. exported' = exported \/ UpdateChunk \/ UpdateChunkFails \/ NegateResult
    BY DEF Next, Dispatcher, Environment, Start, Fetch, ResolveResult,
        RemoveUnmatched, Validate, NoMetadataFile, DownloadLatest,
        CheckResultsFile, CheckProcessedFile, CompareChecksum, CompareMissing,
        UploadMetadata, CreateFile, UploadRanges, UploadFails, DeletePartial,
        VerifyFile, VerifyMissing, DeleteInvalid, ProcessedMarked, PhaseDone,
        Abort, PublishResult, PassCounterpart, ConsumerTakes, Midnight, vars
<1>7. ~(UploadRanges \/ UploadFails \/ DeletePartial \/ DeleteInvalid)
         => Emitted' = Emitted
    BY EmittedStep DEF SafetyInv
<1>8. UpdateChunk \/ UpdateChunkFails =>
         ~(UploadRanges \/ UploadFails \/ DeletePartial \/ DeleteInvalid)
    BY DEF UpdateChunk, UpdateChunkFails, UploadRanges, UploadFails, DeletePartial,
        DeleteInvalid, Marking
<1>9. NegateResult =>
         ~(UploadRanges \/ UploadFails \/ DeletePartial \/ DeleteInvalid)
    BY DEF NegateResult, UploadRanges, UploadFails, DeletePartial, DeleteInvalid, Throw
<1>10. UploadRanges \/ UploadFails \/ DeletePartial \/ DeleteInvalid =>
         exported' = exported
    BY DEF UploadRanges, UploadFails, DeletePartial, DeleteInvalid
<1> QED
    BY <1>1, <1>2, <1>3, <1>4, <1>5, <1>6, <1>7, <1>8, <1>9, <1>10, EmittedStep
    DEF SafetyInv

LEMMA LogInit == Init => Log!Init
BY DEF Init, Log!Init, Emitted

\* The TARS dispatcher implements the log: whatever remote call fails and
\* whenever the host stops, the correct files get consecutive numbers, only the
\* last is ever deleted and only while none of its records is marked, and only
\* records of the last file are marked Processed.
THEOREM ImplementsResultsLog == Spec => ImplementsLog
<1>1. SafetyInv /\ DispatchInv /\ [Next]_vars => [Log!Next]_(Log!vars)
    BY LogStep
<1> QED
    BY <1>1, LogInit, Safety, HeldRecords, PTL DEF Spec, ImplementsLog, Log!Spec

-----------------------------------------------------------------------------
(* Nothing is sent twice without a failure.                                *)

\* Once a record is settled it stays so: marks are only taken off a pass, by
\* its negation.
LEMMA SettledStep ==
    ASSUME TypeOK, [Next]_vars
    PROVE  \A t \in Types, r \in Results : Settled(t, r) => Settled(t, r)'
<1> USE DEF crmVars, storeVars, loopVars, metaVars, runVars, histVars
<1>1. CASE UNCHANGED <<status, exported>>
    BY <1>1 DEF Settled
<1>2. CASE UpdateChunk \/ UpdateChunkFails
  <2>1. PICK C : Mark(C)
      BY <1>2 DEF UpdateChunk, UpdateChunkFails
  <2>2. pc \in {"mark", "markMalformed"} /\ status' = status
      BY <1>2 DEF UpdateChunk, UpdateChunkFails, Marking
  <2>3. \A r \in Results : exported[r] # "Unprocessed" => exported'[r] # "Unprocessed"
      BY <2>1, <2>2 DEF Mark, Marking
  <2> QED
      BY <2>2, <2>3 DEF Settled
<1>3. CASE PublishResult
    BY <1>3 DEF PublishResult, TypeOK, Settled
<1>4. CASE NegateResult
    BY <1>4 DEF NegateResult, TypeOK, Settled, Types
<1>5. UNCHANGED <<status, exported>> \/ UpdateChunk \/ UpdateChunkFails
         \/ PublishResult \/ NegateResult
    BY DEF Next, Dispatcher, Environment, Start, Fetch, ResolveResult,
        RemoveUnmatched, Validate, NoMetadataFile, DownloadLatest,
        CheckResultsFile, CheckProcessedFile, CompareChecksum, CompareMissing,
        UploadMetadata, CreateFile, UploadRanges, UploadFails, DeletePartial,
        VerifyFile, VerifyMissing, DeleteInvalid, ProcessedMarked, PhaseDone,
        Abort, PassCounterpart, ConsumerTakes, Midnight, vars
<1> QED
    BY <1>1, <1>2, <1>3, <1>4, <1>5

LEMMA NegatedStays ==
    ASSUME TypeOK, [Next]_vars
    PROVE  \A r \in Results : status[r] = "Negated" => status'[r] = "Negated"
<1>1. CASE PublishResult \/ NegateResult
    BY <1>1 DEF PublishResult, NegateResult, TypeOK
<1>2. status' = status \/ PublishResult \/ NegateResult
    BY DEF Next, Dispatcher, Environment, Start, Fetch, ResolveResult,
        RemoveUnmatched, Validate, NoMetadataFile, DownloadLatest,
        CheckResultsFile, CheckProcessedFile, CompareChecksum, CompareMissing,
        UploadMetadata, CreateFile, UploadRanges, UploadFails, DeletePartial,
        VerifyFile, VerifyMissing, DeleteInvalid, UpdateChunk, UpdateChunkFails,
        ProcessedMarked, PhaseDone, Abort, PassCounterpart, ConsumerTakes,
        Midnight, vars, crmVars
<1> QED
    BY <1>1, <1>2

\* A step that neither adds a file nor takes new records in hand.
LEMMA OnceKept ==
    ASSUME TypeOK, OnceInv, failures = 0, [Next]_vars,
           Emitted' = Emitted, Older' \subseteq Older, type' = type,
           results' \subseteq results, pc' \in Holding => pc \in Holding, HeldSettled'
    PROVE  OnceInv'
<1>1. Disjoint' /\ HeldNegated'
    BY NegatedStays DEF OnceInv, Disjoint, HeldNegated, TypeOK
<1>2. OlderSettled'
  <2>1. \A m \in Older : m.type \in Types /\ m.rows \subseteq Results
      BY EmittedType DEF Older, Metadata
  <2> QED
      BY <2>1, SettledStep DEF OnceInv, OlderSettled
<1>3. pc' \in Holding => OlderDisjoint'
    BY DEF OnceInv, OlderDisjoint
<1> QED
    BY <1>1, <1>2, <1>3 DEF OnceInv

\* A step within the writing steps: the target stays what it is.
LEMMA OlderKept ==
    ASSUME UNCHANGED <<basic, type, results>>, pc \in Writing \cup {"mark"},
           pc' \in Writing \cup {"mark"}, Emitted' \subseteq Emitted \cup {Target}
    PROVE  Older' \subseteq Older
BY DEF Older, Target

LEMMA FetchOnce ==
    ASSUME TypeOK, OnceInv, failures = 0, Fetch
    PROVE  OnceInv'
<1> USE DEF crmVars, storeVars, loopVars, metaVars, histVars
<1>1. Emitted' = Emitted
    BY FilesKept DEF Fetch
<1>2. Older' = Emitted /\ Older = Emitted
    BY <1>1 DEF Fetch, Older, Writing
<1>3. results' \subseteq Unprocessed(type) /\ UNCHANGED <<type, status, exported>>
    BY DEF Fetch
<1>4. HeldNegated' /\ HeldSettled'
    BY <1>3 DEF Fetch, HeldNegated, HeldSettled, Unprocessed
<1>5. \A m \in Emitted : \A r \in m.rows : Settled(m.type, r)
    BY <1>2 DEF OnceInv, OlderSettled
<1>6. OlderSettled'
    BY <1>2, <1>3, <1>5 DEF OlderSettled, Settled
<1>7. OlderDisjoint'
    BY <1>2, <1>3, <1>5 DEF OlderDisjoint, Settled, Unprocessed, TypeOK, Types
<1> QED
    BY <1>1, <1>4, <1>6, <1>7 DEF OnceInv, Disjoint

LEMMA UploadOnce ==
    ASSUME SafetyInv, OnceInv, failures = 0, [Next]_vars, UploadRanges \/ UploadFails
    PROVE  OnceInv'
<1> USE DEF crmVars, storeVars, loopVars, metaVars, histVars
<1>1. /\ UNCHANGED <<basic, type, results, left, status, exported>>
      /\ pc = "upload" /\ pc' \in Writing
    BY DEF UploadRanges, UploadFails, Writing
<1>2. Emitted' = Emitted \/ Emitted' = Emitted \cup {Target}
    BY <1>1, EmittedStep DEF SafetyInv, DeletePartial, DeleteInvalid
<1>3. Older' \subseteq Older /\ HeldSettled' /\ pc \in Holding
    BY <1>1, <1>2, OlderKept DEF Writing, HeldSettled, Holding
<1>4. CASE Emitted' = Emitted
    BY <1>1, <1>3, <1>4, OnceKept DEF SafetyInv
<1>5. CASE Emitted' = Emitted \cup {Target}
  <2>1. Target.rows = results /\ Target.type = type
      BY DEF Target
  <2>2. \A m \in Emitted \ {Target} : m.type = type => m.rows \cap results = {}
      BY <1>1, <1>3 DEF OnceInv, OlderDisjoint, Older, Writing
  <2>3. Disjoint'
      BY <1>5, <2>1, <2>2 DEF OnceInv, Disjoint
  <2>4. HeldNegated' /\ OlderSettled' /\ OlderDisjoint'
      BY <1>1, <1>3 DEF OnceInv, HeldNegated, OlderSettled, OlderDisjoint, Settled
  <2> QED
      BY <1>3, <2>3, <2>4 DEF OnceInv
<1> QED
    BY <1>2, <1>4, <1>5

LEMMA MarkOnce ==
    ASSUME SafetyInv, OnceInv, failures = 0, [Next]_vars, UpdateChunk
    PROVE  OnceInv'
<1> USE DEF crmVars, storeVars, loopVars, metaVars, histVars
<1>1. PICK C \in SUBSET left : Mark(C) /\ left' = left \ C
    BY DEF UpdateChunk
<1>2. /\ UNCHANGED <<files, taken, pc, basic, type, results, status>>
      /\ pc \in {"mark", "markMalformed"}
    BY DEF UpdateChunk, Marking
<1>3. Emitted' = Emitted /\ Older' \subseteq Older
    BY <1>2, FilesKept, OlderKept DEF Older, Writing
<1>4. HeldSettled'
  <2> SUFFICES ASSUME pc = "mark", NEW r \in results \ left'
               PROVE  Settled(type, r)'
      BY <1>2 DEF HeldSettled
  <2>1. r \in Results /\ type \in Types
      BY DEF SafetyInv, TypeOK
  <2>2. CASE r \in left
    <3>1. exported'[r] = "Processed"
        BY <1>1, <2>1, <2>2 DEF Mark, Marking
    <3>2. type = "NEGATED_RESULT" => status[r] = "Negated"
        BY DEF OnceInv, HeldNegated
    <3> QED
        BY <1>2, <3>1, <3>2 DEF Settled
  <2>3. CASE r \notin left
    <3>1. Settled(type, r)
        BY <2>3 DEF OnceInv, HeldSettled
    <3>2. Settled(type, r)' <=> \E t \in Types : t = type /\ Settled(t, r)'
        BY <1>2, <2>1 DEF Settled
    <3> QED
        BY <2>1, <3>1, <3>2, SettledStep DEF SafetyInv
  <2> QED
      BY <2>2, <2>3
<1> QED
    BY <1>2, <1>3, <1>4, OnceKept DEF SafetyInv

LEMMA MarkedOnce ==
    ASSUME SafetyInv, OnceInv, failures = 0, [Next]_vars, ProcessedMarked
    PROVE  OnceInv'
<1> USE DEF crmVars, storeVars, loopVars, metaVars, histVars
<1>1. /\ UNCHANGED <<files, taken, type, results, status, exported>>
      /\ pc = "mark" /\ pc' = "markMalformed" /\ left = {}
    BY DEF ProcessedMarked
<1>2. Emitted' = Emitted /\ Older' = Emitted /\ Older = Emitted \ {Target}
    BY <1>1, FilesKept DEF Older, Writing
<1>3. \A r \in Target.rows : Settled(Target.type, r)
    BY <1>1 DEF OnceInv, HeldSettled, Target
<1>4. OlderSettled'
    BY <1>1, <1>2, <1>3 DEF OnceInv, OlderSettled, Settled
<1>5. Disjoint' /\ HeldNegated' /\ HeldSettled'
    BY <1>1, <1>2 DEF OnceInv, Disjoint, HeldNegated, HeldSettled
<1>6. pc' \notin Holding
    BY <1>1 DEF Holding, Preparing, Writing
<1> QED
    BY <1>4, <1>5, <1>6 DEF OnceInv

LEMMA PhaseOnce ==
    ASSUME SafetyInv, OnceInv, failures = 0, [Next]_vars, PhaseDone
    PROVE  OnceInv'
<1> USE DEF crmVars, storeVars, loopVars, metaVars, histVars
<1>1. /\ UNCHANGED <<files, taken, status, exported>> /\ results' = {}
      /\ pc = "markMalformed" /\ pc' \in {"fetch", "idle"}
    BY DEF PhaseDone, ResetLocals
<1>2. Emitted' = Emitted /\ Older' = Emitted /\ Older = Emitted
    BY <1>1, FilesKept DEF Older, Writing
<1> QED
    BY <1>1, <1>2 DEF OnceInv, Disjoint, HeldNegated, OlderSettled, OlderDisjoint,
        Settled, HeldSettled

LEMMA OnceStep ==
    ASSUME SafetyInv, OnceInv, [Next]_vars
    PROVE  OnceInv'
<1> USE DEF crmVars, storeVars, loopVars, metaVars, runVars, histVars
<1>1. SUFFICES ASSUME failures' = 0 PROVE OnceInv'
    BY DEF OnceInv
<1>2. ~Throw /\ failures \in Nat
    BY <1>1 DEF Throw, SafetyInv, TypeOK
<1>3. failures = 0
    BY <1>1, <1>2 DEF Next, Dispatcher, Environment, Start, Fetch, ResolveResult,
        RemoveUnmatched, Validate, NoMetadataFile, DownloadLatest,
        CheckResultsFile, CheckProcessedFile, CompareChecksum, CompareMissing,
        UploadMetadata, CreateFile, UploadRanges, UploadFails, DeletePartial,
        VerifyFile, VerifyMissing, DeleteInvalid, UpdateChunk, UpdateChunkFails,
        ProcessedMarked, PhaseDone, Abort, PublishResult, NegateResult,
        PassCounterpart, ConsumerTakes, Midnight, vars
<1>4. CASE Start \/ ResolveResult \/ RemoveUnmatched \/ Validate
  <2>1. /\ UNCHANGED <<files, taken, type>> /\ results' \subseteq results
        /\ pc' # "mark" /\ pc' \notin Writing /\ pc \notin Writing \cup {"mark"}
        /\ pc' \in Holding => pc \in Holding
      BY <1>4 DEF Start, ResolveResult, RemoveUnmatched, Validate, Holding,
          Preparing, Writing
  <2>2. Emitted' = Emitted /\ Older' \subseteq Older /\ HeldSettled'
      BY <2>1, FilesKept DEF Older, HeldSettled
  <2> QED
      BY <1>3, <2>1, <2>2, OnceKept DEF SafetyInv
<1>5. CASE Fetch
    BY <1>3, <1>5, FetchOnce DEF SafetyInv
<1>6. CASE \/ NoMetadataFile \/ DownloadLatest \/ CheckResultsFile
           \/ CheckProcessedFile \/ CompareChecksum \/ UploadMetadata
  <2>1. /\ UNCHANGED <<files, taken, type, results>>
        /\ pc' # "mark" /\ pc \in Preparing
      BY <1>6 DEF NoMetadataFile, DownloadLatest, CheckResultsFile,
          CheckProcessedFile, CompareChecksum, UploadMetadata, Preparing
  <2>2. Emitted' = Emitted /\ Older = Emitted /\ HeldSettled' /\ pc \in Holding
      BY <2>1, FilesKept DEF Older, HeldSettled, Holding, Preparing, Writing
  <2>3. Older' \subseteq Older
      BY <2>2 DEF Older
  <2> QED
      BY <1>3, <2>1, <2>2, <2>3, OnceKept DEF SafetyInv
<1>7. CASE UploadRanges \/ UploadFails
    BY <1>3, <1>7, UploadOnce
<1>8. CASE CreateFile \/ VerifyFile
  <2>1. /\ UNCHANGED <<basic, type, results, status, exported>>
        /\ pc \in Writing /\ pc' \in Writing \cup {"mark"}
        /\ pc' = "mark" => left' = results'
      BY <1>8 DEF CreateFile, VerifyFile, Writing
  <2>2. Emitted' = Emitted
      BY <1>8, EmittedStep DEF SafetyInv, CreateFile, VerifyFile, UploadRanges,
          UploadFails, DeletePartial, DeleteInvalid
  <2>3. Older' \subseteq Older /\ HeldSettled' /\ pc \in Holding
      BY <2>1, <2>2, OlderKept DEF HeldSettled, Holding
  <2> QED
      BY <1>3, <2>1, <2>2, <2>3, OnceKept DEF SafetyInv
<1>9. CASE UpdateChunk
    BY <1>3, <1>9, MarkOnce
<1>10. CASE ProcessedMarked
    BY <1>3, <1>10, MarkedOnce
<1>11. CASE PhaseDone
    BY <1>3, <1>11, PhaseOnce
<1>12. CASE PublishResult \/ NegateResult \/ PassCounterpart \/ ConsumerTakes
            \/ Midnight \/ UNCHANGED vars
  <2>1. UNCHANGED runVars
      BY <1>12 DEF PublishResult, NegateResult, PassCounterpart, ConsumerTakes,
          Midnight, vars
  <2>2. Emitted' = Emitted
      BY <1>12, RenameKeeps, FilesKept DEF PublishResult, NegateResult,
          PassCounterpart, Midnight, vars, SafetyInv, StorageInv
  <2>3. Older' \subseteq Older
      BY <2>1, <2>2 DEF Older, Target
  <2>4. HeldSettled'
    <3>1. \A r \in results : r \in Results
        BY DEF SafetyInv, TypeOK
    <3>2. type \in Types /\ type' = type
        BY <2>1 DEF SafetyInv, TypeOK
    <3>3. \A r \in Results : Settled(type, r)' <=> \E t \in Types : t = type /\ Settled(t, r)'
        BY <3>2 DEF Settled
    <3>4. pc = "mark" => \A r \in results \ left : Settled(type, r)
        BY <1>3 DEF OnceInv, HeldSettled
    <3> QED
        BY <2>1, <3>1, <3>2, <3>3, <3>4, SettledStep DEF HeldSettled, SafetyInv
  <2> QED
      BY <1>3, <2>1, <2>2, <2>3, <2>4, OnceKept DEF SafetyInv
<1>13. ~(\/ CompareMissing \/ DeletePartial \/ VerifyMissing \/ DeleteInvalid
          \/ UpdateChunkFails \/ Abort)
    BY <1>2 DEF CompareMissing, DeletePartial, VerifyMissing, DeleteInvalid,
        UpdateChunkFails, Abort
<1> QED
    BY <1>4, <1>5, <1>6, <1>7, <1>8, <1>9, <1>10, <1>11, <1>12, <1>13
    DEF Next, Dispatcher, Environment

LEMMA InitOnce == Init => OnceInv
BY DEF Init, OnceInv, Disjoint, HeldNegated, OlderSettled, OlderDisjoint,
    HeldSettled, Holding, Preparing, Writing, Older, Emitted

\* While no invocation has failed, no record is in two correct files of the same
\* kind: a file's records are settled before the next query, and what a running
\* invocation holds is in no earlier file, even if it is negated meanwhile.
THEOREM NothingTwice == Spec => []OnceWithoutFailure
<1>1. OnceInv => OnceWithoutFailure
    BY DEF OnceInv, Disjoint, OnceWithoutFailure
<1>2. SafetyInv /\ OnceInv /\ [Next]_vars => OnceInv'
    BY OnceStep
<1> QED
    BY <1>1, <1>2, InitOnce, Safety, PTL DEF Spec
=============================================================================
