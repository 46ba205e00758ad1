------------------------- MODULE TarsSystem_proofs -------------------------
(***************************************************************************)
(* Housekeeping beside the TARS dispatcher, for any set of results, any    *)
(* number of failures of both and wherever their steps fall between each   *)
(* other.  The invariant says that what a loop of housekeeping has still   *)
(* to delete, by the names it once listed, is superseded by now.           *)
(***************************************************************************)
EXTENDS TarsSystem, TarsLog_proofs

NameOf(m) == [day |-> m.day, daily |-> m.daily, type |-> m.type]

\* A file to be deleted is followed by a delivered one.
FilesSuperseded ==
    step = "deleteFiles" =>
        \A n \in old : \E m, k \in Delivered : n = NameOf(m) /\ Before(m, k)

\* A blob to be deleted is followed by another.
BlobsSuperseded ==
    step = "deleteBlobs" => \A n \in old : \E k \in metadata : n < k.seq

SystemInv ==
    /\ SystemTypeOK
    /\ BlobsSuperseded
    /\ TakenCorrect => SafetyInv /\ FilesSuperseded

-----------------------------------------------------------------------------
(* What the dispatcher does to them.                                       *)

LEMMA TakenGrows ==
    ASSUME [Next]_vars
    PROVE  taken \subseteq taken'
<1> USE DEF crmVars, storeVars, loopVars, metaVars, runVars, histVars
<1>1. CASE ConsumerTakes
    BY <1>1 DEF ConsumerTakes
<1>2. CASE Start \/ Fetch \/ ResolveResult \/ RemoveUnmatched \/ Validate
    BY <1>2 DEF Start, Fetch, ResolveResult, RemoveUnmatched, Validate
<1>3. CASE \/ NoMetadataFile \/ DownloadLatest \/ CheckResultsFile
           \/ CheckProcessedFile \/ CompareChecksum \/ CompareMissing
    BY <1>3 DEF NoMetadataFile, DownloadLatest, CheckResultsFile, CheckProcessedFile,
        CompareChecksum, CompareMissing, Throw
<1>4. CASE \/ UploadMetadata \/ CreateFile \/ UploadRanges \/ UploadFails
           \/ DeletePartial \/ VerifyFile \/ VerifyMissing \/ DeleteInvalid
    BY <1>4 DEF UploadMetadata, CreateFile, UploadRanges, UploadFails, DeletePartial,
        VerifyFile, VerifyMissing, DeleteInvalid, Throw
<1>5. CASE UpdateChunk \/ UpdateChunkFails \/ ProcessedMarked \/ PhaseDone \/ Abort
    BY <1>5 DEF UpdateChunk, UpdateChunkFails, ProcessedMarked, PhaseDone, Abort, Throw
<1>6. CASE PublishResult \/ NegateResult \/ PassCounterpart \/ Midnight
    BY <1>6 DEF PublishResult, NegateResult, PassCounterpart, Midnight
<1>7. CASE UNCHANGED vars
    BY <1>7 DEF vars
<1> QED
    BY <1>1, <1>2, <1>3, <1>4, <1>5, <1>6, <1>7 DEF Next, Dispatcher, Environment

\* A blob is only replaced by one of the same number.
LEMMA NumbersStay ==
    ASSUME [Next]_vars, NEW k \in metadata
    PROVE  \E l \in metadata' : l.seq = k.seq
<1> USE DEF crmVars, storeVars, loopVars, metaVars, runVars, histVars
<1>1. CASE UploadMetadata
  <2>1. Target.seq = basic.seq
      BY DEF Target
  <2>2. metadata' = {m \in metadata : m.seq # basic.seq} \cup {Target}
      BY <1>1 DEF UploadMetadata
  <2>3. CASE k.seq = basic.seq
      BY <2>1, <2>2, <2>3
  <2>4. CASE k.seq # basic.seq
      BY <2>2, <2>4
  <2> QED
      BY <2>3, <2>4
<1>2. CASE UNCHANGED metadata
    BY <1>2
<1>3. CASE Start \/ Fetch \/ ResolveResult \/ RemoveUnmatched \/ Validate
    BY <1>3 DEF Start, Fetch, ResolveResult, RemoveUnmatched, Validate
<1>4. CASE \/ NoMetadataFile \/ DownloadLatest \/ CheckResultsFile
           \/ CheckProcessedFile \/ CompareChecksum \/ CompareMissing
    BY <1>4 DEF NoMetadataFile, DownloadLatest, CheckResultsFile, CheckProcessedFile,
        CompareChecksum, CompareMissing
<1>5. CASE \/ CreateFile \/ UploadRanges \/ UploadFails
           \/ DeletePartial \/ VerifyFile \/ VerifyMissing \/ DeleteInvalid
    BY <1>5 DEF CreateFile, UploadRanges, UploadFails, DeletePartial,
        VerifyFile, VerifyMissing, DeleteInvalid
<1>6. CASE UpdateChunk \/ UpdateChunkFails \/ ProcessedMarked \/ PhaseDone \/ Abort
    BY <1>6 DEF UpdateChunk, UpdateChunkFails, ProcessedMarked, PhaseDone, Abort
<1>7. CASE PublishResult \/ NegateResult \/ PassCounterpart \/ ConsumerTakes \/ Midnight
    BY <1>7 DEF PublishResult, NegateResult, PassCounterpart, ConsumerTakes, Midnight
<1> QED
    BY <1>1, <1>2, <1>3, <1>4, <1>5, <1>6, <1>7 DEF Next, Dispatcher, Environment, vars

LEMMA DispatcherKeeps ==
    ASSUME SystemInv, [Next]_vars, UNCHANGED housekeepingVars
    PROVE  SystemInv'
<1>1. UNCHANGED <<step, old, errors>>
    BY DEF housekeepingVars
<1>2. SystemTypeOK'
    BY <1>1, TypeStep DEF SystemInv, SystemTypeOK
<1>3. BlobsSuperseded'
  <2> SUFFICES ASSUME step = "deleteBlobs", NEW n \in old
               PROVE  \E k \in metadata' : n < k.seq
      BY <1>1 DEF BlobsSuperseded
  <2>1. PICK k \in metadata : n < k.seq
      BY DEF SystemInv, BlobsSuperseded
  <2>2. PICK l \in metadata' : l.seq = k.seq
      BY NumbersStay
  <2> QED
      BY <2>1, <2>2
<1>4. ASSUME TakenCorrect'
      PROVE  SafetyInv' /\ FilesSuperseded'
  <2>1. TakenCorrect /\ Delivered \subseteq Delivered'
      BY <1>4, TakenGrows DEF TakenCorrect, Delivered
  <2>2. SafetyInv /\ FilesSuperseded
      BY <2>1 DEF SystemInv
  <2>3. SafetyInv'
      BY <2>2, SafetyStep
  <2>4. FilesSuperseded'
      BY <1>1, <2>1, <2>2 DEF FilesSuperseded
  <2> QED
      BY <2>3, <2>4
<1> QED
    BY <1>2, <1>3, <1>4 DEF SystemInv

-----------------------------------------------------------------------------
(* What housekeeping does to the dispatcher's storage.                     *)

\* Under TakenCorrect every processed file is a delivered one.
LEMMA ProcessedDelivers ==
    ASSUME ProcessedTaken, TakenCorrect, NEW f \in files, f.processed
    PROVE  f.of \in Delivered
<1> DEFINE u == [of |-> f.of, intact |-> f.intact, processed |-> FALSE]
<1>1. u \in taken /\ u.of = f.of
    BY Zenon DEF ProcessedTaken
<1>2. u.intact
    BY <1>1 DEF TakenCorrect
<1> HIDE DEF u
<1> QED
    BY <1>1, <1>2 DEF Delivered

\* What a listing finds superseded among the names is so among the files.
LEMMA ListedSuperseded ==
    ASSUME SafetyInv, TakenCorrect, NEW n \in Housekeeping!OldFiles
    PROVE  \E m, k \in Delivered : n = NameOf(m) /\ Before(m, k)
<1>1. PICK f \in files, h \in files :
          /\ f.processed /\ h.processed
          /\ n = Housekeeping!FileName(f)
          /\ Housekeeping!NameLess(n, Housekeeping!FileName(h))
    BY DEF Housekeeping!OldFiles, Housekeeping!ProcessedNames
<1>2. f.of \in Delivered /\ h.of \in Delivered
    BY <1>1, ProcessedDelivers DEF SafetyInv, StorageInv
<1>3. f.of \in Emitted /\ h.of \in Emitted /\ f.of \in Metadata /\ h.of \in Metadata
    BY <1>2, EmittedType DEF SafetyInv
<1>4. n = NameOf(f.of)
    BY <1>1 DEF Housekeeping!FileName, NameOf
<1> DEFINE p == f.of
           q == h.of
<1>5. \/ p.day < q.day
      \/ p.day = q.day /\ p.daily < q.daily
      \/ p.day = q.day /\ p.daily = q.daily
            /\ Housekeeping!Digit[p.type] < Housekeeping!Digit[q.type]
    BY <1>1 DEF Housekeeping!FileName, Housekeeping!NameLess
<1>6. p = q \/ Before(p, q) \/ Before(q, p)
    BY <1>3 DEF SafetyInv, StorageInv, EmittedOrdered
<1>7. p # q /\ ~Before(q, p)
    BY <1>3, <1>5 DEF Before, Earlier, Metadata, Housekeeping!Digit, Types
<1> QED
    BY <1>2, <1>4, <1>6, <1>7

\* Deleting processed files takes none away that TARS was not given.
LEMMA ProcessedDeleted ==
    ASSUME ProcessedTaken, TakenCorrect, taken' = taken, files' \subseteq files,
           \A f \in files : ~f.processed => f \in files'
    PROVE  Emitted' = Emitted /\ Delivered' = Delivered
<1>1. \A f \in files : f.processed => f.of \in Delivered
    BY ProcessedDelivers
<1>2. Delivered' = Delivered
    BY DEF Delivered
<1>3. Emitted = Delivered \cup {f.of : f \in {g \in files : g.intact /\ ~g.processed}}
    BY <1>1 DEF Emitted, Delivered
<1>4. Emitted' \subseteq Emitted /\ Delivered \subseteq Emitted'
    BY DEF Emitted, Delivered
<1>5. {f.of : f \in {g \in files : g.intact /\ ~g.processed}} \subseteq Emitted'
    BY DEF Emitted
<1> QED
    BY <1>2, <1>3, <1>4, <1>5

LEMMA FileDeleted ==
    ASSUME SafetyInv, TypeOK', TakenCorrect, FilesSuperseded, step = "deleteFiles",
           NEW n \in old,
           files' = {f \in files : ~(f.processed /\ Housekeeping!FileName(f) = n)},
           UNCHANGED <<crmVars, metadata, today, runVars, histVars>>
    PROVE  SafetyInv'
<1>1. /\ UNCHANGED <<status, exported, raced, taken, results, type, basic>>
      /\ files' \subseteq files
    BY DEF crmVars, runVars, loopVars, metaVars, histVars
<1>2. Emitted' = Emitted /\ Delivered' = Delivered
    BY <1>1, ProcessedDeleted DEF SafetyInv, StorageInv
<1>3. /\ \A m : Named(m, FALSE)' = Named(m, FALSE)
      /\ \A m : IsLatest(m)' <=> IsLatest(m)
    BY DEF Named, IsLatest
<1>4. ASSUME NEW l \in metadata, IsLatest(l)
      PROVE  Named(l, TRUE)' = Named(l, TRUE)
  <2>1. PICK m \in Delivered, k \in Delivered : n = NameOf(m) /\ Before(m, k)
      BY DEF FilesSuperseded
  <2>2. m \in Metadata /\ k \in Metadata /\ k \in Emitted /\ l \in Metadata
      BY <2>1, EmittedType DEF SafetyInv, TypeOK
  <2>3. k = l \/ Before(k, l)
      BY <1>4, <2>2 DEF SafetyInv, StorageInv, Frontier
  <2>4. Earlier(m, l)
      BY <2>1, <2>2, <2>3 DEF Before, Earlier, Metadata
  <2>5. ~(m.day = l.day /\ m.daily = l.daily)
      BY <2>2, <2>4 DEF Earlier, Metadata
  <2>6. \A f \in Named(l, TRUE) : Housekeeping!FileName(f) # n
      BY <2>1, <2>5 DEF Named, SameName, Housekeeping!FileName, NameOf
  <2> QED
      BY <2>6 DEF Named
<1>5. StorageInv'
  <2>1. ProcessedTaken' /\ OneFilePerName'
      BY <1>1 DEF SafetyInv, StorageInv, ProcessedTaken, OneFilePerName
  <2>2. OneBlobPerNumber' /\ NoFutureBlob'
      BY DEF SafetyInv, StorageInv, OneBlobPerNumber, NoFutureBlob
  <2>3. EmittedOrdered' /\ Frontier' /\ SequenceContiguous' /\ LatestPreceded'
      BY <1>2, <1>3 DEF SafetyInv, StorageInv, EmittedOrdered, Frontier,
          SequenceContiguous, LatestPreceded, Preceded
  <2>4. LatestKept'
      BY <1>2, <1>3, <1>4 DEF SafetyInv, StorageInv, LatestKept, Exists, SameChecksum
  <2> QED
      BY <2>1, <2>2, <2>3, <2>4 DEF StorageInv
<1>6. SupportedBy(Emitted)
    BY DEF SafetyInv, ProcessedDelivered, SupportedBy
<1>7. \A F : SupportedBy(F) => SupportedBy(F)'
    BY <1>1, SupportKept
<1>8. StepInv'
  <2>1. today <= today'
      BY ConstantsAssumption DEF SafetyInv, TypeOK
  <2> QED
      BY <1>1, <1>2, <1>3, <1>6, <1>7, <2>1, SurroundingsStep DEF SafetyInv
<1>9. ProcessedDelivered'
    BY <1>1, <1>2 DEF SafetyInv, ProcessedDelivered
<1> QED
    BY <1>5, <1>8, <1>9 DEF SafetyInv

LEMMA BlobDeleted ==
    ASSUME SafetyInv, TypeOK', BlobsSuperseded, step = "deleteBlobs",
           NEW n \in old, n \in Nat,
           metadata' = {m \in metadata : m.seq # n},
           UNCHANGED <<crmVars, files, today, runVars, histVars>>
    PROVE  SafetyInv'
<1>1. UNCHANGED <<status, exported, raced, taken, pc, results, type, basic, latest,
                  prefixed, left>>
    BY DEF crmVars, runVars, loopVars, metaVars, histVars
<1>2. PICK k \in metadata' : n < k.seq /\ k \in metadata
  <2>1. PICK k \in metadata : n < k.seq
      BY DEF BlobsSuperseded
  <2> QED
      BY <2>1 DEF SafetyInv, TypeOK, Metadata
<1>3. \A m \in metadata : m.seq \in Nat
    BY DEF SafetyInv, TypeOK, Metadata
<1>4. \A l \in metadata : IsLatest(l) => l \in metadata' /\ IsLatest(l)'
    BY <1>2, <1>3 DEF IsLatest
<1>5. \A l \in metadata' : IsLatest(l)' => l \in metadata /\ IsLatest(l)
    BY <1>2, <1>3 DEF IsLatest
<1>6. /\ Emitted' = Emitted /\ Delivered' = Delivered
      /\ \A m, pre : Named(m, pre)' = Named(m, pre)
    BY <1>1, FilesKept
<1>7. Target' = Target
    BY <1>1 DEF Target
<1>8. StorageInv'
  <2>1. ProcessedTaken' /\ OneFilePerName'
      BY <1>1 DEF SafetyInv, StorageInv, ProcessedTaken, OneFilePerName
  <2>2. OneBlobPerNumber' /\ NoFutureBlob'
      BY DEF SafetyInv, StorageInv, OneBlobPerNumber, NoFutureBlob
  <2>3. EmittedOrdered' /\ SequenceContiguous'
      BY <1>6 DEF SafetyInv, StorageInv, EmittedOrdered, SequenceContiguous
  <2>4. Frontier'
      BY <1>2, <1>5, <1>6 DEF SafetyInv, StorageInv, Frontier
  <2>5. LatestPreceded'
      BY <1>5, <1>6 DEF SafetyInv, StorageInv, LatestPreceded, Preceded
  <2>6. LatestKept'
      BY <1>5, <1>6 DEF SafetyInv, StorageInv, LatestKept, Exists
  <2> QED
      BY <2>1, <2>2, <2>3, <2>4, <2>5, <2>6 DEF StorageInv
<1>9. StepInv'
  <2>1. FetchedKind' /\ Examining'
      BY <1>1, <1>4, <1>6 DEF SafetyInv, StepInv, FetchedKind, Examining
  <2>2. Numbered'
      BY <1>1, <1>6 DEF SafetyInv, StepInv, Numbered, Preceded
  <2>3. SupportedElsewhere => SupportedElsewhere'
      BY <1>1, <1>6, <1>7 DEF SupportedElsewhere, SupportedBy
  <2>4. Written'
      BY <1>1, <1>4, <1>6, <1>7, <2>3 DEF SafetyInv, StepInv, Written
  <2> QED
      BY <2>1, <2>2, <2>4 DEF StepInv
<1>10. ProcessedDelivered'
    BY <1>1, <1>6 DEF SafetyInv, ProcessedDelivered
<1> QED
    BY <1>8, <1>9, <1>10 DEF SafetyInv
-----------------------------------------------------------------------------
LEMMA HousekeepingQuiet ==
    ASSUME SystemInv, UNCHANGED vars
    PROVE  (TakenCorrect => SafetyInv)' /\ TypeOK'
<1>1. TakenCorrect' => TakenCorrect
    BY DEF vars, histVars, TakenCorrect
<1> QED
    BY <1>1, SafetyStep, TypeStep DEF SystemInv, SystemTypeOK

\* The first half: what a listing finds superseded stays so.
LEMMA HousekeepingOfFiles ==
    ASSUME SystemInv, UNCHANGED <<crmVars, today, runVars, histVars>>,
           \/ Housekeeping!StartHousekeeping \/ Housekeeping!ListFiles
           \/ Housekeeping!DeleteFile \/ Housekeeping!OldFilesDeleted
           \/ Housekeeping!FilesFail
    PROVE  SystemInv'
<1>1. CASE \/ Housekeeping!StartHousekeeping \/ Housekeeping!OldFilesDeleted
           \/ Housekeeping!FilesFail
  <2>1. UNCHANGED vars
      BY <1>1 DEF vars, storeVars, Housekeeping!StartHousekeeping,
          Housekeeping!OldFilesDeleted, Housekeeping!FilesFail
  <2>2. step' \in {"listFiles", "listBlobs"} /\ old' = {} /\ errors' \in 0..MaxHousekeepingFailures
      BY <1>1, HousekeepingAssumption DEF SystemInv, SystemTypeOK, Housekeeping!StartHousekeeping,
          Housekeeping!OldFilesDeleted, Housekeeping!FilesFail
  <2> QED
      BY <2>1, <2>2, HousekeepingQuiet DEF SystemInv, SystemTypeOK, BlobsSuperseded,
          FilesSuperseded
<1>2. CASE Housekeeping!ListFiles
  <2>1. UNCHANGED vars
      BY <1>2 DEF vars, storeVars, Housekeeping!ListFiles
  <2>2. step' = "deleteFiles" /\ old' = Housekeeping!OldFiles /\ errors' = errors
      BY <1>2 DEF Housekeeping!ListFiles
  <2>3. Housekeeping!OldFiles \subseteq [day : Nat, daily : Nat, type : Types]
      BY DEF SystemInv, SystemTypeOK, TypeOK, File, Metadata, Housekeeping!OldFiles,
          Housekeeping!ProcessedNames, Housekeeping!FileName
  <2>4. SystemTypeOK' /\ BlobsSuperseded'
      BY <2>1, <2>2, <2>3, HousekeepingQuiet DEF SystemInv, SystemTypeOK, BlobsSuperseded
  <2>5. ASSUME TakenCorrect'
        PROVE  FilesSuperseded'
    <3>1. TakenCorrect /\ SafetyInv /\ Delivered' = Delivered
        BY <2>1, <2>5 DEF vars, histVars, TakenCorrect, SystemInv, Delivered
    <3> QED
        BY <2>2, <3>1, ListedSuperseded DEF FilesSuperseded
  <2> QED
      BY <2>1, <2>4, <2>5, HousekeepingQuiet DEF SystemInv
<1>3. CASE Housekeeping!DeleteFile
  <2>1. PICK n \in old :
            /\ files' = {f \in files : ~(f.processed /\ Housekeeping!FileName(f) = n)}
            /\ old' = old \ {n}
      BY <1>3 DEF Housekeeping!DeleteFile
  <2>2. UNCHANGED <<metadata, step, errors, taken>> /\ step = "deleteFiles"
      BY <1>3 DEF Housekeeping!DeleteFile, histVars
  <2>3. TypeOK'
      BY <2>1, <2>2 DEF SystemInv, SystemTypeOK, TypeOK, crmVars, runVars, loopVars,
          metaVars, histVars
  <2>4. SystemTypeOK' /\ BlobsSuperseded'
      BY <2>1, <2>2, <2>3 DEF SystemInv, SystemTypeOK, BlobsSuperseded
  <2>5. ASSUME TakenCorrect'
        PROVE  SafetyInv' /\ FilesSuperseded'
    <3>1. TakenCorrect /\ SafetyInv /\ FilesSuperseded /\ Delivered' = Delivered
        BY <2>2, <2>5 DEF TakenCorrect, SystemInv, Delivered
    <3>2. SafetyInv'
        BY <2>1, <2>2, <2>3, <3>1, FileDeleted
    <3> QED
        BY <2>1, <2>2, <3>1, <3>2 DEF FilesSuperseded
  <2> QED
      BY <2>4, <2>5 DEF SystemInv
<1> QED
    BY <1>1, <1>2, <1>3

\* The second half: a blob that stands for the superseded ones may be deleted
\* itself, but then by a name that is superseded too.
LEMMA HousekeepingOfBlobs ==
    ASSUME SystemInv, UNCHANGED <<crmVars, today, runVars, histVars>>,
           \/ Housekeeping!ListBlobs \/ Housekeeping!DeleteBlob
           \/ Housekeeping!OldBlobsDeleted \/ Housekeeping!HousekeepingStops
    PROVE  SystemInv'
<1>1. CASE Housekeeping!OldBlobsDeleted \/ Housekeeping!HousekeepingStops
  <2>1. UNCHANGED vars
      BY <1>1 DEF vars, storeVars, Housekeeping!OldBlobsDeleted,
          Housekeeping!HousekeepingStops
  <2>2. step' = "idle" /\ old' = {} /\ errors' \in 0..MaxHousekeepingFailures
      BY <1>1, HousekeepingAssumption DEF SystemInv, SystemTypeOK,
          Housekeeping!OldBlobsDeleted, Housekeeping!HousekeepingStops
  <2> QED
      BY <2>1, <2>2, HousekeepingQuiet DEF SystemInv, SystemTypeOK, BlobsSuperseded,
          FilesSuperseded
<1>2. CASE Housekeeping!ListBlobs
  <2>1. UNCHANGED vars
      BY <1>2 DEF vars, storeVars, Housekeeping!ListBlobs
  <2>2. /\ old' = Housekeeping!OldBlobs /\ errors' = errors
        /\ step' = IF metadata = {} THEN "idle" ELSE "deleteBlobs"
      BY <1>2 DEF Housekeeping!ListBlobs
  <2>3. /\ Housekeeping!OldBlobs \subseteq Nat
        /\ metadata = {} => Housekeeping!OldBlobs = {}
        /\ \A n \in Housekeeping!OldBlobs : \E k \in metadata : n < k.seq
      BY DEF SystemInv, SystemTypeOK, TypeOK, Metadata, Housekeeping!OldBlobs,
          Housekeeping!BlobNames
  <2>4. metadata' = metadata
      BY <2>1 DEF vars, storeVars
  <2>5. SystemTypeOK' /\ BlobsSuperseded' /\ FilesSuperseded'
      BY <2>1, <2>2, <2>3, <2>4, HousekeepingQuiet DEF SystemInv, SystemTypeOK,
          BlobsSuperseded, FilesSuperseded
  <2> QED
      BY <2>1, <2>5, HousekeepingQuiet DEF SystemInv
<1>3. CASE Housekeeping!DeleteBlob
  <2>1. PICK n \in old :
            /\ metadata' = {m \in metadata : m.seq # n}
            /\ old' = old \ {n}
      BY <1>3 DEF Housekeeping!DeleteBlob
  <2>2. UNCHANGED <<files, step, errors, taken>> /\ step = "deleteBlobs"
      BY <1>3 DEF Housekeeping!DeleteBlob, histVars
  <2>3. TypeOK' /\ old \subseteq Nat
      BY <2>1, <2>2 DEF SystemInv, SystemTypeOK, TypeOK, crmVars, runVars, loopVars,
          metaVars, histVars
  <2>4. SystemTypeOK' /\ FilesSuperseded'
      BY <2>1, <2>2, <2>3 DEF SystemInv, SystemTypeOK, FilesSuperseded
  <2>5. BlobsSuperseded'
    <3> SUFFICES ASSUME NEW o \in old' PROVE \E k \in metadata' : o < k.seq
        BY DEF BlobsSuperseded
    <3>1. \A m \in metadata : m.seq \in Nat
        BY DEF SystemInv, SystemTypeOK, TypeOK, Metadata
    <3>2. PICK k \in metadata : o < k.seq
        BY <2>1, <2>2 DEF SystemInv, BlobsSuperseded
    <3>3. PICK l \in metadata : n < l.seq
        BY <2>1, <2>2 DEF SystemInv, BlobsSuperseded
    <3>4. o \in Nat /\ n \in Nat
        BY <2>1, <2>3
    <3>5. CASE k.seq # n
        BY <2>1, <3>2, <3>5
    <3>6. CASE k.seq = n
        BY <2>1, <3>1, <3>2, <3>3, <3>4, <3>6
    <3> QED
        BY <3>5, <3>6
  <2>6. ASSUME TakenCorrect'
        PROVE  SafetyInv'
    <3>1. SafetyInv /\ BlobsSuperseded
        BY <2>2, <2>6 DEF TakenCorrect, SystemInv
    <3> QED
        BY <2>1, <2>2, <2>3, <3>1, BlobDeleted
  <2> QED
      BY <2>4, <2>5, <2>6 DEF SystemInv
<1> QED
    BY <1>1, <1>2, <1>3

LEMMA InitSystem == SystemInit => SystemInv
<1> SUFFICES ASSUME SystemInit PROVE SystemInv
    OBVIOUS
<1>1. SafetyInv
    BY InitSafe DEF SystemInit
<1>2. step = "idle" /\ old = {} /\ errors \in 0..MaxHousekeepingFailures
    BY HousekeepingAssumption DEF SystemInit, Housekeeping!HousekeepingInit
<1> QED
    BY <1>1, <1>2 DEF SystemInv, SystemTypeOK, SafetyInv, BlobsSuperseded, FilesSuperseded

\* What housekeeping still has to delete is superseded, and as long as TARS took
\* correct files the dispatcher's invariant holds beside it.
THEOREM SystemSafety == SystemSpec => []SystemInv
<1>1. SystemInv /\ [SystemNext]_systemVars => SystemInv'
  <2> SUFFICES ASSUME SystemInv, [SystemNext]_systemVars PROVE SystemInv'
      OBVIOUS
  <2>1. CASE DispatcherStep
      BY <2>1, DispatcherKeeps DEF DispatcherStep
  <2>2. CASE HousekeepingStep
      BY <2>2, HousekeepingOfFiles, HousekeepingOfBlobs DEF HousekeepingStep,
          Housekeeping!HousekeepingNext
  <2>3. CASE UNCHANGED systemVars
      BY <2>3, DispatcherKeeps DEF systemVars
  <2> QED
      BY <2>1, <2>2, <2>3 DEF SystemNext
<1> QED
    BY <1>1, InitSystem, PTL DEF SystemSpec

\* The composed system keeps its types; in particular a loop of housekeeping
\* never works on names of the other half.
THEOREM SystemTypeCorrect == SystemSpec => []SystemTypeOK
<1>1. SystemInv => SystemTypeOK
    BY DEF SystemInv
<1> QED
    BY <1>1, SystemSafety, PTL

\* As long as TARS took correct files, the correct file of the latest blob stays
\* on the share, however stale the listing is that housekeeping deletes by.
THEOREM PlaceIsKept == SystemSpec => []PlaceKept
<1>1. SystemInv => PlaceKept
  <2> SUFFICES ASSUME SafetyInv, NEW m \in metadata, IsLatest(m), m \in Emitted
               PROVE  \E f \in files : f.intact /\ f.of = m
      BY DEF SystemInv, PlaceKept, LatestFileKept
  <2>1. CASE m \in Delivered
      BY <2>1 DEF SafetyInv, StorageInv, LatestKept, Exists, Named, SameChecksum
  <2>2. CASE m \notin Delivered
      BY <2>2, EmittedPlace DEF SafetyInv, StorageInv, Named, SameChecksum
  <2> QED
      BY <2>1, <2>2
<1> QED
    BY <1>1, SystemSafety, PTL

\* And the numbers and names of correct files stay unique and in one order.
THEOREM NumbersAreKept == SystemSpec => []NumbersKept
<1>1. SystemInv => NumbersKept
    BY OrderedNumbers DEF SystemInv, SafetyInv, StorageInv, NumbersKept
<1> QED
    BY <1>1, SystemSafety, PTL

-----------------------------------------------------------------------------
(* The log of correct files, beside housekeeping.                          *)

LoggedInv == SystemInv /\ (TakenCorrect => DispatchInv)

\* Housekeeping changes nothing the log is made of.
LEMMA HousekeepingOfLog ==
    ASSUME SystemInv, HousekeepingStep, TakenCorrect
    PROVE  /\ Emitted' = Emitted /\ metadata' \subseteq metadata
           /\ UNCHANGED <<crmVars, today, runVars, histVars>>
<1>1. /\ UNCHANGED <<crmVars, today, runVars, histVars>>
      /\ SafetyInv
    BY DEF HousekeepingStep, SystemInv
<1>2. taken' = taken
    BY <1>1 DEF histVars
<1>3. CASE Housekeeping!DeleteFile
  <2>1. /\ files' \subseteq files /\ metadata' = metadata
        /\ \A f \in files : ~f.processed => f \in files'
      BY <1>3 DEF Housekeeping!DeleteFile
  <2> QED
      BY <1>1, <1>2, <2>1, ProcessedDeleted DEF SafetyInv, StorageInv
<1>4. CASE ~Housekeeping!DeleteFile
  <2>1. files' = files /\ metadata' \subseteq metadata
      BY <1>4 DEF HousekeepingStep, Housekeeping!HousekeepingNext,
          Housekeeping!StartHousekeeping, Housekeeping!ListFiles,
          Housekeeping!OldFilesDeleted, Housekeeping!FilesFail, Housekeeping!ListBlobs,
          Housekeeping!DeleteBlob, Housekeeping!OldBlobsDeleted,
          Housekeeping!HousekeepingStops
  <2> QED
      BY <1>1, <1>2, <2>1, FilesKept
<1> QED
    BY <1>3, <1>4

LEMMA LoggedStep ==
    ASSUME LoggedInv, [SystemNext]_systemVars, SystemInv', TakenCorrect'
    PROVE  DispatchInv' /\ [Log!Next]_(Log!vars)
<1>1. CASE [Next]_vars
  <2>1. TakenCorrect
      BY <1>1, TakenGrows DEF TakenCorrect
  <2>2. SafetyInv /\ DispatchInv
      BY <2>1 DEF LoggedInv, SystemInv
  <2> QED
      BY <1>1, <2>2, NumbersStep, HeldStep, LogStep DEF SafetyInv, DispatchInv
<1>2. CASE HousekeepingStep
  <2>1. TakenCorrect
      BY <1>2 DEF HousekeepingStep, histVars, TakenCorrect
  <2>2. /\ Emitted' = Emitted /\ metadata' \subseteq metadata
        /\ UNCHANGED <<crmVars, today, runVars, histVars>>
      BY <1>2, <2>1, HousekeepingOfLog DEF LoggedInv
  <2>3. UNCHANGED <<exported, pc, results, malformed, left, basic>>
      BY <2>2 DEF crmVars, runVars, loopVars, metaVars
  <2>4. DispatchInv'
      BY <2>1, <2>2, <2>3 DEF LoggedInv, DispatchInv, NumbersFromDefault, HeldUnmarked,
          AllUnprocessed
  <2> QED
      BY <2>2, <2>3, <2>4 DEF Log!vars
<1> QED
    BY <1>1, <1>2 DEF SystemNext, DispatcherStep, systemVars

\* With housekeeping at work, its listings however stale, the correct files and
\* the marks are still a numbered log, as long as TARS took correct files.
THEOREM LogIsKept == SystemSpec => LogKept
<1>1. SystemInit => LoggedInv
    BY InitSystem, InitDispatch DEF SystemInit, LoggedInv
<1>2. LoggedInv /\ SystemInv' /\ [SystemNext]_systemVars => LoggedInv'
    BY LoggedStep DEF LoggedInv
<1>3. LoggedInv /\ SystemInv' /\ [SystemNext]_systemVars
         => [TakenCorrect' => [Log!Next]_(Log!vars)]_systemVars
    BY LoggedStep
<1> QED
    BY <1>1, <1>2, <1>3, SystemSafety, PTL DEF SystemSpec, LogKept
=============================================================================
