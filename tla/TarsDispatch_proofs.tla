------------------------ MODULE TarsDispatch_proofs ------------------------
(***************************************************************************)
(* Safety of the TARS dispatcher for any set of results, window, batch     *)
(* size and number of failures.  SafetyInv is the inductive invariant: it  *)
(* says what the storage looks like around the latest metadata blob, and   *)
(* what each step of the invocation has established when it is reached.    *)
(***************************************************************************)
EXTENDS TarsDispatch, TLAPS

Before(m, n) == m.seq < n.seq /\ Earlier(m, n)

\* The correct files the consumer has taken.
Delivered == {f.of : f \in {g \in taken : g.intact}}

\* The consumer only renames: a processed file is one it took.
ProcessedTaken ==
    \A f \in files : f.processed =>
        [of |-> f.of, intact |-> f.intact, processed |-> FALSE] \in taken

OneFilePerName ==
    \A f, g \in files :
        SameName(f.of, g.of) /\ f.processed = g.processed => f = g

OneBlobPerNumber ==
    \A m, n \in metadata : m.seq = n.seq => m = n

NoFutureBlob == \A m \in metadata : m.day <= today

\* Correct files are ordered by number and by name alike.
EmittedOrdered ==
    \A m, n \in Emitted : m = n \/ Before(m, n) \/ Before(n, m)

\* The latest blob is of the last correct file, or of a later attempt.
Frontier ==
    /\ metadata = {} => Emitted = {}
    /\ \A l \in metadata : IsLatest(l) =>
          \A m \in Emitted : m = l \/ Before(m, l)

\* The correct file of the latest blob, once taken, is found under its
\* processed name and only there.
LatestKept ==
    \A l \in metadata : IsLatest(l) /\ l \in Delivered =>
        /\ Named(l, FALSE) = {}
        /\ Exists(l, TRUE)
        /\ \A f \in Named(l, TRUE) : SameChecksum(f, l)

Preceded(seq) ==
    seq = DEFAULT_SEQUENCE_NUMBER \/ \E n \in Emitted : n.seq = seq - 1

LatestPreceded == \A l \in metadata : IsLatest(l) => Preceded(l.seq)

FetchedKind ==
    \A r \in results : r \notin raced => type = KindOf(status[r])

\* What the steps up to the decision on the numbers know.
Examining ==
    /\ pc \in {"exists", "existsProcessed", "compare"} =>
          latest \in metadata /\ IsLatest(latest)
    /\ pc = "existsProcessed" \/ (pc = "compare" /\ prefixed) =>
          Named(latest, FALSE) = {}

Numbered ==
    pc = "uploadMetadata" =>
        /\ \A m \in Emitted : Before(m, basic)
        /\ \A n \in metadata : n.seq <= basic.seq
        /\ basic.day <= today
        /\ Preceded(basic.seq)

Writing == {"createFile", "upload", "deletePartial", "verify", "deleteInvalid"}

\* Every result marked Processed is in one of the files F, of its kind.
SupportedBy(F) ==
    \A r \in Results : exported[r] = "Processed" =>
        \E m \in F : /\ r \in m.rows
                     /\ r \notin raced => m.type = KindOf(status[r])

\* A result already marked does not depend on the file being written.
SupportedElsewhere == SupportedBy(Emitted \ {Target})

Written ==
    /\ pc \in Writing \cup {"mark"} => Target \in metadata /\ IsLatest(Target)
    /\ pc \in {"createFile", "upload"} => Target \notin Emitted
    /\ pc \in Writing => SupportedElsewhere
    /\ pc = "mark" => Target \in Emitted /\ left \subseteq results

StorageInv ==
    /\ ProcessedTaken
    /\ OneFilePerName
    /\ OneBlobPerNumber
    /\ NoFutureBlob
    /\ EmittedOrdered
    /\ Frontier
    /\ LatestKept
    /\ SequenceContiguous
    /\ LatestPreceded

StepInv ==
    /\ FetchedKind
    /\ Examining
    /\ Numbered
    /\ Written

SafetyInv == TypeOK /\ StorageInv /\ StepInv /\ ProcessedDelivered

-----------------------------------------------------------------------------
(* Types.                                                                  *)

LEMMA RecordTypes ==
    ASSUME TypeOK
    PROVE  /\ Target \in Metadata
           /\ NoBasic \in BasicMetadata
           /\ NoLatest \in Metadata
           /\ FirstBasic \in BasicMetadata
           /\ \A ok \in BOOLEAN : NextBasic(ok) \in BasicMetadata
<1>1. today \in Nat
    BY ConstantsAssumption DEF TypeOK
<1>2. \A ok \in BOOLEAN : DailyNumber(ok) \in Nat
    BY DEF TypeOK, DailyNumber, Metadata
<1> QED
    BY <1>1, <1>2 DEF TypeOK, Target, NoBasic, NoLatest, FirstBasic, NextBasic,
        Metadata, BasicMetadata, Types, DEFAULT_SEQUENCE_NUMBER

LEMMA WriteFileType ==
    ASSUME TypeOK, NEW ok \in BOOLEAN, WriteFile(ok)
    PROVE  files' \subseteq File
<1>1. [of |-> Target, intact |-> ok, processed |-> FALSE] \in File
    BY RecordTypes DEF File
<1> QED
    BY <1>1 DEF WriteFile, TypeOK

LEMMA ResetLocalsType ==
    ASSUME TypeOK, ResetLocals
    PROVE  /\ results' \subseteq Results /\ pending' \subseteq results'
           /\ resolved' \subseteq Results /\ malformed' \subseteq Results
           /\ latest' \in Metadata /\ prefixed' \in BOOLEAN
           /\ basic' \in BasicMetadata /\ left' \subseteq Results
BY RecordTypes DEF ResetLocals

LEMMA ThrowType ==
    ASSUME TypeOK, Throw,
           UNCHANGED <<status, counterpart, metadata, today>>,
           exported' \in [Results -> Exported], files' \subseteq File
    PROVE  TypeOK'
BY ResetLocalsType DEF TypeOK, Throw, Types

LEMMA MarkType ==
    ASSUME TypeOK, pc \in DOMAIN Marking, NEW C, Mark(C)
    PROVE  exported' \in [Results -> Exported]
<1>1. pc \in {"mark", "markMalformed"}
    BY DEF Marking
<1>2. Marking[pc] \in Exported
    BY <1>1 DEF Marking, Exported
<1> QED
    BY <1>2 DEF TypeOK, Mark

LEMMA TypeStep ==
    ASSUME TypeOK, [Next]_vars
    PROVE  TypeOK'
<1> USE DEF crmVars, storeVars, loopVars, metaVars, runVars, histVars
<1>1. CASE Start
    BY <1>1 DEF Start, TypeOK
<1>2. CASE Fetch
    BY <1>2 DEF Fetch, TypeOK, Unprocessed
<1>3. CASE ResolveResult
    BY <1>3 DEF ResolveResult, TypeOK
<1>4. CASE RemoveUnmatched
    BY <1>4 DEF RemoveUnmatched, TypeOK
<1>5. CASE Validate
    BY <1>5 DEF Validate, Invalid, TypeOK
<1>6. CASE NoMetadataFile
    BY <1>6, RecordTypes DEF NoMetadataFile, TypeOK
<1>7. CASE DownloadLatest
    BY <1>7 DEF DownloadLatest, TypeOK
<1>8. CASE CheckResultsFile
    BY <1>8 DEF CheckResultsFile, TypeOK
<1>9. CASE CheckProcessedFile
    BY <1>9, RecordTypes DEF CheckProcessedFile, TypeOK
<1>10. CASE CompareChecksum
  <2>1. basic' \in BasicMetadata
      BY <1>10, RecordTypes DEF CompareChecksum, SameChecksum, TypeOK, Named, File
  <2> QED
      BY <1>10, <2>1 DEF CompareChecksum, TypeOK
<1>11. CASE CompareMissing
    BY <1>11, ThrowType DEF CompareMissing, TypeOK
<1>12. CASE UploadMetadata
    BY <1>12, RecordTypes DEF UploadMetadata, TypeOK
<1>13. CASE CreateFile
    BY <1>13, WriteFileType DEF CreateFile, TypeOK
<1>14. CASE UploadRanges
    BY <1>14, WriteFileType DEF UploadRanges, TypeOK
<1>15. CASE UploadFails
  <2>1. files' \subseteq File
      BY <1>15, WriteFileType DEF UploadFails, TypeOK
  <2> QED
      BY <1>15, <2>1 DEF UploadFails, TypeOK
<1>16. CASE DeletePartial
    BY <1>16, ThrowType DEF DeletePartial, TypeOK
<1>17. CASE VerifyFile
    BY <1>17 DEF VerifyFile, TypeOK
<1>18. CASE VerifyMissing
    BY <1>18, ThrowType DEF VerifyMissing, TypeOK
<1>19. CASE DeleteInvalid
    BY <1>19, ThrowType DEF DeleteInvalid, TypeOK
<1>20. CASE UpdateChunk
    BY <1>20, MarkType DEF UpdateChunk, TypeOK
<1>21. CASE UpdateChunkFails
    BY <1>21, MarkType, ThrowType DEF UpdateChunkFails, TypeOK
<1>22. CASE ProcessedMarked
    BY <1>22 DEF ProcessedMarked, TypeOK
<1>23. CASE PhaseDone
    BY <1>23, ResetLocalsType DEF PhaseDone, TypeOK, Types
<1>24. CASE Abort
    BY <1>24, ThrowType DEF Abort, TypeOK
<1>25. CASE PublishResult
    BY <1>25 DEF PublishResult, TypeOK, Statuses
<1>26. CASE NegateResult
    BY <1>26 DEF NegateResult, TypeOK, Statuses, Exported
<1>27. CASE PassCounterpart
    BY <1>27 DEF PassCounterpart, TypeOK
<1>28. CASE ConsumerTakes
    BY <1>28 DEF ConsumerTakes, TypeOK, File
<1>29. CASE Midnight
    BY <1>29, ConstantsAssumption DEF Midnight, TypeOK
<1>30. CASE UNCHANGED vars
    BY <1>30 DEF vars, TypeOK
<1> QED
    BY <1>1, <1>2, <1>3, <1>4, <1>5, <1>6, <1>7, <1>8, <1>9, <1>10,
       <1>11, <1>12, <1>13, <1>14, <1>15, <1>16, <1>17, <1>18, <1>19, <1>20,
       <1>21, <1>22, <1>23, <1>24, <1>25, <1>26, <1>27, <1>28, <1>29, <1>30 DEF Next, Dispatcher, Environment

LEMMA InitType == Init => TypeOK
<1> SUFFICES ASSUME Init PROVE TypeOK
    OBVIOUS
<1>1. today \in 1..MaxDay
    BY ConstantsAssumption DEF Init
<1>2. latest \in Metadata /\ basic \in BasicMetadata
    BY DEF Init, NoLatest, NoBasic, Metadata, BasicMetadata, Types
<1>3. status \in [Results -> Statuses] /\ exported \in [Results -> Exported]
    BY DEF Init, Statuses, Exported
<1>4. type \in Types /\ prefixed \in BOOLEAN /\ failures \in Nat
    BY DEF Init, Types
<1> QED
    BY <1>1, <1>2, <1>3, <1>4 DEF Init, TypeOK

\* Every variable keeps its type; in particular the loop over the results never
\* holds an element that is no longer in the array.
THEOREM TypeCorrect == Spec => []TypeOK
<1>1. TypeOK /\ [Next]_vars => TypeOK'
    BY TypeStep
<1> QED
    BY InitType, <1>1, PTL DEF Spec

-----------------------------------------------------------------------------
(* What a step does to the correct files.                                  *)

LEMMA EmittedType ==
    ASSUME TypeOK
    PROVE  Emitted \subseteq Metadata /\ Delivered \subseteq Emitted
BY DEF TypeOK, Emitted, Delivered, File

LEMMA FilesKept ==
    ASSUME UNCHANGED <<files, taken>>
    PROVE  /\ Emitted' = Emitted
           /\ Delivered' = Delivered
           /\ \A m, pre : Named(m, pre)' = Named(m, pre)
BY DEF Emitted, Delivered, Named

\* A rename changes no content: the same files stay correct.
LEMMA RenameKeeps ==
    ASSUME TypeOK, ProcessedTaken, ConsumerTakes
    PROVE  /\ Emitted' = Emitted
           /\ \A m : Named(m, FALSE)' \subseteq Named(m, FALSE)
<1>1. PICK f \in files :
          /\ ~f.processed
          /\ files' = (files \ ({f} \cup Named(f.of, TRUE)))
                        \cup {[f EXCEPT !.processed = TRUE]}
          /\ taken' = taken \cup {f}
    BY DEF ConsumerTakes
<1> DEFINE g == [f EXCEPT !.processed = TRUE]
<1>2. f \in File /\ g \in File /\ g.of = f.of /\ g.intact = f.intact /\ g.processed
    BY DEF TypeOK, File
<1> HIDE DEF g
<1>3. files' \subseteq files \cup {g} /\ g \in files' /\ f \in taken'
    BY <1>1 DEF g
<1>4. Emitted' \subseteq Emitted
    BY <1>1, <1>2, <1>3 DEF Emitted
<1>5. ASSUME NEW h \in files, h.intact
      PROVE  h.of \in Emitted'
  <2>1. CASE h = f
      BY <1>3, <1>5, <2>1 DEF Emitted
  <2>2. CASE h \in Named(f.of, TRUE)
    <3> DEFINE u == [of |-> h.of, intact |-> h.intact, processed |-> FALSE]
    <3>1. h.processed = TRUE
        BY <2>2 DEF Named
    <3>2. u \in taken
        BY <3>1, Zenon DEF ProcessedTaken
    <3>3. u.of = h.of /\ u.intact = h.intact
        OBVIOUS
    <3> HIDE DEF u
    <3> QED
        BY <1>1, <1>5, <3>2, <3>3 DEF Emitted
  <2> QED
      BY <1>1, <1>5, <2>1, <2>2 DEF Emitted
<1>6. \A h \in taken : h \in taken'
    BY <1>1
<1>7. Emitted \subseteq Emitted'
    BY <1>5, <1>6 DEF Emitted
<1>8. \A m : Named(m, FALSE)' \subseteq Named(m, FALSE)
    BY <1>2, <1>3 DEF Named
<1> QED
    BY <1>4, <1>7, <1>8

\* In the writing steps a correct file of the target's name is the target's.
LEMMA TargetName ==
    ASSUME TypeOK, Frontier, Target \in metadata, IsLatest(Target),
           NEW m \in Emitted, SameName(m, Target)
    PROVE  m = Target
<1>1. m \in Metadata /\ Target \in Metadata
    BY EmittedType, RecordTypes
<1>2. m = Target \/ Before(m, Target)
    BY DEF Frontier
<1> QED
    BY <1>1, <1>2 DEF Before, Earlier, SameName, Metadata

LEMMA WriteKeeps ==
    ASSUME TypeOK, Frontier, Target \in metadata, IsLatest(Target),
           Target \notin Emitted, UNCHANGED taken,
           NEW ok \in BOOLEAN, WriteFile(ok)
    PROVE  Emitted' = Emitted \cup (IF ok THEN {Target} ELSE {})
<1> DEFINE f == [of |-> Target, intact |-> ok, processed |-> FALSE]
<1>1. files' = (files \ Named(Target, FALSE)) \cup {f}
    BY DEF WriteFile
<1>2. \A h \in files : h.intact => h \notin Named(Target, FALSE)
  <2>1. ASSUME NEW h \in files, h.intact, h \in Named(Target, FALSE)
        PROVE  FALSE
    <3>1. h.of \in Emitted /\ SameName(h.of, Target)
        BY <2>1 DEF Emitted, Named
    <3> QED
        BY <3>1, TargetName
  <2> QED
      BY <2>1
<1>3. f.of = Target /\ f.intact = ok
    OBVIOUS
<1> HIDE DEF f
<1> QED
    BY <1>1, <1>2, <1>3 DEF Emitted

LEMMA DeleteKeeps ==
    ASSUME TypeOK, Frontier, Target \in metadata, IsLatest(Target),
           UNCHANGED taken, files' \in {files, files \ Named(Target, FALSE)}
    PROVE  Emitted' \subseteq Emitted /\ Emitted \ {Target} \subseteq Emitted'
<1>1. \A h \in files \ files' : h.intact => h.of = Target
  <2>1. ASSUME NEW h \in files \ files', h.intact
        PROVE  h.of = Target
    <3>1. h.of \in Emitted /\ SameName(h.of, Target)
        BY <2>1 DEF Emitted, Named
    <3> QED
        BY <3>1, TargetName
  <2> QED
      BY <2>1
<1>2. files' \subseteq files
    OBVIOUS
<1> QED
    BY <1>1, <1>2 DEF Emitted

-----------------------------------------------------------------------------
(* The storage invariant under each kind of step.                          *)

LEMMA StorageKept ==
    ASSUME TypeOK, TypeOK', StorageInv, UNCHANGED storeVars, UNCHANGED taken,
           today <= today'
    PROVE  StorageInv'
<1> USE DEF storeVars
<1>1. NoFutureBlob'
    BY ConstantsAssumption DEF TypeOK, StorageInv, NoFutureBlob, Metadata
<1>2. \A m : IsLatest(m)' <=> IsLatest(m)
    BY DEF IsLatest
<1>3. ProcessedTaken' /\ OneFilePerName' /\ OneBlobPerNumber'
    BY DEF StorageInv, ProcessedTaken, OneFilePerName, OneBlobPerNumber
<1>4. EmittedOrdered' /\ Frontier' /\ SequenceContiguous' /\ LatestPreceded'
    BY <1>2, FilesKept DEF StorageInv, EmittedOrdered, Frontier,
        SequenceContiguous, LatestPreceded, Preceded
<1>5. LatestKept'
    BY <1>2, FilesKept DEF StorageInv, LatestKept, Exists
<1> QED
    BY <1>1, <1>3, <1>4, <1>5 DEF StorageInv

LEMMA StorageRename ==
    ASSUME TypeOK, TypeOK', StorageInv, ConsumerTakes
    PROVE  StorageInv'
<1>1. PICK f \in files :
          /\ ~f.processed
          /\ files' = (files \ ({f} \cup Named(f.of, TRUE)))
                        \cup {[f EXCEPT !.processed = TRUE]}
          /\ taken' = taken \cup {f}
    BY DEF ConsumerTakes
<1> DEFINE g == [f EXCEPT !.processed = TRUE]
<1>2. /\ g.of = f.of /\ g.intact = f.intact /\ g.processed = TRUE
      /\ f.processed = FALSE
      /\ f = [of |-> f.of, intact |-> f.intact, processed |-> FALSE]
    BY <1>1 DEF TypeOK, File
<1>3. files' = (files \ ({f} \cup Named(f.of, TRUE))) \cup {g}
    BY <1>1
<1> HIDE DEF g
<1>4. metadata' = metadata /\ today' = today
    BY DEF ConsumerTakes
<1>5. \A m : IsLatest(m)' <=> IsLatest(m)
    BY <1>4 DEF IsLatest
<1>6. ProcessedTaken'
  <2> SUFFICES ASSUME NEW h \in files', h.processed
               PROVE  [of |-> h.of, intact |-> h.intact, processed |-> FALSE] \in taken'
      BY DEF ProcessedTaken
  <2>1. CASE h = g
      BY <1>1, <1>2, <2>1
  <2>2. CASE h \in files
      BY <1>1, <2>2, Zenon DEF StorageInv, ProcessedTaken
  <2> QED
      BY <1>3, <2>1, <2>2
<1>7. OneFilePerName'
  <2> SUFFICES ASSUME NEW h \in files', NEW k \in files',
                      SameName(h.of, k.of), h.processed = k.processed
               PROVE  h = k
      BY DEF OneFilePerName
  <2>1. CASE h \in files /\ k \in files
      BY <2>1 DEF StorageInv, OneFilePerName
  <2>2. ASSUME NEW u \in files', u \in files, u # g, SameName(u.of, g.of)
        PROVE  u.processed # TRUE
      BY <1>2, <1>3, <2>2 DEF Named
  <2> QED
      BY <1>2, <1>3, <2>1, <2>2 DEF SameName
<1>8. OneBlobPerNumber' /\ NoFutureBlob'
    BY <1>4 DEF StorageInv, OneBlobPerNumber, NoFutureBlob
<1>9. EmittedOrdered' /\ Frontier' /\ SequenceContiguous' /\ LatestPreceded'
    BY <1>4, <1>5, RenameKeeps DEF StorageInv, EmittedOrdered, Frontier,
        SequenceContiguous, LatestPreceded, Preceded
<1>10. LatestKept'
  <2> SUFFICES ASSUME NEW l \in metadata, IsLatest(l), l \in Delivered'
               PROVE  /\ Named(l, FALSE)' = {}
                      /\ Exists(l, TRUE)'
                      /\ \A h \in Named(l, TRUE)' : SameChecksum(h, l)
      BY <1>4, <1>5 DEF LatestKept, SameChecksum
  <2>1. CASE l \in Delivered
    <3>1. Named(l, FALSE) = {} /\ Exists(l, TRUE)
          /\ \A h \in Named(l, TRUE) : SameChecksum(h, l)
        BY <2>1 DEF StorageInv, LatestKept
    <3>2. ~SameName(f.of, l)
        BY <1>2, <3>1 DEF Named
    <3>3. Named(l, TRUE)' = Named(l, TRUE)
        BY <1>2, <1>3, <3>2 DEF Named, SameName
    <3>4. Named(l, FALSE)' = {}
        BY <3>1, RenameKeeps DEF StorageInv
    <3> QED
        BY <3>1, <3>3, <3>4 DEF Exists
  <2>2. CASE l \notin Delivered
    <3>1. f.of = l /\ f.intact
        BY <1>1, <2>2 DEF Delivered
    <3>2. Named(l, FALSE)' = {}
        BY <1>2, <1>3, <3>1 DEF Named, StorageInv, OneFilePerName, SameName
    <3>3. Named(l, TRUE)' = {g}
        BY <1>2, <1>3, <3>1 DEF Named, SameName
    <3> QED
        BY <1>2, <3>1, <3>2, <3>3 DEF Exists, SameChecksum
  <2> QED
      BY <2>1, <2>2
<1> QED
    BY <1>6, <1>7, <1>8, <1>9, <1>10 DEF StorageInv

LEMMA LatestUnique ==
    ASSUME TypeOK, OneBlobPerNumber, Target \in metadata, IsLatest(Target),
           NEW l \in metadata, IsLatest(l)
    PROVE  l = Target
<1>1. l.seq \in Nat /\ Target.seq \in Nat
    BY RecordTypes DEF TypeOK, Metadata
<1>2. l.seq = Target.seq
    BY <1>1 DEF IsLatest
<1> QED
    BY <1>2 DEF OneBlobPerNumber

LEMMA StorageWrite ==
    ASSUME TypeOK, TypeOK', StorageInv, Target \in metadata, IsLatest(Target),
           Target \notin Emitted, UNCHANGED <<metadata, today, taken>>,
           NEW ok \in BOOLEAN, WriteFile(ok)
    PROVE  StorageInv'
<1> DEFINE f == [of |-> Target, intact |-> ok, processed |-> FALSE]
<1> DEFINE T == Target
<1>1. files' = (files \ Named(T, FALSE)) \cup {f}
    BY DEF WriteFile
<1>2. f.of = T /\ f.intact = ok /\ f.processed = FALSE
    OBVIOUS
<1> HIDE DEF f
<1>3. Emitted' = Emitted \cup (IF ok THEN {T} ELSE {})
    BY WriteKeeps DEF StorageInv
<1>4. \A m : IsLatest(m)' <=> IsLatest(m)
    BY DEF IsLatest
<1>5. \A l \in metadata : IsLatest(l) => l = T
    BY LatestUnique DEF StorageInv
<1>6. T \in metadata /\ IsLatest(T) /\ \A m \in Emitted : Before(m, T)
    BY DEF StorageInv, Frontier
<1> HIDE DEF T
<1>7. ProcessedTaken'
    BY <1>1, <1>2, Zenon DEF StorageInv, ProcessedTaken
<1>8. OneFilePerName'
    BY <1>1, <1>2 DEF StorageInv, OneFilePerName, Named, SameName
<1>9. OneBlobPerNumber' /\ NoFutureBlob'
    BY DEF StorageInv, OneBlobPerNumber, NoFutureBlob
<1>10. EmittedOrdered'
    BY <1>3, <1>6 DEF StorageInv, EmittedOrdered
<1>11. Frontier'
    BY <1>3, <1>4, <1>5, <1>6 DEF Frontier
<1>12. Preceded(T.seq) /\ \A seq : Preceded(seq) => Preceded(seq)'
    BY <1>3, <1>6 DEF StorageInv, LatestPreceded, Preceded
<1>13. SequenceContiguous'
    BY <1>3, <1>12 DEF StorageInv, SequenceContiguous, Preceded
<1>14. LatestPreceded'
    BY <1>4, <1>12 DEF StorageInv, LatestPreceded
<1>15. LatestKept'
  <2>1. T \notin Delivered /\ Delivered' = Delivered
      BY EmittedType DEF T, Delivered
  <2> QED
      BY <1>4, <1>5, <2>1 DEF LatestKept
<1> QED
    BY <1>7, <1>8, <1>9, <1>10, <1>11, <1>13, <1>14, <1>15 DEF StorageInv

LEMMA StorageDelete ==
    ASSUME TypeOK, TypeOK', StorageInv, Target \in metadata, IsLatest(Target),
           UNCHANGED <<metadata, today, taken>>,
           files' \in {files, files \ Named(Target, FALSE)}
    PROVE  StorageInv'
<1> DEFINE T == Target
<1>1. Emitted' \subseteq Emitted /\ Emitted \ {T} \subseteq Emitted'
    BY DeleteKeeps DEF StorageInv
<1>2. \A m : IsLatest(m)' <=> IsLatest(m)
    BY DEF IsLatest
<1>3. files' \subseteq files
    OBVIOUS
<1>4. T \in metadata /\ IsLatest(T) /\ T \in Metadata
    BY RecordTypes
<1>5. \A m : Named(m, TRUE)' = Named(m, TRUE)
    BY DEF Named
<1> HIDE DEF T
<1>6. ProcessedTaken'
    BY <1>3, Zenon DEF StorageInv, ProcessedTaken
<1>7. OneFilePerName'
    BY <1>3 DEF StorageInv, OneFilePerName
<1>8. OneBlobPerNumber' /\ NoFutureBlob'
    BY DEF StorageInv, OneBlobPerNumber, NoFutureBlob
<1>9. EmittedOrdered'
    BY <1>1 DEF StorageInv, EmittedOrdered
<1>10. Frontier'
    BY <1>1, <1>2 DEF StorageInv, Frontier
<1>11. \A seq \in Nat : seq <= T.seq /\ Preceded(seq) => Preceded(seq)'
    BY <1>1, <1>4 DEF Preceded, Metadata
<1>12. SequenceContiguous'
  <2> SUFFICES ASSUME NEW m \in Emitted' PROVE Preceded(m.seq)'
      BY DEF SequenceContiguous, Preceded
  <2>1. m \in Emitted /\ m \in Metadata
      BY <1>1, EmittedType
  <2>2. m.seq <= T.seq
      BY <1>4, <2>1 DEF StorageInv, Frontier, Before, Metadata
  <2>3. Preceded(m.seq)
      BY <2>1 DEF StorageInv, SequenceContiguous, Preceded
  <2> QED
      BY <1>11, <2>1, <2>2, <2>3 DEF Metadata
<1>13. LatestPreceded'
    BY <1>2, <1>4, <1>11 DEF StorageInv, LatestPreceded, IsLatest, TypeOK, Metadata
<1>14. LatestKept'
  <2>1. Delivered' = Delivered /\ \A m : Named(m, FALSE)' \subseteq Named(m, FALSE)
      BY <1>3 DEF Delivered, Named
  <2> QED
      BY <1>2, <1>5, <2>1 DEF StorageInv, LatestKept, Exists
<1> QED
    BY <1>6, <1>7, <1>8, <1>9, <1>10, <1>12, <1>13, <1>14 DEF StorageInv

LEMMA StorageNumber ==
    ASSUME TypeOK, TypeOK', StorageInv, Numbered, UploadMetadata
    PROVE  /\ StorageInv'
           /\ (Target \in metadata /\ IsLatest(Target))'
           /\ (Target \notin Emitted)'
           /\ Emitted' = Emitted
<1> DEFINE T == Target
<1>1. metadata' = {m \in metadata : m.seq # basic.seq} \cup {T}
    BY DEF UploadMetadata
<1>2. UNCHANGED <<files, today, taken>>
    BY DEF UploadMetadata, histVars
<1>3. T.seq = basic.seq /\ T.day = basic.day /\ T.daily = basic.daily
    BY DEF Target
<1>4. T \in Metadata /\ basic \in BasicMetadata
    BY RecordTypes DEF TypeOK
<1>5. \A m \in Emitted : Before(m, T)
    BY <1>3 DEF UploadMetadata, Numbered, Before, Earlier
<1>6. T \notin Emitted
    BY <1>4, <1>5 DEF Before, Metadata
<1>7. \A n \in metadata' : n.seq <= T.seq
    BY <1>1, <1>3, <1>4 DEF UploadMetadata, Numbered, BasicMetadata
<1>8. \A l \in metadata' : IsLatest(l)' => l = T
  <2> SUFFICES ASSUME NEW l \in metadata', IsLatest(l)' PROVE l = T
      OBVIOUS
  <2>1. T.seq <= l.seq /\ l.seq <= T.seq
      BY <1>1, <1>7 DEF IsLatest
  <2>2. l.seq = T.seq
      BY <1>4, <2>1 DEF TypeOK, Metadata
  <2> QED
      BY <1>1, <1>3, <2>2
<1>9. T.day <= today /\ Preceded(T.seq)
    BY <1>3 DEF UploadMetadata, Numbered
<1> HIDE DEF T
<1>10. OneBlobPerNumber'
    BY <1>1, <1>3 DEF StorageInv, OneBlobPerNumber
<1>11. NoFutureBlob'
    BY <1>1, <1>2, <1>9 DEF StorageInv, NoFutureBlob
<1>12. Frontier'
    BY <1>1, <1>2, <1>5, <1>8, FilesKept DEF Frontier
<1>13. LatestPreceded'
    BY <1>2, <1>8, <1>9, FilesKept DEF LatestPreceded, Preceded
<1>14. LatestKept'
    BY <1>2, <1>6, <1>8, FilesKept, EmittedType DEF LatestKept
<1>15. ProcessedTaken' /\ OneFilePerName'
    BY <1>2 DEF StorageInv, ProcessedTaken, OneFilePerName
<1>16. EmittedOrdered' /\ SequenceContiguous'
    BY <1>2, FilesKept DEF StorageInv, EmittedOrdered, SequenceContiguous
<1>17. StorageInv'
    BY <1>10, <1>11, <1>12, <1>13, <1>14, <1>15, <1>16 DEF StorageInv
<1>18. Target' = T
    BY DEF T, Target, UploadMetadata, loopVars, metaVars
<1>19. T \in metadata' /\ Emitted' = Emitted
    BY <1>1, <1>2, FilesKept
<1> QED
    BY <1>6, <1>7, <1>17, <1>18, <1>19 DEF IsLatest

-----------------------------------------------------------------------------
(* The numbers of the next file.                                           *)

\* A correct file that was not taken is on the share under its plain name.
LEMMA EmittedPlace ==
    ASSUME TypeOK, ProcessedTaken, NEW m \in Emitted, m \notin Delivered
    PROVE  \E g \in Named(m, FALSE) : SameChecksum(g, m)
<1>1. PICK g \in files : g.intact /\ g.of = m
    BY DEF Emitted, Delivered
<1>2. g.processed \in BOOLEAN
    BY DEF TypeOK, File
<1>3. CASE g.processed = TRUE
  <2> DEFINE u == [of |-> g.of, intact |-> g.intact, processed |-> FALSE]
  <2>1. u \in taken
      BY <1>3, Zenon DEF ProcessedTaken
  <2>2. u.intact /\ u.of = m
      BY <1>1
  <2> HIDE DEF u
  <2> QED
      BY <2>1, <2>2 DEF Delivered
<1>4. CASE g.processed = FALSE
    BY <1>1, <1>4 DEF Named, SameName, SameChecksum
<1> QED
    BY <1>2, <1>3, <1>4

LEMMA MissingNotEmitted ==
    ASSUME TypeOK, StorageInv, latest \in metadata, IsLatest(latest),
           Named(latest, FALSE) = {}, ~Exists(latest, TRUE)
    PROVE  latest \notin Emitted
BY EmittedPlace DEF StorageInv, LatestKept

LEMMA MismatchNotEmitted ==
    ASSUME TypeOK, StorageInv, latest \in metadata, IsLatest(latest),
           prefixed => Named(latest, FALSE) = {},
           NEW f \in Named(latest, prefixed), ~SameChecksum(f, latest)
    PROVE  latest \notin Emitted
<1> SUFFICES ASSUME latest \in Emitted PROVE FALSE
    OBVIOUS
<1>1. CASE latest \in Delivered
  <2>1. Named(latest, FALSE) = {} /\ \A g \in Named(latest, TRUE) : SameChecksum(g, latest)
      BY <1>1 DEF StorageInv, LatestKept
  <2> QED
      BY <2>1 DEF TypeOK
<1>2. CASE latest \notin Delivered
  <2>1. PICK g \in Named(latest, FALSE) : SameChecksum(g, latest)
      BY <1>2, EmittedPlace DEF StorageInv
  <2>2. prefixed = FALSE
      BY <2>1 DEF TypeOK
  <2>3. f = g
      BY <2>1, <2>2 DEF StorageInv, OneFilePerName, Named, SameName
  <2> QED
      BY <2>1, <2>3
<1> QED
    BY <1>1, <1>2

\* The next number is free: used again exactly when its file is not correct.
LEMMA NextNumbers ==
    ASSUME TypeOK, StorageInv, latest \in metadata, IsLatest(latest),
           NEW ok \in BOOLEAN, ok <=> latest \in Emitted
    PROVE  /\ \A m \in Emitted : Before(m, NextBasic(ok))
           /\ \A n \in metadata : n.seq <= NextBasic(ok).seq
           /\ NextBasic(ok).day <= today
           /\ Preceded(NextBasic(ok).seq)
<1> DEFINE b == NextBasic(ok)
<1>1. /\ b.seq = IF ok THEN latest.seq + 1 ELSE latest.seq
      /\ b.day = today
      /\ b.daily = IF latest.day = today
                      THEN IF ok THEN latest.daily + 1 ELSE latest.daily
                      ELSE 1
    BY DEF NextBasic, DailyNumber
<1>2. latest \in Metadata /\ today \in Nat /\ latest.day <= today
    BY ConstantsAssumption DEF TypeOK, StorageInv, NoFutureBlob
<1> HIDE DEF b
<1>3. \A m \in Emitted : Before(m, b)
  <2> SUFFICES ASSUME NEW m \in Emitted PROVE Before(m, b)
      OBVIOUS
  <2>1. m \in Metadata /\ (m = latest \/ Before(m, latest))
      BY EmittedType DEF StorageInv, Frontier
  <2>2. CASE ok
      BY <1>1, <1>2, <2>1, <2>2 DEF Before, Earlier, Metadata
  <2>3. CASE ~ok
      BY <1>1, <1>2, <2>1, <2>3 DEF Before, Earlier, Metadata
  <2> QED
      BY <2>2, <2>3
<1>4. \A n \in metadata : n.seq <= b.seq
    BY <1>1, <1>2 DEF IsLatest, TypeOK, Metadata
<1>5. Preceded(b.seq)
    BY <1>1, <1>2 DEF StorageInv, LatestPreceded, Preceded, Metadata
<1> QED
    BY <1>1, <1>2, <1>3, <1>4, <1>5 DEF b

-----------------------------------------------------------------------------
(* The invariant is inductive.                                             *)

LEMMA StorageStep ==
    ASSUME TypeOK, StorageInv, StepInv, [Next]_vars
    PROVE  StorageInv'
<1> USE DEF crmVars, storeVars, loopVars, metaVars, runVars, histVars
<1>1. TypeOK'
    BY TypeStep
<1>2. today \in Nat
    BY ConstantsAssumption DEF TypeOK
<1>3. CASE UNCHANGED <<storeVars, today, taken>>
    BY <1>1, <1>2, <1>3, StorageKept
<1>4. CASE Midnight
    BY <1>1, <1>2, <1>4, StorageKept DEF Midnight
<1>5. CASE ConsumerTakes
    BY <1>1, <1>5, StorageRename
<1>6. CASE UploadMetadata
    BY <1>1, <1>6, StorageNumber DEF StepInv
<1>7. CASE CreateFile
    BY <1>1, <1>7, StorageWrite DEF CreateFile, StepInv, Written, Writing
<1>8. CASE UploadRanges
    BY <1>1, <1>8, StorageWrite DEF UploadRanges, StepInv, Written, Writing
<1>9. CASE UploadFails
  <2>1. CASE UNCHANGED files
      BY <1>3, <1>9, <2>1 DEF UploadFails
  <2>2. CASE \E ok \in BOOLEAN : WriteFile(ok)
      BY <1>1, <1>9, <2>2, StorageWrite DEF UploadFails, StepInv, Written, Writing
  <2> QED
      BY <1>9, <2>1, <2>2 DEF UploadFails
<1>10. CASE DeletePartial
    BY <1>1, <1>10, StorageDelete DEF DeletePartial, Throw, StepInv, Written, Writing
<1>11. CASE DeleteInvalid
    BY <1>1, <1>11, StorageDelete DEF DeleteInvalid, Throw, StepInv, Written, Writing
<1>12. CASE Start \/ Fetch \/ ResolveResult \/ RemoveUnmatched \/ Validate
    BY <1>3, <1>12 DEF Start, Fetch, ResolveResult, RemoveUnmatched, Validate, Invalid
<1>13. CASE \/ NoMetadataFile \/ DownloadLatest \/ CheckResultsFile
            \/ CheckProcessedFile \/ CompareChecksum \/ CompareMissing
    BY <1>3, <1>13 DEF NoMetadataFile, DownloadLatest, CheckResultsFile,
        CheckProcessedFile, CompareChecksum, CompareMissing, Throw
<1>14. CASE \/ VerifyFile \/ VerifyMissing \/ UpdateChunk \/ UpdateChunkFails
            \/ ProcessedMarked \/ PhaseDone
    BY <1>3, <1>14 DEF VerifyFile, VerifyMissing, UpdateChunk, UpdateChunkFails,
        ProcessedMarked, PhaseDone, Throw
<1>15. CASE Abort \/ PublishResult \/ NegateResult \/ PassCounterpart
    BY <1>3, <1>15 DEF Abort, PublishResult, NegateResult, PassCounterpart, Throw
<1>16. CASE UNCHANGED vars
    BY <1>3, <1>16 DEF vars
<1> QED
    BY <1>4, <1>5, <1>6, <1>7, <1>8, <1>9, <1>10, <1>11, <1>12, <1>13, <1>14,
       <1>15, <1>16 DEF Next, Dispatcher, Environment

\* What the steps of the invocation and of the surroundings do to the marks.
LEMMA SupportKept ==
    ASSUME UNCHANGED <<status, exported, raced>>
    PROVE  \A F, G : SupportedBy(F) /\ F \subseteq G => SupportedBy(G)'
BY DEF SupportedBy

LEMMA SupportPublished ==
    ASSUME TypeOK, PublishResult
    PROVE  \A F : SupportedBy(F) => SupportedBy(F)'
<1>1. exported' = exported /\ raced' = raced
    BY DEF PublishResult, histVars
<1>2. \A r \in Results : KindOf(status'[r]) = KindOf(status[r])
    BY DEF PublishResult, TypeOK, KindOf
<1> QED
    BY <1>1, <1>2 DEF SupportedBy, KindOf

LEMMA SupportNegated ==
    ASSUME TypeOK, NegateResult
    PROVE  \A F : SupportedBy(F) => SupportedBy(F)'
<1>1. PICK n \in Results :
          /\ status' = [status EXCEPT ![n] = "Negated"]
          /\ exported' = [exported EXCEPT ![n] = "Unprocessed"]
          /\ raced' = IF n \in results \cup malformed THEN raced \cup {n} ELSE raced
    BY DEF NegateResult
<1>2. \A r \in Results : exported'[r] = "Processed" =>
          /\ exported[r] = "Processed" /\ status'[r] = status[r]
          /\ r \notin raced' => r \notin raced
    BY <1>1 DEF TypeOK
<1> QED
    BY <1>2 DEF SupportedBy, KindOf

LEMMA SupportMarked ==
    ASSUME TypeOK, FetchedKind, Written, pc \in DOMAIN Marking,
           NEW C \in SUBSET left, Mark(C), UNCHANGED <<status, raced>>,
           NEW F, Emitted \subseteq F, SupportedBy(F)
    PROVE  SupportedBy(F)'
<1> SUFFICES ASSUME NEW r \in Results, exported'[r] = "Processed"
             PROVE  \E m \in F : /\ r \in m.rows
                                 /\ r \notin raced => m.type = KindOf(status[r])
    BY DEF SupportedBy
<1>1. exported'[r] = IF r \in C THEN Marking[pc] ELSE exported[r]
    BY DEF Mark
<1>2. CASE r \notin C
    BY <1>1, <1>2 DEF SupportedBy
<1>3. CASE r \in C
  <2>1. pc = "mark"
      BY <1>1, <1>3 DEF Marking
  <2>2. Target \in F /\ r \in results
      BY <1>3, <2>1 DEF Written
  <2>3. Target.rows = results /\ Target.type = type
      BY DEF Target
  <2> QED
      BY <2>2, <2>3 DEF FetchedKind
<1> QED
    BY <1>2, <1>3

\* ProcessedDelivered is SupportedBy of the correct files.
LEMMA DeliveredStep ==
    ASSUME TypeOK, StorageInv, StepInv, [Next]_vars, SupportedBy(Emitted)
    PROVE  SupportedBy(Emitted)'
<1> USE DEF crmVars, storeVars, loopVars, metaVars, runVars, histVars
<1> DEFINE E == Emitted
<1>1. SupportedBy(E)
    OBVIOUS
<1>2. ASSUME NEW F, SupportedBy(F)', F \subseteq E'
      PROVE  SupportedBy(E)'
    BY <1>2 DEF SupportedBy
<1>3. ASSUME UNCHANGED <<status, exported, raced>>, E \subseteq E'
      PROVE  SupportedBy(E)'
    BY <1>1, <1>2, <1>3, SupportKept
<1>4. CASE UNCHANGED <<status, exported, raced, files, taken>>
    BY <1>3, <1>4, FilesKept
<1>5. CASE CreateFile \/ UploadRanges \/ UploadFails
  <2>1. UNCHANGED <<status, exported, raced, taken>>
      BY <1>5 DEF CreateFile, UploadRanges, UploadFails
  <2>2. Frontier /\ Target \in metadata /\ IsLatest(Target) /\ Target \notin Emitted
      BY <1>5 DEF StorageInv, StepInv, Written, Writing, CreateFile, UploadRanges,
          UploadFails
  <2>3. UNCHANGED files \/ \E ok \in BOOLEAN : WriteFile(ok)
      BY <1>5 DEF CreateFile, UploadRanges, UploadFails
  <2>4. E \subseteq E'
      BY <2>1, <2>2, <2>3, WriteKeeps, FilesKept
  <2> QED
      BY <1>3, <2>1, <2>4
<1>6. CASE DeletePartial \/ DeleteInvalid
  <2> DEFINE G == E \ {Target}
  <2>1. UNCHANGED <<status, exported, raced, taken>>
      BY <1>6 DEF DeletePartial, DeleteInvalid, Throw
  <2>2. Frontier /\ Target \in metadata /\ IsLatest(Target) /\ SupportedBy(G)
      BY <1>6 DEF StorageInv, StepInv, Written, Writing, SupportedElsewhere,
          DeletePartial, DeleteInvalid
  <2>3. G \subseteq E'
      BY <1>6, <2>1, <2>2, DeleteKeeps DEF DeletePartial, DeleteInvalid
  <2> QED
      BY <1>2, <2>1, <2>2, <2>3, SupportKept
<1>7. CASE ConsumerTakes
    BY <1>3, <1>7, RenameKeeps DEF ConsumerTakes, StorageInv
<1>8. CASE UpdateChunk \/ UpdateChunkFails
  <2>1. UNCHANGED <<status, raced, files, taken>> /\ pc \in DOMAIN Marking
      BY <1>8 DEF UpdateChunk, UpdateChunkFails, Throw
  <2>2. \E C \in SUBSET left : Mark(C)
      BY <1>8 DEF UpdateChunk, UpdateChunkFails
  <2>3. \A F : E \subseteq F /\ SupportedBy(F) => SupportedBy(F)'
      BY <2>1, <2>2, SupportMarked DEF StepInv
  <2> QED
      BY <1>1, <1>2, <2>1, <2>3, FilesKept
<1>9. CASE PublishResult \/ NegateResult
  <2>1. UNCHANGED <<files, taken>>
      BY <1>9 DEF PublishResult, NegateResult
  <2> QED
      BY <1>1, <1>2, <1>9, <2>1, FilesKept, SupportPublished, SupportNegated
<1>10. CASE Start \/ Fetch \/ ResolveResult \/ RemoveUnmatched \/ Validate
    BY <1>4, <1>10 DEF Start, Fetch, ResolveResult, RemoveUnmatched, Validate, Invalid
<1>11. CASE \/ NoMetadataFile \/ DownloadLatest \/ CheckResultsFile
            \/ CheckProcessedFile \/ CompareChecksum \/ CompareMissing
    BY <1>4, <1>11 DEF NoMetadataFile, DownloadLatest, CheckResultsFile,
        CheckProcessedFile, CompareChecksum, CompareMissing, Throw
<1>12. CASE \/ UploadMetadata \/ VerifyFile \/ VerifyMissing
            \/ ProcessedMarked \/ PhaseDone
    BY <1>4, <1>12 DEF UploadMetadata, VerifyFile, VerifyMissing,
        ProcessedMarked, PhaseDone, Throw
<1>13. CASE Abort \/ PassCounterpart \/ Midnight \/ UNCHANGED vars
    BY <1>4, <1>13 DEF Abort, PassCounterpart, Midnight, Throw, vars
<1> QED
    BY <1>5, <1>6, <1>7, <1>8, <1>9, <1>10, <1>11, <1>12, <1>13
    DEF Next, Dispatcher, Environment

LEMMA ThrowStep ==
    ASSUME Throw
    PROVE  StepInv'
BY DEF Throw, ResetLocals, StepInv, FetchedKind, Examining, Numbered, Written,
    Writing

\* The surroundings leave the invocation's variables alone.
LEMMA SurroundingsStep ==
    ASSUME TypeOK, TypeOK', StorageInv, StepInv, SupportedBy(Emitted),
           UNCHANGED <<runVars, metadata>>, today <= today', Emitted' = Emitted,
           \A m : Named(m, FALSE)' \subseteq Named(m, FALSE),
           \A F : SupportedBy(F) => SupportedBy(F)',
           \A r \in results : r \notin raced' =>
              r \notin raced /\ KindOf(status'[r]) = KindOf(status[r])
    PROVE  StepInv'
<1> USE DEF runVars, loopVars, metaVars
<1>1. Target' = Target /\ \A m : IsLatest(m)' <=> IsLatest(m)
    BY DEF Target, IsLatest
<1>2. FetchedKind'
    BY DEF StepInv, FetchedKind, KindOf
<1>3. Examining'
    BY <1>1 DEF StepInv, Examining
<1>4. Numbered'
    BY ConstantsAssumption DEF StepInv, Numbered, Before, Earlier, Preceded, TypeOK,
        BasicMetadata
<1>5. Written'
  <2> DEFINE G == Emitted \ {Target}
  <2>1. G' = G
      BY <1>1
  <2>2. SupportedBy(G) => SupportedBy(G)'
    <3>1. SupportedBy(G) => \A F : F = G => SupportedBy(F)'
        OBVIOUS
    <3> QED
        BY <2>1, <3>1 DEF SupportedBy
  <2> QED
      BY <1>1, <2>2 DEF StepInv, Written, SupportedElsewhere
<1> QED
    BY <1>2, <1>3, <1>4, <1>5 DEF StepInv

\* A step after which the invocation neither examines, nor numbers, nor writes.
LEMMA QuietStep ==
    ASSUME StepInv, UNCHANGED <<type, status, raced>>, results' \subseteq results,
           pc' \in {"idle", "fetch", "resolve", "latest", "markMalformed"}
    PROVE  StepInv'
BY DEF StepInv, FetchedKind, KindOf, Examining, Numbered, Written, Writing

LEMMA NumberedStep ==
    ASSUME TypeOK, StorageInv, StepInv, SupportedBy(Emitted), UploadMetadata
    PROVE  StepInv'
<1> USE DEF crmVars, loopVars, metaVars, histVars
<1>1. TypeOK'
    BY TypeStep DEF Next, Dispatcher
<1>2. /\ (Target \in metadata /\ IsLatest(Target))'
      /\ (Target \notin Emitted)'
      /\ Emitted' = Emitted
    BY <1>1, StorageNumber DEF StepInv
<1>3. (SupportedBy(Emitted \ {Target}))'
  <2> DEFINE G == Emitted
  <2>1. G = (Emitted \ {Target})'
      BY <1>2
  <2>2. \A F : F = G => SupportedBy(F)'
      BY SupportKept DEF UploadMetadata
  <2> QED
      BY <2>1, <2>2 DEF SupportedBy
<1>4. pc' = "createFile" /\ FetchedKind'
    BY DEF StepInv, FetchedKind, KindOf, UploadMetadata
<1> QED
    BY <1>2, <1>3, <1>4 DEF StepInv, Examining, Numbered, Written, Writing,
        SupportedElsewhere

LEMMA WrittenStep ==
    ASSUME TypeOK, StorageInv, StepInv, CreateFile \/ UploadRanges \/ UploadFails
    PROVE  StepInv'
<1> USE DEF crmVars, loopVars, metaVars, histVars
<1> DEFINE G == Emitted \ {Target}
<1>1. /\ UNCHANGED <<crmVars, metadata, taken, raced, type, results, basic>>
      /\ pc \in {"createFile", "upload"}
      /\ UNCHANGED files \/ \E ok \in BOOLEAN : WriteFile(ok)
    BY DEF CreateFile, UploadRanges, UploadFails
<1>2. /\ Target \in metadata /\ IsLatest(Target) /\ Target \notin Emitted
      /\ SupportedBy(G) /\ Frontier
    BY <1>1 DEF StorageInv, StepInv, Written, Writing, SupportedElsewhere
<1>3. Target' = Target /\ IsLatest(Target)'
    BY <1>1, <1>2 DEF Target, IsLatest
<1>4. Emitted' \ {Target} = G
    BY <1>1, <1>2, WriteKeeps, FilesKept
<1>5. SupportedElsewhere'
  <2>1. G' = G
      BY <1>3, <1>4
  <2>2. \A F : F = G => SupportedBy(F)'
      BY <1>1, <1>2, SupportKept
  <2> QED
      BY <2>1, <2>2 DEF SupportedBy, SupportedElsewhere
<1>6. pc' = "upload" => (Target \notin Emitted)'
  <2>1. pc' = "upload" => WriteFile(FALSE)
      BY DEF CreateFile, UploadRanges, UploadFails
  <2> QED
      BY <1>1, <1>2, <1>3, <2>1, WriteKeeps
<1>7. pc' \in {"upload", "verify", "deletePartial"} /\ FetchedKind'
    BY <1>1 DEF StepInv, FetchedKind, KindOf, CreateFile, UploadRanges, UploadFails
<1>8. (Target \in metadata)'
    BY <1>1, <1>2, <1>3
<1> QED
    BY <1>3, <1>5, <1>6, <1>7, <1>8 DEF StepInv, Examining, Numbered, Written, Writing

LEMMA ExaminedStep ==
    ASSUME TypeOK, StorageInv, StepInv,
           \/ NoMetadataFile \/ DownloadLatest \/ CheckResultsFile
           \/ CheckProcessedFile \/ CompareChecksum
    PROVE  StepInv'
<1> USE DEF crmVars, storeVars, loopVars, metaVars, histVars
<1>1. /\ UNCHANGED <<crmVars, storeVars, today, taken, raced, type, results>>
      /\ pc' \in {"exists", "existsProcessed", "compare", "uploadMetadata"}
    BY DEF NoMetadataFile, DownloadLatest, CheckResultsFile, CheckProcessedFile,
        CompareChecksum
<1>2. FetchedKind' /\ Written'
    BY <1>1 DEF StepInv, FetchedKind, KindOf, Written, Writing
<1>3. /\ \A m : IsLatest(m)' <=> IsLatest(m)
      /\ \A m, pre : Named(m, pre)' = Named(m, pre)
    BY <1>1, FilesKept DEF IsLatest
<1>4. CASE NoMetadataFile
  <2>1. Emitted = {} /\ metadata = {} /\ basic' = FirstBasic
      BY <1>4 DEF NoMetadataFile, StorageInv, Frontier
  <2>2. Numbered'
      BY <1>1, <2>1, FilesKept, ConstantsAssumption
      DEF Numbered, Preceded, FirstBasic, TypeOK
  <2> QED
      BY <1>2, <1>4, <2>2 DEF NoMetadataFile, StepInv, Examining
<1>5. CASE DownloadLatest
    BY <1>1, <1>2, <1>3, <1>5 DEF DownloadLatest, StepInv, Examining, Numbered
<1>6. CASE CheckResultsFile
    BY <1>1, <1>2, <1>3, <1>6 DEF CheckResultsFile, Exists, StepInv, Examining,
        Numbered
<1>7. ASSUME NEW ok \in BOOLEAN, ok <=> latest \in Emitted, basic' = NextBasic(ok),
             latest \in metadata, IsLatest(latest)
      PROVE  Numbered'
  <2> DEFINE b == NextBasic(ok)
  <2>1. /\ \A m \in Emitted : Before(m, b)
        /\ \A n \in metadata : n.seq <= b.seq
        /\ b.day <= today
        /\ Preceded(b.seq)
      BY <1>7, NextNumbers
  <2>2. basic' = b
      BY <1>7
  <2> HIDE DEF b
  <2> QED
      BY <1>1, <2>1, <2>2, FilesKept DEF Numbered, Before, Earlier, Preceded
<1>8. CASE CheckProcessedFile
  <2>1. latest \in metadata /\ IsLatest(latest) /\ Named(latest, FALSE) = {}
      BY <1>8 DEF CheckProcessedFile, StepInv, Examining
  <2>2. CASE Exists(latest, TRUE)
      BY <1>1, <1>2, <1>3, <1>8, <2>1, <2>2 DEF CheckProcessedFile, StepInv,
          Examining, Numbered
  <2>3. CASE ~Exists(latest, TRUE)
    <3>1. latest \notin Emitted
        BY <2>1, <2>3, MissingNotEmitted
    <3>2. Numbered'
        BY <1>7, <1>8, <2>1, <2>3, <3>1 DEF CheckProcessedFile
    <3> QED
        BY <1>2, <1>8, <2>3, <3>2 DEF CheckProcessedFile, StepInv, Examining
  <2> QED
      BY <2>2, <2>3
<1>9. CASE CompareChecksum
  <2>1. /\ latest \in metadata /\ IsLatest(latest)
        /\ prefixed => Named(latest, FALSE) = {}
      BY <1>9 DEF CompareChecksum, StepInv, Examining
  <2>2. PICK f \in Named(latest, prefixed) :
            basic' = NextBasic(SameChecksum(f, latest))
      BY <1>9 DEF CompareChecksum
  <2> DEFINE ok == SameChecksum(f, latest)
  <2>3. ok \in BOOLEAN
      BY DEF SameChecksum, Named, TypeOK, File
  <2>4. ok => latest \in Emitted
      BY DEF SameChecksum, Named, Emitted
  <2>5. ~ok => latest \notin Emitted
      BY <2>1, MismatchNotEmitted
  <2>6. basic' = NextBasic(ok)
      BY <2>2
  <2> HIDE DEF ok
  <2>7. Numbered'
      BY <1>7, <2>1, <2>3, <2>4, <2>5, <2>6
  <2> QED
      BY <1>2, <1>9, <2>7 DEF CompareChecksum, StepInv, Examining
<1> QED
    BY <1>4, <1>5, <1>6, <1>8, <1>9

LEMMA VerifiedStep ==
    ASSUME TypeOK, StorageInv, StepInv, VerifyFile
    PROVE  StepInv'
<1> USE DEF crmVars, storeVars, loopVars, metaVars, histVars
<1>1. /\ UNCHANGED <<crmVars, storeVars, taken, raced, type, results, basic>>
      /\ pc = "verify" /\ pc' \in {"mark", "deleteInvalid"}
    BY DEF VerifyFile
<1>2. Target' = Target /\ Emitted' = Emitted /\ \A m : IsLatest(m)' <=> IsLatest(m)
    BY <1>1, FilesKept DEF Target, IsLatest
<1>3. Target \in metadata /\ IsLatest(Target) /\ SupportedElsewhere
    BY <1>1 DEF StepInv, Written, Writing
<1>4. SupportedElsewhere'
  <2> DEFINE G == Emitted \ {Target}
  <2>1. G' = G
      BY <1>2
  <2>2. \A F : F = G => SupportedBy(F)'
      BY <1>1, <1>3, SupportKept DEF SupportedElsewhere
  <2> QED
      BY <2>1, <2>2 DEF SupportedBy, SupportedElsewhere
<1>5. pc' = "mark" => Target \in Emitted /\ left' \subseteq results
    BY DEF VerifyFile, SameChecksum, Named, Emitted
<1>6. FetchedKind'
    BY <1>1 DEF StepInv, FetchedKind, KindOf
<1> QED
    BY <1>1, <1>2, <1>3, <1>4, <1>5, <1>6
    DEF StepInv, Examining, Numbered, Written, Writing

LEMMA StepInvStep ==
    ASSUME TypeOK, StorageInv, StepInv, SupportedBy(Emitted), [Next]_vars
    PROVE  StepInv'
<1> USE DEF crmVars, storeVars, loopVars, metaVars, runVars, histVars
<1>1. TypeOK' /\ today \in Nat
    BY TypeStep, ConstantsAssumption DEF TypeOK
<1>2. CASE Start \/ ResolveResult \/ RemoveUnmatched \/ Validate
    BY <1>2, QuietStep DEF Start, ResolveResult, RemoveUnmatched, Validate, Invalid
<1>3. CASE Fetch
  <2>1. FetchedKind'
      BY <1>3 DEF Fetch, FetchedKind, Unprocessed, KindOf, TypeOK, Types
  <2> QED
      BY <1>3, <2>1 DEF Fetch, StepInv, Examining, Numbered, Written, Writing
<1>4. CASE \/ NoMetadataFile \/ DownloadLatest \/ CheckResultsFile
           \/ CheckProcessedFile \/ CompareChecksum
    BY <1>4, ExaminedStep
<1>5. CASE \/ CompareMissing \/ DeletePartial \/ VerifyMissing
           \/ DeleteInvalid \/ UpdateChunkFails \/ Abort
    BY <1>5, ThrowStep DEF CompareMissing, DeletePartial, VerifyMissing,
        DeleteInvalid, UpdateChunkFails, Abort
<1>6. CASE UploadMetadata
    BY <1>6, NumberedStep
<1>7. CASE CreateFile \/ UploadRanges \/ UploadFails
    BY <1>7, WrittenStep
<1>8. CASE VerifyFile
    BY <1>8, VerifiedStep
<1>9. CASE UpdateChunk
  <2>1. /\ UNCHANGED <<status, metadata, files, taken, raced, pc, type, results, basic>>
        /\ pc \in {"mark", "markMalformed"} /\ left' \subseteq left
      BY <1>9 DEF UpdateChunk, Marking
  <2>2. Target' = Target /\ Emitted' = Emitted /\ \A m : IsLatest(m)' <=> IsLatest(m)
      BY <2>1, FilesKept DEF Target, IsLatest
  <2>3. FetchedKind'
      BY <2>1 DEF StepInv, FetchedKind, KindOf
  <2> QED
      BY <2>1, <2>2, <2>3 DEF StepInv, Examining, Numbered, Written, Writing
<1>10. CASE ProcessedMarked
    BY <1>10, QuietStep DEF ProcessedMarked
<1>11. CASE PhaseDone
    BY <1>11 DEF PhaseDone, ResetLocals, StepInv, FetchedKind, Examining, Numbered,
        Written, Writing
<1>12. CASE PublishResult
  <2>1. \A r \in results : r \notin raced' =>
           r \notin raced /\ KindOf(status'[r]) = KindOf(status[r])
      BY <1>12 DEF PublishResult, TypeOK, KindOf
  <2>2. /\ UNCHANGED <<runVars, metadata>> /\ today <= today'
        /\ UNCHANGED <<files, taken>>
      BY <1>1, <1>12 DEF PublishResult
  <2>3. /\ Emitted' = Emitted /\ \A m : Named(m, FALSE)' \subseteq Named(m, FALSE)
      BY <2>2, FilesKept
  <2>4. \A F : SupportedBy(F) => SupportedBy(F)'
      BY <1>12, SupportPublished
  <2> QED
      BY <1>1, <2>1, <2>2, <2>3, <2>4, SurroundingsStep
<1>13. CASE NegateResult
  <2>1. \A r \in results : r \notin raced' =>
           r \notin raced /\ KindOf(status'[r]) = KindOf(status[r])
      BY <1>13 DEF NegateResult, TypeOK, KindOf
  <2>2. /\ UNCHANGED <<runVars, metadata>> /\ today <= today'
        /\ UNCHANGED <<files, taken>>
      BY <1>1, <1>13 DEF NegateResult
  <2>3. /\ Emitted' = Emitted /\ \A m : Named(m, FALSE)' \subseteq Named(m, FALSE)
      BY <2>2, FilesKept
  <2>4. \A F : SupportedBy(F) => SupportedBy(F)'
      BY <1>13, SupportNegated
  <2> QED
      BY <1>1, <2>1, <2>2, <2>3, <2>4, SurroundingsStep
<1>14. CASE ConsumerTakes
  <2>1. /\ UNCHANGED <<runVars, metadata>> /\ today <= today'
        /\ UNCHANGED <<status, exported, raced>>
      BY <1>1, <1>14 DEF ConsumerTakes
  <2>2. /\ Emitted' = Emitted /\ \A m : Named(m, FALSE)' \subseteq Named(m, FALSE)
      BY <1>14, RenameKeeps DEF StorageInv
  <2>3. \A F : SupportedBy(F) => SupportedBy(F)'
      BY <2>1, SupportKept
  <2>4. \A r \in results : r \notin raced' =>
           r \notin raced /\ KindOf(status'[r]) = KindOf(status[r])
      BY <2>1
  <2> QED
      BY <1>1, <2>1, <2>2, <2>3, <2>4, SurroundingsStep
<1>15. CASE PassCounterpart \/ Midnight \/ UNCHANGED vars
  <2>1. /\ UNCHANGED <<runVars, metadata>> /\ today <= today'
        /\ UNCHANGED <<files, taken>> /\ UNCHANGED <<status, exported, raced>>
      BY <1>1, <1>15 DEF PassCounterpart, Midnight, vars
  <2>2. /\ Emitted' = Emitted /\ \A m : Named(m, FALSE)' \subseteq Named(m, FALSE)
      BY <2>1, FilesKept
  <2>3. \A F : SupportedBy(F) => SupportedBy(F)'
      BY <2>1, SupportKept
  <2>4. \A r \in results : r \notin raced' =>
           r \notin raced /\ KindOf(status'[r]) = KindOf(status[r])
      BY <2>1
  <2> QED
      BY <1>1, <2>1, <2>2, <2>3, <2>4, SurroundingsStep
<1> QED
    BY <1>2, <1>3, <1>4, <1>5, <1>6, <1>7, <1>8, <1>9, <1>10, <1>11, <1>12,
       <1>13, <1>14, <1>15 DEF Next, Dispatcher, Environment

LEMMA InitSafe == Init => SafetyInv
<1> SUFFICES ASSUME Init PROVE SafetyInv
    OBVIOUS
<1>1. Emitted = {} /\ Delivered = {}
    BY DEF Init, Emitted, Delivered
<1>2. StorageInv
    BY <1>1 DEF Init, StorageInv, ProcessedTaken, OneFilePerName, OneBlobPerNumber,
        NoFutureBlob, EmittedOrdered, Frontier, LatestKept, SequenceContiguous,
        LatestPreceded
<1>3. StepInv
    BY DEF Init, StepInv, FetchedKind, Examining, Numbered, Written, Writing
<1>4. ProcessedDelivered
    BY DEF Init, ProcessedDelivered
<1> QED
    BY <1>2, <1>3, <1>4, InitType DEF SafetyInv

LEMMA SafetyStep ==
    ASSUME SafetyInv, [Next]_vars
    PROVE  SafetyInv'
<1>1. SupportedBy(Emitted)
    BY DEF SafetyInv, ProcessedDelivered, SupportedBy
<1>2. SupportedBy(Emitted)'
    BY <1>1, DeliveredStep DEF SafetyInv
<1>3. ProcessedDelivered'
    BY <1>2 DEF ProcessedDelivered, SupportedBy
<1> QED
    BY <1>1, <1>3, TypeStep, StorageStep, StepInvStep DEF SafetyInv

\* The invariant behind the safety theorems: the numbers and names a run takes
\* from the latest blob are free, because of what that blob says of the share.
THEOREM Safety == Spec => []SafetyInv
<1>1. SafetyInv /\ [Next]_vars => SafetyInv'
    BY SafetyStep
<1> QED
    BY <1>1, InitSafe, PTL DEF Spec

\* A result is marked Processed only on the strength of a correct results file
\* that TARS has or can still pick up, and of the right kind: no failure, no
\* retry, no reused name and no rename by the consumer takes that file away.
THEOREM ProcessedAreDelivered == Spec => []ProcessedDelivered
<1>1. SafetyInv => ProcessedDelivered
    BY DEF SafetyInv
<1> QED
    BY <1>1, Safety, PTL

LEMMA OrderedNumbers ==
    ASSUME TypeOK, EmittedOrdered
    PROVE  SequenceUnique /\ NamesInSequence
<1>1. SequenceUnique
    BY EmittedType DEF EmittedOrdered, SequenceUnique, Before, Metadata
<1>2. NamesInSequence
    BY EmittedType DEF EmittedOrdered, NamesInSequence, Before, Metadata
<1> QED
    BY <1>1, <1>2

\* No two correct results files carry the same sequence number, though the
\* metadata service hands a number out again after every failed upload.
THEOREM SequenceNumbersUnique == Spec => []SequenceUnique
<1>1. SafetyInv => SequenceUnique
    BY OrderedNumbers DEF SafetyInv, StorageInv
<1> QED
    BY <1>1, Safety, PTL

\* The name of a correct results file (day, then daily number) is later than
\* that of every correct file with a lower sequence number.
THEOREM NamesFollowNumbers == Spec => []NamesInSequence
<1>1. SafetyInv => NamesInSequence
    BY OrderedNumbers DEF SafetyInv, StorageInv
<1> QED
    BY <1>1, Safety, PTL

\* The sequence numbers of the correct results files have no gap.
THEOREM NoGaps == Spec => []SequenceContiguous
<1>1. SafetyInv => SequenceContiguous
    BY DEF SafetyInv, StorageInv
<1> QED
    BY <1>1, Safety, PTL


-----------------------------------------------------------------------------
(* Records given up.                                                       *)

\* The loop skips no incomplete record, unless it removes another one.
IncompleteSeen ==
    pc = "resolve" => results \cap Incomplete \subseteq resolved \cup pending

GivenUpMalformed ==
    /\ malformed \subseteq Malformed
    /\ pc = "markMalformed" => left \subseteq Malformed

GivenUpInv == IncompleteSeen /\ GivenUpMalformed /\ OnlyMalformedFail

LEMMA LoopStep ==
    ASSUME \A l \in Linked, i \in Incomplete : l = i, GivenUpInv,
           Fetch \/ ResolveResult \/ RemoveUnmatched \/ Validate
    PROVE  GivenUpInv'
<1> USE DEF crmVars, GivenUpInv, IncompleteSeen, GivenUpMalformed, OnlyMalformedFail
<1>1. CASE Fetch \/ ResolveResult
    BY <1>1 DEF Fetch, ResolveResult
<1>2. CASE RemoveUnmatched
  <2>1. PICK r \in pending : NeedsCounterpart(r) /\ results' = results \ {r}
      BY <1>2 DEF RemoveUnmatched
  <2>2. Incomplete \subseteq {r}
      BY <2>1 DEF NeedsCounterpart
  <2>3. results' \cap Incomplete = {}
      BY <2>1, <2>2
  <2>4. UNCHANGED <<pc, malformed, left, exported>>
      BY <1>2 DEF RemoveUnmatched
  <2> QED
      BY <2>3, <2>4
<1>3. CASE Validate
  <2>1. Invalid \subseteq Malformed
      BY <1>3 DEF Validate, Invalid
  <2> QED
      BY <1>3, <2>1 DEF Validate
<1> QED
    BY <1>1, <1>2, <1>3

LEMMA GivenUpStep ==
    ASSUME \A l \in Linked, i \in Incomplete : l = i, TypeOK, GivenUpInv, [Next]_vars
    PROVE  GivenUpInv'
<1> USE DEF crmVars, storeVars, loopVars, metaVars, runVars, histVars,
        GivenUpInv, IncompleteSeen, GivenUpMalformed, OnlyMalformedFail
<1>1. CASE Fetch \/ ResolveResult \/ RemoveUnmatched \/ Validate
    BY <1>1, LoopStep
<1>2. CASE UpdateChunk \/ UpdateChunkFails
  <2>1. PICK C \in SUBSET left : Mark(C)
      BY <1>2 DEF UpdateChunk, UpdateChunkFails
  <2>2. pc \in {"mark", "markMalformed"}
      BY <1>2 DEF UpdateChunk, UpdateChunkFails, Marking
  <2>3. \A r \in Results : exported'[r] = "FailedValidation" => r \in Malformed
      BY <2>1, <2>2 DEF Mark, Marking
  <2>4. \/ UNCHANGED <<pc, malformed>> /\ left' \subseteq left
        \/ pc' = "idle" /\ malformed' = {}
      BY <1>2 DEF UpdateChunk, UpdateChunkFails, Throw, ResetLocals
  <2> QED
      BY <2>2, <2>3, <2>4
<1>3. CASE PhaseDone \/ Abort \/ CompareMissing \/ DeletePartial \/ VerifyMissing
           \/ DeleteInvalid
    BY <1>3 DEF PhaseDone, Abort, CompareMissing, DeletePartial, VerifyMissing,
        DeleteInvalid, Throw, ResetLocals
<1>4. CASE \/ Start \/ NoMetadataFile \/ DownloadLatest \/ CheckResultsFile
           \/ CheckProcessedFile \/ CompareChecksum
    BY <1>4 DEF Start, NoMetadataFile, DownloadLatest, CheckResultsFile,
        CheckProcessedFile, CompareChecksum
<1>5. CASE \/ UploadMetadata \/ CreateFile \/ UploadRanges \/ UploadFails
           \/ VerifyFile \/ ProcessedMarked
    BY <1>5 DEF UploadMetadata, CreateFile, UploadRanges, UploadFails, VerifyFile,
        ProcessedMarked
<1>6. CASE NegateResult
  <2>1. \A r \in Results : exported'[r] = "FailedValidation" =>
            exported[r] = "FailedValidation"
      BY <1>6 DEF NegateResult, TypeOK
  <2>2. UNCHANGED runVars
      BY <1>6 DEF NegateResult
  <2> QED
      BY <2>1, <2>2
<1>7. CASE \/ PublishResult \/ PassCounterpart \/ ConsumerTakes \/ Midnight
           \/ UNCHANGED vars
    BY <1>7 DEF PublishResult, PassCounterpart, ConsumerTakes, Midnight, vars
<1> QED
    BY <1>1, <1>2, <1>3, <1>4, <1>5, <1>6, <1>7 DEF Next, Dispatcher, Environment

\* Only malformed records are given up, whatever fails, unless a two-part result
\* and another record whose gender is to be worked out are both about: the loop
\* skips an element only by removing the one in front of it.
THEOREM MalformedAloneFail ==
    ASSUME \A l \in Linked, i \in Incomplete : l = i
    PROVE  Spec => []OnlyMalformedFail
<1>1. Init => GivenUpInv
    BY DEF Init, GivenUpInv, IncompleteSeen, GivenUpMalformed, OnlyMalformedFail
<1>2. TypeOK /\ GivenUpInv /\ [Next]_vars => GivenUpInv'
    BY GivenUpStep
<1>3. GivenUpInv => OnlyMalformedFail
    BY DEF GivenUpInv
<1> QED
    BY <1>1, <1>2, <1>3, TypeCorrect, PTL DEF Spec
=============================================================================
