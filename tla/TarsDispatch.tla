---------------------------- MODULE TarsDispatch ----------------------------
(***************************************************************************)
(* The TARS results dispatcher: one timer-triggered invocation at a time   *)
(* reads unprocessed test results from the CRM, numbers a results file,    *)
(* writes its metadata blob and then the file, verifies it, and marks the  *)
(* results in the CRM.  Every remote call is an action of its own, so that *)
(* the CRM users, the TARS consumer, midnight, errors and a killed host    *)
(* can fall between any two of them.                                       *)
(***************************************************************************)
EXTENDS Integers, FiniteSets, BoundedRequests

CONSTANTS
    Results,        \* test history ids
    Malformed,      \* those whose record fails the result schema
    Incomplete,     \* those that pass it once title, gender and date are resolved
    Linked,         \* LGV/PCV two-part results with a person id
    FetchCount,     \* rows one CRM query returns at most
    BatchSize,      \* updates in one CRM batch
    MaxFailures,    \* bound: invocations that end in an error
    MaxDay          \* bound: last calendar day

ASSUME ConstantsAssumption ==
    /\ IsFiniteSet(Results)
    /\ Malformed \subseteq Results /\ Incomplete \subseteq Results
    /\ Linked \subseteq Results
    /\ FetchCount \in Nat \ {0}
    /\ BatchSize \in Nat \ {0}
    /\ MaxFailures \in Nat
    /\ MaxDay \in Nat \ {0}

VARIABLES
    \* CRM
    status,         \* test status of a history record
    exported,       \* its ftts_tarsexportedstatus
    counterpart,    \* linked results whose other part is a pass in the CRM
    \* storage
    metadata,       \* TARS blobs of the metadata container
    files,          \* the TARS file share
    today,
    \* the invocation
    pc,
    type,           \* TarsResultType of the phase
    results,        \* the results array
    pending,        \* elements the for..of loop has not reached
    resolved,       \* elements whose date, title and gender were resolved
    malformed,      \* malformedResults
    latest,         \* latestMetadataFile
    prefixed,       \* resultFileName carries the processed- prefix
    basic,          \* BasicTarsMetadata
    left,           \* results not yet in an executed update batch
    \* history
    taken,          \* files the consumer took
    raced,          \* results negated while an invocation held them
    failures        \* invocations that threw or were killed

crmVars   == <<status, exported, counterpart>>
storeVars == <<metadata, files>>
loopVars  == <<type, results, pending, resolved, malformed>>
metaVars  == <<latest, prefixed, basic>>
runVars   == <<pc, loopVars, metaVars, left>>
histVars  == <<taken, raced, failures>>
vars == <<crmVars, storeVars, today, runVars, histVars>>

-----------------------------------------------------------------------------
Types    == {"RESULT", "NEGATED_RESULT"}
Statuses == {"none", "Pass", "Negated"}
Exported == {"Unprocessed", "Processed", "FailedValidation"}

DEFAULT_SEQUENCE_NUMBER == 1000000

\* BasicTarsMetadata; created is kept as a calendar day.
BasicMetadata == [seq : Nat, day : Nat, daily : Nat]

\* TarsMetadata.  fileName is day, daily number and type; the checksum stands
\* for the content, which the record determines.
Metadata == [seq : Nat, day : Nat, daily : Nat, type : Types,
             rows : SUBSET Results]

\* A file of the share: what it was written for, whether its bytes are those,
\* and whether the consumer has put the processed- prefix to its name.
File == [of : Metadata, intact : BOOLEAN, processed : BOOLEAN]

NoBasic  == [seq |-> 0, day |-> 0, daily |-> 0]
NoLatest == [seq |-> 0, day |-> 0, daily |-> 0, type |-> "RESULT", rows |-> {}]

SameName(m, n) == m.day = n.day /\ m.daily = n.daily /\ m.type = n.type

\* The file called m.fileName, or processed-<m.fileName>.
Named(m, pre) == {f \in files : SameName(f.of, m) /\ f.processed = pre}

Exists(m, pre) == Named(m, pre) # {}

\* MD5 of the downloaded bytes against the checksum of m.
SameChecksum(f, m) == f.intact /\ f.of = m

\* metadataFile, and the file under construction.
Target == [seq |-> basic.seq, day |-> basic.day, daily |-> basic.daily,
           type |-> type, rows |-> results]

WriteFile(ok) ==
    files' = (files \ Named(Target, FALSE))
               \cup {[of |-> Target, intact |-> ok, processed |-> FALSE]}

\* A query answers with the unprocessed records of its kind, in no stated order.
Unprocessed(t) ==
    {r \in Results : /\ exported[r] = "Unprocessed"
                     /\ status[r] = IF t = "RESULT" THEN "Pass" ELSE "Negated"}

-----------------------------------------------------------------------------
Init ==
    /\ status = [r \in Results |-> "none"]
    /\ exported = [r \in Results |-> "Unprocessed"]
    /\ counterpart = {}
    /\ metadata = {} /\ files = {} /\ today = 1
    /\ pc = "idle" /\ type = "RESULT"
    /\ results = {} /\ pending = {} /\ resolved = {} /\ malformed = {}
    /\ latest = NoLatest /\ prefixed = FALSE /\ basic = NoBasic /\ left = {}
    /\ taken = {} /\ raced = {} /\ failures = 0

-----------------------------------------------------------------------------
(* The invocation.                                                         *)

\* Mutant of ResetLocals: the loop's position survives the array.
ResetLocalsButPending ==
    /\ results' = {} /\ resolved' = {} /\ malformed' = {}
    /\ latest' = NoLatest /\ prefixed' = FALSE /\ basic' = NoBasic
    /\ left' = {} /\ UNCHANGED pending

\* The locals of an invocation, or of a call of processResults, are gone.
ResetLocals ==
    /\ results' = {} /\ pending' = {} /\ resolved' = {} /\ malformed' = {}
    /\ latest' = NoLatest /\ prefixed' = FALSE /\ basic' = NoBasic
    /\ left' = {}

\* An error leaves dispatchResults: nothing later in it runs.
Throw ==
    /\ pc' = "idle" /\ type' = "RESULT"
    /\ ResetLocals
    /\ failures' = failures + 1
    /\ UNCHANGED <<taken, raced>>

MayFail == failures < MaxFailures

Start ==
    /\ pc = "idle"
    /\ pc' = "fetch"
    /\ UNCHANGED <<crmVars, storeVars, today, loopVars, metaVars, left, histVars>>

Fetch ==
    /\ pc = "fetch"
    /\ \E S \in SUBSET Unprocessed(type) :
          /\ FillsUpTo(S, Unprocessed(type), FetchCount)
          /\ results' = S /\ pending' = S
    /\ resolved' = {}
    /\ pc' = "resolve"
    /\ UNCHANGED <<crmVars, storeVars, today, type, malformed, metaVars, left,
                   histVars>>

\* The negated query selects neither product number nor person.
NeedsCounterpart(r) == type = "RESULT" /\ r \in Linked

\* One pass of the loop: date, title and gender of r are settled.
ResolveResult ==
    /\ pc = "resolve"
    /\ \E r \in pending :
          /\ NeedsCounterpart(r) => r \in counterpart
          /\ resolved' = resolved \cup {r}
          /\ pending' = pending \ {r}
    /\ UNCHANGED <<crmVars, storeVars, today, pc, type, results, malformed,
                   metaVars, left, histVars>>

\* Mutant of RemoveUnmatched: the element stays in the array.
RemoveUnmatchedKept ==
    /\ pc = "resolve"
    /\ \E r \in pending :
          /\ NeedsCounterpart(r) /\ r \notin counterpart
          /\ pending' = pending \ {r}
    /\ UNCHANGED <<crmVars, storeVars, today, pc, type, results, resolved, malformed,
                   metaVars, left, histVars>>

\* No other part is found: r is taken out of the array being iterated, the
\* element after it moves into its place, and the iterator steps past that.
RemoveUnmatched ==
    /\ pc = "resolve"
    /\ \E r \in pending :
          /\ NeedsCounterpart(r) /\ r \notin counterpart
          /\ results' = results \ {r}
          /\ \/ pending = {r} /\ pending' = {}
             \/ \E next \in pending \ {r} : pending' = pending \ {r, next}
    /\ UNCHANGED <<crmVars, storeVars, today, pc, type, resolved, malformed,
                   metaVars, left, histVars>>

\* What isInvalidTestResult finds wrong with the array after the loop.
Invalid == results \cap (Malformed \cup (Incomplete \ resolved))

Validate ==
    /\ pc = "resolve" /\ pending = {}
    /\ malformed' = Invalid
    /\ results' = results \ Invalid
    /\ \/ results' # {} /\ pc' = "latest" /\ left' = {}
       \/ results' = {} /\ pc' = "markMalformed" /\ left' = malformed'
    /\ UNCHANGED <<crmVars, storeVars, today, type, pending, resolved, metaVars,
                   histVars>>

-----------------------------------------------------------------------------
(* prepareNewBasicMetadata.                                                *)

IsLatest(m) == \A n \in metadata : n.seq <= m.seq

\* Mutant of DailyNumber: the number of a correct file is used again.
DailyNumberReused(ok) == IF latest.day = today THEN latest.daily ELSE 1

DailyNumber(ok) ==
    IF latest.day = today THEN IF ok THEN latest.daily + 1 ELSE latest.daily
                          ELSE 1

\* Mutants of NextBasic: the number of a correct file is used again; the number
\* of a failed file is used up.
NextBasicReused(ok) ==
    [seq |-> latest.seq, day |-> today, daily |-> DailyNumber(ok)]

NextBasicUsedUp(ok) ==
    [seq |-> latest.seq + 1, day |-> today, daily |-> DailyNumber(ok)]

NextBasic(ok) ==
    [seq   |-> IF ok THEN latest.seq + 1 ELSE latest.seq,
     day   |-> today,
     daily |-> DailyNumber(ok)]

FirstBasic == [seq |-> DEFAULT_SEQUENCE_NUMBER, day |-> today, daily |-> 1]

NoMetadataFile ==
    /\ pc = "latest" /\ metadata = {}
    /\ basic' = FirstBasic
    /\ pc' = "uploadMetadata"
    /\ UNCHANGED <<crmVars, storeVars, today, loopVars, latest, prefixed, left,
                   histVars>>

DownloadLatest ==
    /\ pc = "latest"
    /\ \E m \in metadata : IsLatest(m) /\ latest' = m
    /\ pc' = "exists"
    /\ UNCHANGED <<crmVars, storeVars, today, loopVars, prefixed, basic, left,
                   histVars>>

CheckResultsFile ==
    /\ pc = "exists"
    /\ pc' = IF Exists(latest, FALSE) THEN "compare" ELSE "existsProcessed"
    /\ prefixed' = FALSE
    /\ UNCHANGED <<crmVars, storeVars, today, loopVars, latest, basic, left,
                   histVars>>

CheckProcessedFile ==
    /\ pc = "existsProcessed"
    /\ \/ /\ Exists(latest, TRUE)
          /\ prefixed' = TRUE /\ pc' = "compare"
          /\ UNCHANGED basic
       \/ /\ ~Exists(latest, TRUE)
          /\ basic' = NextBasic(FALSE) /\ pc' = "uploadMetadata"
          /\ UNCHANGED prefixed
    /\ UNCHANGED <<crmVars, storeVars, today, loopVars, latest, left, histVars>>

CompareChecksum ==
    /\ pc = "compare"
    /\ \E f \in Named(latest, prefixed) :
          basic' = NextBasic(SameChecksum(f, latest))
    /\ pc' = "uploadMetadata"
    /\ UNCHANGED <<crmVars, storeVars, today, loopVars, latest, prefixed, left,
                   histVars>>

\* The consumer renamed the file after it was seen: the download fails.
CompareMissing ==
    /\ pc = "compare" /\ ~Exists(latest, prefixed)
    /\ Throw
    /\ UNCHANGED <<crmVars, storeVars, today>>

-----------------------------------------------------------------------------
(* Metadata first, then the file, then its verification.                   *)

UploadMetadata ==
    /\ pc = "uploadMetadata"
    /\ metadata' = {m \in metadata : m.seq # basic.seq} \cup {Target}
    /\ pc' = "createFile"
    /\ UNCHANGED <<crmVars, files, today, loopVars, metaVars, left, histVars>>

\* Mutant of CreateFile: it refuses to replace a file of the same name.
CreateFileOnce ==
    /\ pc = "createFile" /\ ~Exists(Target, FALSE)
    /\ WriteFile(FALSE)
    /\ pc' = "upload"
    /\ UNCHANGED <<crmVars, metadata, today, loopVars, metaVars, left, histVars>>

\* An empty file of the right length; it replaces one of the same name.
CreateFile ==
    /\ pc = "createFile"
    /\ WriteFile(FALSE)
    /\ pc' = "upload"
    /\ UNCHANGED <<crmVars, metadata, today, loopVars, metaVars, left, histVars>>

\* Every range was accepted; the stored bytes may still differ.
UploadRanges ==
    /\ pc = "upload" /\ Exists(Target, FALSE)
    /\ \E ok \in BOOLEAN : (ok \/ MayFail) /\ WriteFile(ok)
    /\ pc' = "verify"
    /\ UNCHANGED <<crmVars, metadata, today, loopVars, metaVars, left, histVars>>

\* A range was refused, its answer was lost, or the file is no longer there.
UploadFails ==
    /\ pc = "upload"
    /\ \/ Exists(Target, FALSE) /\ MayFail /\ \E ok \in BOOLEAN : WriteFile(ok)
       \/ ~Exists(Target, FALSE) /\ UNCHANGED files
    /\ pc' = "deletePartial"
    /\ UNCHANGED <<crmVars, metadata, today, loopVars, metaVars, left, histVars>>

DeletePartial ==
    /\ pc = "deletePartial"
    /\ files' = files \ Named(Target, FALSE)
    /\ Throw
    /\ UNCHANGED <<crmVars, metadata, today>>

\* Mutant of VerifyFile: the checksum is not compared.
VerifyFileExists ==
    /\ pc = "verify" /\ Exists(Target, FALSE)
    /\ pc' = "mark" /\ left' = results
    /\ UNCHANGED <<crmVars, storeVars, today, loopVars, metaVars, histVars>>

VerifyFile ==
    /\ pc = "verify"
    /\ \E f \in Named(Target, FALSE) :
          \/ SameChecksum(f, Target) /\ pc' = "mark" /\ left' = results
          \/ ~SameChecksum(f, Target) /\ pc' = "deleteInvalid" /\ UNCHANGED left
    /\ UNCHANGED <<crmVars, storeVars, today, loopVars, metaVars, histVars>>

VerifyMissing ==
    /\ pc = "verify" /\ ~Exists(Target, FALSE)
    /\ Throw
    /\ UNCHANGED <<crmVars, storeVars, today>>

\* A failed delete is only logged.
DeleteInvalid ==
    /\ pc = "deleteInvalid"
    /\ files' \in {files, files \ Named(Target, FALSE)}
    /\ Throw
    /\ UNCHANGED <<crmVars, metadata, today>>

-----------------------------------------------------------------------------
(* updateTestResultsTarsExportedStatus, a chunk at a time.                 *)

Marking == [mark |-> "Processed", markMalformed |-> "FailedValidation"]

Mark(C) ==
    exported' = [r \in Results |-> IF r \in C THEN Marking[pc] ELSE exported[r]]

\* Mutant of UpdateChunk: only the first chunk is sent.
UpdateFirstChunk ==
    /\ pc \in DOMAIN Marking /\ left # {}
    /\ \E C \in SUBSET left : FillsUpTo(C, left, BatchSize) /\ Mark(C)
    /\ left' = {}
    /\ UNCHANGED <<status, counterpart, storeVars, today, pc, loopVars, metaVars,
                   histVars>>

UpdateChunk ==
    /\ pc \in DOMAIN Marking /\ left # {}
    /\ \E C \in SUBSET left :
          /\ FillsUpTo(C, left, BatchSize)
          /\ Mark(C)
          /\ left' = left \ C
    /\ UNCHANGED <<status, counterpart, storeVars, today, pc, loopVars, metaVars,
                   histVars>>

\* executeBatch rejects after the CRM applied some of the updates.
UpdateChunkFails ==
    /\ pc \in DOMAIN Marking /\ left # {} /\ MayFail
    /\ \E C \in SUBSET left :
          /\ FillsUpTo(C, left, BatchSize)
          /\ \E applied \in SUBSET C : Mark(applied)
    /\ Throw
    /\ UNCHANGED <<status, counterpart, storeVars, today>>

ProcessedMarked ==
    /\ pc = "mark" /\ left = {}
    /\ pc' = "markMalformed" /\ left' = malformed
    /\ UNCHANGED <<crmVars, storeVars, today, loopVars, metaVars, histVars>>

\* processResults returns: on to the negated results, or the invocation ends.
PhaseDone ==
    /\ pc = "markMalformed" /\ left = {}
    /\ \/ type = "RESULT" /\ type' = "NEGATED_RESULT" /\ pc' = "fetch"
       \/ type = "NEGATED_RESULT" /\ type' = "RESULT" /\ pc' = "idle"
    /\ ResetLocals
    /\ UNCHANGED <<crmVars, storeVars, today, histVars>>

\* Any awaited call rejects without effect, or the host is stopped.
Abort ==
    /\ pc # "idle" /\ MayFail
    /\ Throw
    /\ UNCHANGED <<crmVars, storeVars, today>>

-----------------------------------------------------------------------------
(* The surroundings.                                                       *)

PublishResult ==
    /\ \E r \in Results :
          /\ status[r] = "none"
          /\ status' = [status EXCEPT ![r] = "Pass"]
    /\ UNCHANGED <<exported, counterpart, storeVars, today, runVars, histVars>>

\* The negated query needs status Negated and exported status Unprocessed.
NegateResult ==
    /\ \E r \in Results :
          /\ status[r] = "Pass"
          /\ status' = [status EXCEPT ![r] = "Negated"]
          /\ exported' = [exported EXCEPT ![r] = "Unprocessed"]
          /\ raced' = IF r \in results \cup malformed THEN raced \cup {r}
                                                      ELSE raced
    /\ UNCHANGED <<counterpart, storeVars, today, runVars, taken, failures>>

PassCounterpart ==
    /\ \E r \in Linked \ counterpart : counterpart' = counterpart \cup {r}
    /\ UNCHANGED <<status, exported, storeVars, today, runVars, histVars>>

\* The consumer renames any file it sees.  Renaming the file of a running
\* invocation makes that invocation fail, so it counts against the bound.
ConsumerTakes ==
    /\ pc # "idle" => MayFail
    /\ \E f \in files :
          /\ ~f.processed
          /\ files' = (files \ ({f} \cup Named(f.of, TRUE)))
                        \cup {[f EXCEPT !.processed = TRUE]}
          /\ taken' = taken \cup {f}
    /\ UNCHANGED <<crmVars, metadata, today, runVars, raced, failures>>

Midnight ==
    /\ today < MaxDay
    /\ today' = today + 1
    /\ UNCHANGED <<crmVars, storeVars, runVars, histVars>>

-----------------------------------------------------------------------------
Dispatcher ==
    \/ Start \/ Fetch \/ ResolveResult \/ RemoveUnmatched \/ Validate
    \/ NoMetadataFile \/ DownloadLatest \/ CheckResultsFile
    \/ CheckProcessedFile \/ CompareChecksum \/ CompareMissing
    \/ UploadMetadata \/ CreateFile \/ UploadRanges \/ UploadFails
    \/ DeletePartial \/ VerifyFile \/ VerifyMissing \/ DeleteInvalid
    \/ UpdateChunk \/ UpdateChunkFails \/ ProcessedMarked \/ PhaseDone

Environment ==
    \/ Abort \/ PublishResult \/ NegateResult \/ PassCounterpart
    \/ ConsumerTakes \/ Midnight

Next == Dispatcher \/ Environment

Spec == Init /\ [][Next]_vars

\* The timer fires again after every run and a running invocation goes on.
\* Nothing is promised of the CRM users, the consumer, the clock or errors.
FairSpec == Spec /\ WF_vars(Dispatcher)

-----------------------------------------------------------------------------
TypeOK ==
    /\ status \in [Results -> Statuses]
    /\ exported \in [Results -> Exported]
    /\ counterpart \subseteq Linked
    /\ metadata \subseteq Metadata
    /\ files \subseteq File
    /\ today \in 1..MaxDay
    /\ pc \in {"idle", "fetch", "resolve", "latest", "exists",
               "existsProcessed", "compare", "uploadMetadata", "createFile",
               "upload", "deletePartial", "verify", "deleteInvalid", "mark",
               "markMalformed"}
    /\ type \in Types
    /\ results \subseteq Results /\ pending \subseteq results
    /\ resolved \subseteq Results /\ malformed \subseteq Results
    /\ latest \in Metadata /\ prefixed \in BOOLEAN /\ basic \in BasicMetadata
    /\ left \subseteq Results
    /\ taken \subseteq File /\ raced \subseteq Results
    /\ failures \in Nat

\* What TARS was given or can still pick up, correctly written.
Emitted == {f.of : f \in {g \in files \cup taken : g.intact}}

KindOf(s) == IF s = "Negated" THEN "NEGATED_RESULT" ELSE "RESULT"

\* A result marked Processed is in a correct results file that TARS has or can
\* still pick up, whatever failed since: the mark is only written after the
\* verification, and no later upload replaces or deletes the file.  Unless it
\* was negated while an invocation held it, the file is of the result's kind.
ProcessedDelivered ==
    \A r \in Results : exported[r] = "Processed" =>
        \E m \in Emitted : /\ r \in m.rows
                           /\ r \notin raced => m.type = KindOf(status[r])

\* The sequence number of a correct file is never given to another one,
\* although a number is reused after every failed upload.
SequenceUnique ==
    \A m, n \in Emitted : m.seq = n.seq => m = n

\* Correct files leave no gap in the sequence: a failed upload does not use
\* its number up.
SequenceContiguous ==
    \A m \in Emitted : \/ m.seq = DEFAULT_SEQUENCE_NUMBER
                       \/ \E n \in Emitted : n.seq = m.seq - 1

Earlier(m, n) == m.day < n.day \/ (m.day = n.day /\ m.daily < n.daily)

\* The file names (date, then daily number) sort as the sequence numbers do,
\* over midnight and over reused numbers: no two correct files share a name.
NamesInSequence ==
    \A m, n \in Emitted : m.seq < n.seq => Earlier(m, n)

\* Without a failed invocation nothing is sent twice, however the records
\* change, the consumer renames files and the batches are cut.
OnceWithoutFailure ==
    failures = 0 =>
        \A m, n \in Emitted :
            m # n /\ m.type = n.type => m.rows \cap n.rows = {}

\* A record is given up as failed validation only if it is malformed: what the
\* dispatcher can work out itself (gender from the licence) does not count.
OnlyMalformedFail ==
    \A r \in Results : exported[r] = "FailedValidation" => r \in Malformed

\* A record the query finds, and whose other part (if it needs one) was
\* passed, does not stay unprocessed: each failed invocation is made up for.
Ready(r) ==
    \/ status[r] = "Pass" /\ (r \in Linked => r \in counterpart)
    \/ status[r] = "Negated"

EventuallyDispatched ==
    \A r \in Results : Ready(r) ~> exported[r] # "Unprocessed"

\* The files TARS can read and the marks in the CRM are a numbered log, whatever
\* fails: files get the next number, only the last one is ever taken back, and
\* only before one of its records is marked; only records of the last file are
\* marked Processed, and only unmarked ones are given up.
Log == INSTANCE ResultsLog WITH
           First <- DEFAULT_SEQUENCE_NUMBER,
           log   <- {[seq |-> m.seq, rows |-> m.rows] : m \in Emitted},
           mark  <- exported

ImplementsLog == Log!Spec
=============================================================================
