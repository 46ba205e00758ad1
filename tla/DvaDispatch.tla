---------------------------- MODULE DvaDispatch ----------------------------
(***************************************************************************)
(* The DVA results dispatcher, for one test type: LEARNER, or one of the   *)
(* instructor types ADI and AMI.  An invocation reads unprocessed results  *)
(* from the CRM, takes the next sequence number, marks malformed records,  *)
(* puts a file (a header alone if need be) on the SFTP server, verifies    *)
(* it, and only then stores the number and marks the results.              *)
(* Every remote call is an action of its own.                              *)
(***************************************************************************)
EXTENDS Integers, FiniteSets, BoundedRequests

CONSTANTS
    Learner,         \* LEARNER, or an instructor test type
    Results,         \* test history ids of this test type
    Malformed,       \* those whose record fails the result schema
    Linked,          \* LGV/PCV two-part results with a person id
    Undated,         \* those whose other part has no start time
    FetchCount,      \* rows one CRM query returns at most
    BatchSize,       \* updates in one CRM batch
    CreateMetadata,  \* createMetadataFileIfNotExists
    DefaultSequence, \* the first sequence number
    Present,         \* increment numbers on the server when the first day starts
    MaxFailures,     \* bound: invocations that end in an error of a remote call
    MaxIdle,         \* bound: invocations started when nothing can be dispatched
    MaxDay           \* bound: last calendar day

ASSUME ConstantsAssumption ==
    /\ Learner \in BOOLEAN
    /\ IsFiniteSet(Results)
    /\ Malformed \subseteq Results
    /\ Linked \subseteq Results /\ (Linked # {} => Learner)
    /\ Undated \subseteq Linked
    /\ FetchCount \in Nat \ {0}
    /\ BatchSize \in Nat \ {0}
    /\ CreateMetadata \in BOOLEAN
    /\ DefaultSequence \in Nat \ {0}
    /\ IsFiniteSet(Present) /\ Present \subseteq 1..999
    /\ Present # {} => Learner
    /\ MaxFailures \in Nat
    /\ MaxIdle \in Nat
    /\ MaxDay \in Nat \ {0}

VARIABLES
    \* CRM
    available,      \* results with a final test status
    exported,       \* their ftts_tarsexportedstatus
    counterpart,    \* linked results whose other part is a pass in the CRM
    \* storage
    metadata,       \* sequence number in this type's metadata blob, or NoBlob
    files,          \* this type's files on the SFTP server
    today,
    \* the invocation
    pc,
    results,        \* the results array
    pending,        \* elements the for..of loop has not reached
    resolved,       \* elements with the date of their other part
    left,           \* results not yet in an executed update batch
    sequence,       \* sequenceNumber
    listed,         \* increment numbers in the listing
    name,           \* resultsFileName
    \* history
    collected,      \* files the DVA took
    recorded,       \* files whose number was stored
    idle,           \* invocations started when nothing could be dispatched
    failures        \* invocations a failing remote call or a stop ended

crmVars   == <<available, exported, counterpart>>
storeVars == <<metadata, files>>
loopVars  == <<results, pending, resolved, left>>
fileVars  == <<sequence, listed, name>>
runVars   == <<pc, loopVars, fileVars>>
histVars  == <<collected, recorded, idle, failures>>
vars == <<crmVars, storeVars, today, runVars, histVars>>

-----------------------------------------------------------------------------
Exported == {"Unprocessed", "Processed", "FailedValidation"}

NoBlob == 0

\* The date of a name is the day before the run; here it is the day itself.
Name == [day : Nat, number : Nat]
NoName == [day |-> 0, number |-> 0]

\* name, header sequence and rows of a file; the bytes follow from them.
Content == [name : Name, seq : Nat, rows : SUBSET Results]
File == [of : Content, intact : BOOLEAN]

Named(n) == {f \in files : f.of.name = n}

Target == [name |-> name, seq |-> sequence, rows |-> results]

WriteFile(ok) == files' = (files \ Named(name)) \cup {[of |-> Target, intact |-> ok]}

Unprocessed == {r \in available : exported[r] = "Unprocessed"}

\* What an invocation can send or mark.
Work == {r \in Unprocessed : r \in Malformed \/ (r \in Linked => r \in counterpart)}

-----------------------------------------------------------------------------
(* The number in a learner file's name.                                    *)

\* The order of the substrings after the date, "01.txt" to "999.txt": numbers
\* are filled to two digits, so those from 100 on are wider.
StringLess(m, n) ==
    \/ (m < 100 <=> n < 100) /\ m < n
    \/ m < 100 /\ n >= 100 /\ m <= n \div 10
    \/ m >= 100 /\ n < 100 /\ m \div 10 < n

Highest(S) == CHOOSE m \in S : \A n \in S \ {m} : StringLess(n, m)

\* Mutant of IncrementNumber: the files are counted.
IncrementNumberCounted(S) == Cardinality(S) + 1

IncrementNumber(S) == IF S = {} THEN 1 ELSE Highest(S) + 1

NumbersOn(day) == {f.of.name.number : f \in {g \in files : g.of.name.day = day}}

-----------------------------------------------------------------------------
Init ==
    /\ available = {} /\ counterpart = {}
    /\ exported = [r \in Results |-> "Unprocessed"]
    /\ metadata = NoBlob /\ today = 1
    /\ files = {[of |-> [name |-> [day |-> 1, number |-> n], seq |-> 0,
                         rows |-> {}], intact |-> TRUE] : n \in Present}
    /\ pc = "idle"
    /\ results = {} /\ pending = {} /\ resolved = {} /\ left = {}
    /\ sequence = 0 /\ listed = {} /\ name = NoName
    /\ collected = {} /\ recorded = {} /\ idle = 0 /\ failures = 0

-----------------------------------------------------------------------------
(* The invocation.                                                         *)

\* Mutant of End: the loop's position survives the array.
EndButPending ==
    /\ pc' = "idle"
    /\ results' = {} /\ resolved' = {} /\ left' = {} /\ UNCHANGED pending
    /\ sequence' = 0 /\ listed' = {} /\ name' = NoName

\* It is over; its locals are gone.
End ==
    /\ pc' = "idle"
    /\ results' = {} /\ pending' = {} /\ resolved' = {} /\ left' = {}
    /\ sequence' = 0 /\ listed' = {} /\ name' = NoName

MayFail == failures < MaxFailures

\* A remote call rejected, or the host was stopped.
Fail ==
    /\ End
    /\ failures' = failures + 1
    /\ UNCHANGED <<collected, recorded, idle>>

Start ==
    /\ pc = "idle"
    /\ \/ Work # {} /\ UNCHANGED idle
       \/ Work = {} /\ idle < MaxIdle /\ idle' = idle + 1
    /\ pc' = "fetch"
    /\ UNCHANGED <<crmVars, storeVars, today, loopVars, fileVars, collected,
                   recorded, failures>>

Fetch ==
    /\ pc = "fetch"
    /\ \E S \in SUBSET Unprocessed :
          FillsUpTo(S, Unprocessed, FetchCount) /\ results' = S
    /\ pc' = "sequence"
    /\ UNCHANGED <<crmVars, storeVars, today, pending, resolved, left, fileVars,
                   histVars>>

\* Mutant of NextSequence: the number stored is the one used next.
NextSequenceStored == IF metadata = NoBlob THEN DefaultSequence ELSE metadata

NextSequence == IF metadata = NoBlob THEN DefaultSequence ELSE metadata + 1

GetNextSequenceNumber ==
    /\ pc = "sequence"
    /\ metadata # NoBlob \/ CreateMetadata
    /\ sequence' = NextSequence
    /\ pc' = "validate"
    /\ UNCHANGED <<crmVars, storeVars, today, loopVars, listed, name, histVars>>

\* The blob is missing and must not be created.
MetadataNotFound ==
    /\ pc = "sequence" /\ metadata = NoBlob /\ ~CreateMetadata
    /\ End
    /\ UNCHANGED <<crmVars, storeVars, today, histVars>>

\* Mutant of RemoveMalformed: malformed records are left for the end.
RemoveMalformedUnmarked ==
    /\ pc = "validate"
    /\ results' = results \ Malformed /\ pending' = results \ Malformed
    /\ pc' = "resolve"
    /\ UNCHANGED <<crmVars, storeVars, today, resolved, left, fileVars, histVars>>

RemoveMalformed ==
    /\ pc = "validate"
    /\ results' = results \ Malformed
    /\ pending' = results \ Malformed
    /\ left' = results \cap Malformed
    /\ pc' = "markMalformed"
    /\ UNCHANGED <<crmVars, storeVars, today, resolved, fileVars, histVars>>

MalformedMarked ==
    /\ pc = "markMalformed" /\ left = {}
    /\ pc' = "resolve"
    /\ UNCHANGED <<crmVars, storeVars, today, loopVars, fileVars, histVars>>

\* One pass of the loop.
ResolveResult ==
    /\ pc = "resolve"
    /\ \E r \in pending :
          /\ r \in Linked => r \in counterpart \ Undated
          /\ resolved' = resolved \cup {r}
          /\ pending' = pending \ {r}
    /\ UNCHANGED <<crmVars, storeVars, today, pc, results, left, fileVars,
                   histVars>>

\* startTime of the other part is undefined: toISOString throws.
ResolveUndated ==
    /\ pc = "resolve" /\ pending \cap counterpart \cap Undated # {}
    /\ End
    /\ UNCHANGED <<crmVars, storeVars, today, histVars>>

\* Mutant of RemoveUnmatched: the element stays in the array.
RemoveUnmatchedKept ==
    /\ pc = "resolve"
    /\ \E r \in (pending \cap Linked) \ counterpart : pending' = pending \ {r}
    /\ UNCHANGED <<crmVars, storeVars, today, pc, results, resolved, left, fileVars,
                   histVars>>

\* No other part is found: r is taken out of the array being iterated, and the
\* iterator steps past the element that moves into its place.
RemoveUnmatched ==
    /\ pc = "resolve"
    /\ \E r \in (pending \cap Linked) \ counterpart :
          /\ results' = results \ {r}
          /\ \/ pending = {r} /\ pending' = {}
             \/ \E next \in pending \ {r} : pending' = pending \ {r, next}
    /\ UNCHANGED <<crmVars, storeVars, today, pc, resolved, left, fileVars,
                   histVars>>

-----------------------------------------------------------------------------
(* The file: listing, name, upload, verification.                          *)

ListFiles ==
    /\ pc = "resolve" /\ pending = {}
    /\ listed' = IF Learner THEN NumbersOn(today) ELSE {}
    /\ pc' = "name"
    /\ UNCHANGED <<crmVars, storeVars, today, loopVars, sequence, name, histVars>>

\* The date is read again after the listing came back.
CreateFileName ==
    /\ pc = "name"
    /\ name' = [day |-> today,
                number |-> IF Learner THEN IncrementNumber(listed) ELSE sequence]
    /\ pc' = "put"
    /\ UNCHANGED <<crmVars, storeVars, today, loopVars, sequence, listed, histVars>>

\* Mutant of PutFile: it refuses to replace a file of the same name.
PutFileOnce ==
    /\ pc = "put" /\ Named(name) = {}
    /\ \E ok \in BOOLEAN : (ok \/ MayFail) /\ WriteFile(ok)
    /\ pc' = "verify"
    /\ UNCHANGED <<crmVars, metadata, today, loopVars, fileVars, histVars>>

\* It replaces a file of the same name.
PutFile ==
    /\ pc = "put"
    /\ \E ok \in BOOLEAN : (ok \/ MayFail) /\ WriteFile(ok)
    /\ pc' = "verify"
    /\ UNCHANGED <<crmVars, metadata, today, loopVars, fileVars, histVars>>

\* The transfer or the closing of the connection failed: a part of the file,
\* or all of it, may be there.  Nothing is deleted.
PutFails ==
    /\ pc = "put" /\ MayFail
    /\ \E ok \in BOOLEAN : WriteFile(ok)
    /\ Fail
    /\ UNCHANGED <<crmVars, metadata, today>>

\* Mutant of VerifyFile: the checksum is not compared.
VerifyFileExists ==
    /\ pc = "verify" /\ Named(name) # {}
    /\ pc' = "store"
    /\ UNCHANGED <<crmVars, storeVars, today, loopVars, fileVars, histVars>>

VerifyFile ==
    /\ pc = "verify"
    /\ \E f \in Named(name) :
          pc' = IF f.intact /\ f.of = Target THEN "store" ELSE "deleteInvalid"
    /\ UNCHANGED <<crmVars, storeVars, today, loopVars, fileVars, histVars>>

VerifyMissing ==
    /\ pc = "verify" /\ Named(name) = {}
    /\ Fail
    /\ UNCHANGED <<crmVars, storeVars, today>>

\* Whether or not the delete works, an error follows.
DeleteInvalid ==
    /\ pc = "deleteInvalid"
    /\ files' \in {files, files \ Named(name)}
    /\ Fail
    /\ UNCHANGED <<crmVars, metadata, today>>

-----------------------------------------------------------------------------
(* The number, then the records.                                           *)

UpdateSequenceNumber ==
    /\ pc = "store"
    /\ metadata' = sequence
    /\ recorded' = recorded \cup {Target}
    /\ pc' = "mark" /\ left' = results
    /\ UNCHANGED <<crmVars, files, today, results, pending, resolved, fileVars,
                   collected, idle, failures>>

Marking == [mark |-> "Processed", markMalformed |-> "FailedValidation"]

Mark(C) ==
    exported' = [r \in Results |-> IF r \in C THEN Marking[pc] ELSE exported[r]]

\* Mutant of UpdateChunk: only the first chunk is sent.
UpdateFirstChunk ==
    /\ pc \in DOMAIN Marking /\ left # {}
    /\ \E C \in SUBSET left : FillsUpTo(C, left, BatchSize) /\ Mark(C)
    /\ left' = {}
    /\ UNCHANGED <<available, counterpart, storeVars, today, pc, results,
                   pending, resolved, fileVars, histVars>>

UpdateChunk ==
    /\ pc \in DOMAIN Marking /\ left # {}
    /\ \E C \in SUBSET left :
          /\ FillsUpTo(C, left, BatchSize)
          /\ Mark(C)
          /\ left' = left \ C
    /\ UNCHANGED <<available, counterpart, storeVars, today, pc, results,
                   pending, resolved, fileVars, histVars>>

\* executeBatch rejects after the CRM applied some of the updates.
UpdateChunkFails ==
    /\ pc \in DOMAIN Marking /\ left # {} /\ MayFail
    /\ \E C \in SUBSET left :
          /\ FillsUpTo(C, left, BatchSize)
          /\ \E applied \in SUBSET C : Mark(applied)
    /\ Fail
    /\ UNCHANGED <<available, counterpart, storeVars, today>>

Done ==
    /\ pc = "mark" /\ left = {}
    /\ End
    /\ UNCHANGED <<crmVars, storeVars, today, histVars>>

\* Any awaited call rejects without effect, or the host is stopped.
Abort ==
    /\ pc # "idle" /\ MayFail
    /\ Fail
    /\ UNCHANGED <<crmVars, storeVars, today>>

-----------------------------------------------------------------------------
(* The surroundings.                                                       *)

PublishResult ==
    /\ \E r \in Results \ available : available' = available \cup {r}
    /\ UNCHANGED <<exported, counterpart, storeVars, today, runVars, histVars>>

PassCounterpart ==
    /\ \E r \in Linked \ counterpart : counterpart' = counterpart \cup {r}
    /\ UNCHANGED <<available, exported, storeVars, today, runVars, histVars>>

\* Somebody stores the number to go on from, when the dispatcher must not.
ProvideMetadata ==
    /\ metadata = NoBlob /\ ~CreateMetadata
    /\ metadata' = DefaultSequence
    /\ UNCHANGED <<crmVars, files, today, runVars, histVars>>

\* The DVA takes a file, and may remove it.  Removing the file of a running
\* invocation makes that invocation fail, so it counts against the bound.
Collect ==
    /\ \E f \in files :
          /\ collected' = collected \cup {f}
          /\ \/ UNCHANGED files
             \/ (pc # "idle" => MayFail) /\ files' = files \ {f}
    /\ UNCHANGED <<crmVars, metadata, today, runVars, recorded, idle, failures>>

Midnight ==
    /\ today < MaxDay
    /\ today' = today + 1
    /\ UNCHANGED <<crmVars, storeVars, runVars, histVars>>

-----------------------------------------------------------------------------
Dispatcher ==
    \/ Start \/ Fetch \/ GetNextSequenceNumber \/ MetadataNotFound
    \/ RemoveMalformed \/ MalformedMarked
    \/ ResolveResult \/ ResolveUndated \/ RemoveUnmatched
    \/ ListFiles \/ CreateFileName \/ PutFile \/ PutFails
    \/ VerifyFile \/ VerifyMissing \/ DeleteInvalid
    \/ UpdateSequenceNumber \/ UpdateChunk \/ UpdateChunkFails \/ Done

Environment ==
    \/ Abort \/ PublishResult \/ PassCounterpart \/ ProvideMetadata \/ Collect
    \/ Midnight

Next == Dispatcher \/ Environment

Spec == Init /\ [][Next]_vars

\* The timer fires again after every run and a running invocation goes on.
FairSpec == Spec /\ WF_vars(Dispatcher)

-----------------------------------------------------------------------------
TypeOK ==
    /\ available \subseteq Results /\ counterpart \subseteq Linked
    /\ exported \in [Results -> Exported]
    /\ metadata \in Nat /\ files \subseteq File /\ today \in 1..MaxDay
    /\ pc \in {"idle", "fetch", "sequence", "validate", "markMalformed",
               "resolve", "name", "put", "verify", "deleteInvalid", "store",
               "mark"}
    /\ results \subseteq Results /\ pending \subseteq results
    /\ resolved \subseteq Results /\ left \subseteq Results
    /\ sequence \in Nat /\ listed \subseteq Nat /\ name \in Name
    /\ collected \subseteq File /\ recorded \subseteq Content
    /\ idle \in Nat /\ failures \in Nat

\* What the DVA was given or can still pick up, correctly written.
Emitted == {f.of : f \in {g \in files \cup collected : g.intact}}

\* A result marked Processed is in a file whose number was stored and that the
\* DVA has or can still pick up, whatever fails later: neither a retry under
\* the same number nor a later learner file replaces or deletes it.
ProcessedDelivered ==
    \A r \in Results : exported[r] = "Processed" =>
        \E m \in recorded \cap Emitted : r \in m.rows

\* Where file names are not numbered by the sequence that holds up to name 99
\* of a day: no retry, no listing made before midnight and no file the DVA
\* removed gets the name of a file used again that it has still to pick up.
DeliveredBelowHundred ==
    \A r \in Results : exported[r] = "Processed" =>
        \E m \in recorded : r \in m.rows /\ (m.name.number < 100 => m \in Emitted)

\* Files whose number was stored are numbered without gap or repetition up to
\* the number in the blob, though a retry sends a number a second time.
RecordedInSequence ==
    /\ \A m, n \in recorded : m.seq = n.seq => m = n
    /\ \A m \in recorded :
          \/ m.seq = metadata
          \/ \E n \in recorded : n.seq = m.seq + 1

\* Without a failed invocation no result is sent twice and no number is used
\* twice.
OnceWithoutFailure ==
    failures = 0 =>
        \A m, n \in Emitted :
            m # n => /\ m.rows \cap n.rows = {}
                     /\ m.seq # 0 => m.seq # n.seq

\* A malformed record is marked as such even while another record makes every
\* invocation throw before it sends a file.
MalformedRecordsMarked ==
    \A r \in Malformed : r \in available ~> exported[r] = "FailedValidation"

\* A result whose other part (if it needs one) was passed is sent and marked,
\* once there is a number to go on from: each failed invocation is made up for.
Ready(r) ==
    /\ r \in available \ Malformed
    /\ r \in Linked => r \in counterpart
    /\ metadata # NoBlob \/ CreateMetadata

EventuallyDispatched ==
    \A r \in Results : Ready(r) ~> exported[r] = "Processed"

\* The files whose number was stored and the marks in the CRM are a numbered
\* log: a number is stored once, the next one follows it, only records of the
\* last file are marked Processed, and only unmarked ones are given up.
Log == INSTANCE ResultsLog WITH
           First <- IF CreateMetadata THEN DefaultSequence ELSE DefaultSequence + 1,
           log   <- {[seq |-> m.seq, rows |-> m.rows] : m \in recorded},
           mark  <- exported

ImplementsLog == Log!Spec

\* The file carries, for every two-part result, the date of its other part.
LinkedResultsResolved == pc = "put" => results \cap Linked \subseteq resolved
=============================================================================
