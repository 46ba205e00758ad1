-------------------------- MODULE FileHousekeeping --------------------------
(* The housekeeping function: a listing, then one delete at a time, first of *)
(* processed TARS files and then of TARS metadata blobs.  Each half has its  *)
(* own error handling.  It works on names it listed, while the TARS          *)
(* dispatcher and the consumer go on writing to both stores.                 *)
EXTENDS Integers, FiniteSets

CONSTANT MaxHousekeepingFailures    \* bound: halves that end in an error

VARIABLES
    files,      \* the TARS file share
    metadata,   \* TARS blobs of the metadata container
    step,
    old,        \* names the loop has still to delete
    errors      \* halves that ended in an error

-----------------------------------------------------------------------------
\* A processed file's name without its prefix and dashes: date, daily number
\* and TarsResultType.
FileName(f) == [day |-> f.of.day, daily |-> f.of.daily, type |-> f.of.type]

Digit == [RESULT |-> 1, NEGATED_RESULT |-> 2]

\* The order of the strings.
NameLess(m, n) ==
    \/ m.day < n.day
    \/ m.day = n.day /\ m.daily < n.daily
    \/ m.day = n.day /\ m.daily = n.daily /\ Digit[m.type] < Digit[n.type]

ProcessedNames == {FileName(f) : f \in {g \in files : g.processed}}

BlobNames == {m.seq : m \in metadata}

\* Mutant of OldFiles: the order leaves the day out.
OldFilesByNumber ==
    {n \in ProcessedNames : \E m \in ProcessedNames : n.daily < m.daily}

\* All processed files but the last.
OldFiles == {n \in ProcessedNames : \E m \in ProcessedNames : NameLess(n, m)}

\* Mutant of OldBlobs: the newest blob goes.
OldBlobsAll == BlobNames

\* All blobs but the last: the numbers have seven digits, so the order of the
\* names is theirs.
OldBlobs == {n \in BlobNames : \E m \in BlobNames : n < m}

-----------------------------------------------------------------------------
HousekeepingInit == step = "idle" /\ old = {} /\ errors = 0

StartHousekeeping ==
    /\ step = "idle"
    /\ step' = "listFiles"
    /\ UNCHANGED <<files, metadata, old, errors>>

ListFiles ==
    /\ step = "listFiles"
    /\ old' = OldFiles
    /\ step' = "deleteFiles"
    /\ UNCHANGED <<files, metadata, errors>>

\* By name: whatever processed file has it by now.
DeleteFile ==
    /\ step = "deleteFiles"
    /\ \E n \in old :
          /\ files' = {f \in files : ~(f.processed /\ FileName(f) = n)}
          /\ old' = old \ {n}
    /\ UNCHANGED <<metadata, step, errors>>

OldFilesDeleted ==
    /\ step = "deleteFiles" /\ old = {}
    /\ step' = "listBlobs"
    /\ UNCHANGED <<files, metadata, old, errors>>

\* The error is kept for the end; the blobs are dealt with all the same.
FilesFail ==
    /\ step \in {"listFiles", "deleteFiles"}
    /\ errors < MaxHousekeepingFailures
    /\ errors' = errors + 1
    /\ step' = "listBlobs" /\ old' = {}
    /\ UNCHANGED <<files, metadata>>

\* Without a TARS blob there is nothing to do, or (with DVA blobs alone) the
\* reduce throws: either way the invocation is over.
ListBlobs ==
    /\ step = "listBlobs"
    /\ old' = OldBlobs
    /\ step' = IF metadata = {} THEN "idle" ELSE "deleteBlobs"
    /\ UNCHANGED <<files, metadata, errors>>

DeleteBlob ==
    /\ step = "deleteBlobs"
    /\ \E n \in old :
          /\ metadata' = {m \in metadata : m.seq # n}
          /\ old' = old \ {n}
    /\ UNCHANGED <<files, step, errors>>

OldBlobsDeleted ==
    /\ step = "deleteBlobs" /\ old = {}
    /\ step' = "idle"
    /\ UNCHANGED <<files, metadata, old, errors>>

\* Mutant of HousekeepingStops: the loop's names outlive the invocation.
HousekeepingStopsButOld ==
    /\ step # "idle" /\ errors < MaxHousekeepingFailures
    /\ errors' = errors + 1
    /\ step' = "idle"
    /\ UNCHANGED <<files, metadata, old>>

\* An error of the second half, or the host was stopped in either.
HousekeepingStops ==
    /\ step # "idle" /\ errors < MaxHousekeepingFailures
    /\ errors' = errors + 1
    /\ step' = "idle" /\ old' = {}
    /\ UNCHANGED <<files, metadata>>

HousekeepingNext ==
    \/ StartHousekeeping \/ ListFiles \/ DeleteFile \/ OldFilesDeleted
    \/ FilesFail \/ ListBlobs \/ DeleteBlob \/ OldBlobsDeleted
    \/ HousekeepingStops
=============================================================================
