----------------------------- MODULE TarsSystem -----------------------------
(* The TARS dispatcher and the housekeeping function, each on its own timer, *)
(* at work on the same file share and metadata container.  The next          *)
(* sequence number depends on the latest blob and on the file it names, so   *)
(* what housekeeping deletes decides which numbers are given out.            *)
EXTENDS TarsDispatch

CONSTANT MaxHousekeepingFailures

ASSUME HousekeepingAssumption == MaxHousekeepingFailures \in Nat

VARIABLES step, old, errors

Housekeeping == INSTANCE FileHousekeeping

housekeepingVars == <<step, old, errors>>

systemVars == <<vars, housekeepingVars>>

SystemInit == Init /\ Housekeeping!HousekeepingInit

DispatcherStep == Next /\ UNCHANGED housekeepingVars

HousekeepingStep ==
    /\ Housekeeping!HousekeepingNext
    /\ UNCHANGED <<crmVars, today, runVars, histVars>>

SystemNext == DispatcherStep \/ HousekeepingStep

SystemSpec == SystemInit /\ [][SystemNext]_systemVars

-----------------------------------------------------------------------------
SystemTypeOK ==
    /\ TypeOK
    /\ step \in {"idle", "listFiles", "deleteFiles", "listBlobs", "deleteBlobs"}
    /\ old \subseteq CASE step = "deleteFiles" -> [day : Nat, daily : Nat, type : Types]
                       [] step = "deleteBlobs" -> Nat
                       [] OTHER -> {}
    /\ errors \in 0..MaxHousekeepingFailures

\* TARS picked up correct files alone: none that was still being written, or
\* that the verification would have rejected.
TakenCorrect == \A f \in taken : f.intact

\* The correct file of the latest blob stays in the share, as written or
\* renamed: the next number is one more only if it is found there.
LatestFileKept ==
    \A m \in metadata :
        IsLatest(m) /\ m \in Emitted => \E f \in files : f.intact /\ f.of = m

\* Housekeeping, wherever it stands and however stale its listing is, does not
\* make the dispatcher lose its place, as long as TARS took correct files.
PlaceKept == TakenCorrect => LatestFileKept

\* Nor does it make a number of a correct file be given out again, or files be
\* named out of their order.
NumbersKept == TakenCorrect => SequenceUnique /\ NamesInSequence

\* And with housekeeping at work the files TARS can read and the marks in the
\* CRM are still a numbered log: no delete takes a file of the log away, or
\* makes the dispatcher's next file anything but the log's next entry.
LogKept == [][TakenCorrect' => [Log!Next]_Log!vars]_systemVars
=============================================================================
