----------------------------- MODULE ResultsLog -----------------------------
(***************************************************************************)
(* What a results dispatcher promises to the body it sends results to and  *)
(* to the CRM, without invocations, storage or failures: a log of numbered *)
(* results files and the export mark of every record.                      *)
(***************************************************************************)
EXTENDS Integers

CONSTANTS
    Results,    \* test history ids
    First       \* number of the first file

VARIABLES
    log,        \* the correct results files: number and rows
    mark        \* exported status of each record

vars == <<log, mark>>

Marks == {"Unprocessed", "Processed", "FailedValidation"}
Entry == [seq : Nat, rows : SUBSET Results]

IsLast(e) == \A d \in log : d.seq <= e.seq
LastEntries == {e \in log : IsLast(e)}

\* Numbers go on from the last file.
NextNumbers == IF log = {} THEN {First} ELSE {e.seq + 1 : e \in LastEntries}

MarkAll(S, m) == mark' = [r \in Results |-> IF r \in S THEN m ELSE mark[r]]

Unmarked == {r \in Results : mark[r] = "Unprocessed"}

Init ==
    /\ log = {}
    /\ mark = [r \in Results |-> "Unprocessed"]

\* A file of records that are not marked yet gets the next number.
Append ==
    /\ \E n \in NextNumbers, S \in SUBSET Unmarked :
          log' = log \cup {[seq |-> n, rows |-> S]}
    /\ UNCHANGED mark

\* The last file is taken back while none of its records is marked.
Withdraw ==
    /\ \E e \in LastEntries :
          e.rows \subseteq Unmarked /\ log' = log \ {e}
    /\ UNCHANGED mark

\* Records of the last file, and no others, are marked as sent.
Confirm ==
    /\ \E e \in LastEntries : \E S \in SUBSET e.rows : MarkAll(S, "Processed")
    /\ UNCHANGED log

\* Records that are not sent are given up.
Reject ==
    /\ \E S \in SUBSET Unmarked : MarkAll(S, "FailedValidation")
    /\ UNCHANGED log

\* The CRM has a changed record sent again.
Reopen ==
    /\ \E r \in Results : MarkAll({r}, "Unprocessed")
    /\ UNCHANGED log

Next == Append \/ Withdraw \/ Confirm \/ Reject \/ Reopen

Spec == Init /\ [][Next]_vars

-----------------------------------------------------------------------------
LogTypeOK == log \subseteq Entry /\ mark \in [Results -> Marks]

\* A record marked Processed is in a file of the log.
Delivered ==
    \A r \in Results : mark[r] = "Processed" => \E e \in log : r \in e.rows

\* No number is given twice and none is left out.
Numbered ==
    /\ \A d, e \in log : d.seq = e.seq => d = e
    /\ \A e \in log : e.seq = First \/ \E d \in log : d.seq = e.seq - 1
=============================================================================
