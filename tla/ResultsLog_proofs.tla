------------------------- MODULE ResultsLog_proofs -------------------------
(***************************************************************************)
(* What the abstract log guarantees, for every set of results and every    *)
(* first number; with the two refinement theorems it is what the           *)
(* dispatchers guarantee to whoever sees only files and export marks.      *)
(***************************************************************************)
EXTENDS ResultsLog, TLAPS

LogInv == LogTypeOK /\ Delivered /\ Numbered

LEMMA NextNumbersFollow ==
    ASSUME First \in Nat, LogTypeOK, NEW n \in NextNumbers
    PROVE  /\ n \in Nat
           /\ \A d \in log : d.seq < n
           /\ n = First \/ \E d \in log : d.seq = n - 1
<1>1. CASE log = {}
    BY <1>1 DEF NextNumbers
<1>2. CASE log # {}
    <2>1. PICK e \in LastEntries : n = e.seq + 1
        BY <1>2 DEF NextNumbers
    <2>2. e \in log /\ e.seq \in Nat
        BY <2>1 DEF LastEntries, LogTypeOK, Entry
    <2>3. \A d \in log : d.seq \in Nat /\ d.seq <= e.seq
        BY <2>1 DEF LastEntries, IsLast, LogTypeOK, Entry
    <2>4. QED
        BY <2>1, <2>2, <2>3
<1>3. QED
    BY <1>1, <1>2

LEMMA AppendKeeps ==
    ASSUME First \in Nat, LogInv, Append
    PROVE  LogInv'
<1>1. PICK n \in NextNumbers, S \in SUBSET Unmarked :
          log' = log \cup {[seq |-> n, rows |-> S]}
    BY DEF Append
<1>2. mark' = mark
    BY DEF Append
<1> DEFINE new == [seq |-> n, rows |-> S]
<1>3. /\ n \in Nat
      /\ \A d \in log : d.seq < n
      /\ n = First \/ \E d \in log : d.seq = n - 1
    BY NextNumbersFollow DEF LogInv
<1>4. \A d \in log : d.seq \in Nat
    BY DEF LogInv, LogTypeOK, Entry
<1>5. new \in Entry /\ new.seq = n
    BY <1>3 DEF Entry, Unmarked
<1>6. LogTypeOK'
    BY <1>1, <1>2, <1>5 DEF LogInv, LogTypeOK
<1>7. Delivered'
    BY <1>1, <1>2 DEF LogInv, Delivered
<1>8. Numbered'
    <2>1. ASSUME NEW d \in log', NEW e \in log', d.seq = e.seq
          PROVE  d = e
        <3>1. CASE d \in log /\ e \in log
            BY <2>1, <3>1 DEF LogInv, Numbered
        <3>2. CASE d = new \/ e = new
            BY <2>1, <3>2, <1>1, <1>3, <1>4, <1>5
        <3>3. QED
            BY <3>1, <3>2, <1>1
    <2>2. ASSUME NEW e \in log'
          PROVE  e.seq = First \/ \E d \in log' : d.seq = e.seq - 1
        <3>1. CASE e \in log
            BY <3>1, <1>1 DEF LogInv, Numbered
        <3>2. CASE e = new
            BY <3>2, <1>1, <1>3, <1>5
        <3>3. QED
            BY <3>1, <3>2, <1>1
    <2>3. QED
        BY <2>1, <2>2 DEF Numbered
<1>9. QED
    BY <1>6, <1>7, <1>8 DEF LogInv

LEMMA WithdrawKeeps ==
    ASSUME LogInv, Withdraw
    PROVE  LogInv'
<1>1. PICK e \in LastEntries : e.rows \subseteq Unmarked /\ log' = log \ {e}
    BY DEF Withdraw
<1>2. mark' = mark
    BY DEF Withdraw
<1>3. \A d \in log : d.seq \in Nat /\ d.seq <= e.seq
    BY DEF LastEntries, IsLast, LogInv, LogTypeOK, Entry
<1>4. e \in log /\ e.seq \in Nat
    BY <1>3 DEF LastEntries
<1>5. LogTypeOK'
    BY <1>1, <1>2 DEF LogInv, LogTypeOK
<1>6. Delivered'
    <2> SUFFICES ASSUME NEW r \in Results, mark'[r] = "Processed"
                 PROVE  \E d \in log' : r \in d.rows
        BY DEF Delivered
    <2>1. PICK d \in log : r \in d.rows
        BY <1>2 DEF LogInv, Delivered
    <2>2. d # e
        BY <1>1, <1>2, <2>1 DEF Unmarked
    <2>3. QED
        BY <1>1, <2>1, <2>2
<1>7. Numbered'
    <2>1. \A c, d \in log' : c.seq = d.seq => c = d
        BY <1>1 DEF LogInv, Numbered
    <2>2. ASSUME NEW d \in log'
          PROVE  d.seq = First \/ \E c \in log' : c.seq = d.seq - 1
        <3>1. d \in log
            BY <1>1
        <3>2. CASE d.seq = First
            BY <3>2
        <3>3. CASE d.seq # First
            <4>1. PICK c \in log : c.seq = d.seq - 1
                BY <3>1, <3>3 DEF LogInv, Numbered
            <4>2. c # e
                BY <4>1, <3>1, <1>3, <1>4
            <4>3. QED
                BY <4>1, <4>2, <1>1
        <3>4. QED
            BY <3>2, <3>3
    <2>3. QED
        BY <2>1, <2>2 DEF Numbered
<1>8. QED
    BY <1>5, <1>6, <1>7 DEF LogInv

\* The steps that mark records and leave the log alone.
LEMMA MarkingKeeps ==
    ASSUME LogInv, Confirm \/ Reject \/ Reopen
    PROVE  LogInv'
<1>1. log' = log
    BY DEF Confirm, Reject, Reopen
<1>2. PICK S \in SUBSET Results, m \in Marks :
          /\ MarkAll(S, m)
          /\ m = "Processed" => \E e \in log : S \subseteq e.rows
    <2>1. CASE Confirm
        <3>1. PICK e \in LastEntries : \E S \in SUBSET e.rows : MarkAll(S, "Processed")
            BY <2>1 DEF Confirm
        <3>2. PICK S \in SUBSET e.rows : MarkAll(S, "Processed")
            BY <3>1
        <3>3. e \in log /\ e.rows \subseteq Results
            BY <3>1 DEF LastEntries, LogInv, LogTypeOK, Entry
        <3>4. QED
            BY <3>2, <3>3 DEF Marks
    <2>2. CASE Reject
        BY <2>2 DEF Reject, Unmarked, Marks
    <2>3. CASE Reopen
        <3>1. PICK r \in Results : MarkAll({r}, "Unprocessed")
            BY <2>3 DEF Reopen
        <3>2. QED
            BY <3>1 DEF Marks
    <2>4. QED
        BY <2>1, <2>2, <2>3
<1>3. LogTypeOK'
    BY <1>1, <1>2 DEF LogInv, LogTypeOK, MarkAll
<1>4. Delivered'
    <2> SUFFICES ASSUME NEW r \in Results, mark'[r] = "Processed"
                 PROVE  \E e \in log : r \in e.rows
        BY <1>1 DEF Delivered
    <2>1. CASE r \in S
        BY <1>2, <2>1 DEF MarkAll
    <2>2. CASE r \notin S
        BY <1>2, <2>2 DEF MarkAll, LogInv, Delivered
    <2>3. QED
        BY <2>1, <2>2
<1>5. Numbered'
    BY <1>1 DEF LogInv, Numbered
<1>6. QED
    BY <1>3, <1>4, <1>5 DEF LogInv

(***************************************************************************)
(* The log at any time: records marked as sent are in one of its files,    *)
(* and its numbers are unique and have no gap, although files are taken    *)
(* back and records opened again.                                          *)
(***************************************************************************)
THEOREM LogCorrect ==
    ASSUME First \in Nat
    PROVE  Spec => [](LogTypeOK /\ Delivered /\ Numbered)
<1>1. Init => LogInv
    BY DEF Init, LogInv, LogTypeOK, Delivered, Numbered, Marks
<1>2. LogInv /\ [Next]_vars => LogInv'
    <2> SUFFICES ASSUME LogInv, [Next]_vars
                 PROVE  LogInv'
        OBVIOUS
    <2>1. CASE Append
        BY <2>1, AppendKeeps
    <2>2. CASE Withdraw
        BY <2>2, WithdrawKeeps
    <2>3. CASE Confirm \/ Reject \/ Reopen
        BY <2>3, MarkingKeeps
    <2>4. CASE UNCHANGED vars
        BY <2>4 DEF vars, LogInv, LogTypeOK, Delivered, Numbered
    <2>5. QED
        BY <2>1, <2>2, <2>3, <2>4 DEF Next
<1>3. LogInv => LogTypeOK /\ Delivered /\ Numbered
    BY DEF LogInv
<1>4. QED
    BY <1>1, <1>2, <1>3, PTL DEF Spec
=============================================================================
