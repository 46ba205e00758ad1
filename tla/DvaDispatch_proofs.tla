------------------------ MODULE DvaDispatch_proofs ------------------------
(***************************************************************************)
(* Safety of the DVA dispatchers for any set of results, window, batch     *)
(* size, first number and number of failures.  SequenceInv ties the number *)
(* an invocation holds to the blob and to the numbers stored so far,       *)
(* HeldInv says what it knows of the records it holds; both are inductive. *)
(***************************************************************************)
EXTENDS DvaDispatch, NaturalLemmas

\* The steps that work with a number the blob does not have yet.
Numbered == {"validate", "markMalformed", "resolve", "name", "put", "verify",
             "deleteInvalid", "store"}

FirstNumber == IF CreateMetadata THEN DefaultSequence ELSE DefaultSequence + 1

RecordedRange ==
    \A m \in recorded : FirstNumber <= m.seq /\ m.seq <= metadata

\* The blob holds the last number stored, or the one to go on from.
BlobIsLast ==
    IF recorded = {} THEN \/ metadata = NoBlob
                          \/ ~CreateMetadata /\ metadata = DefaultSequence
                     ELSE \E m \in recorded : m.seq = metadata

SequenceTaken ==
    pc \in Numbered => /\ metadata # NoBlob \/ CreateMetadata
                       /\ sequence = NextSequence

Stored == pc = "mark" => /\ Target \in recorded /\ sequence = metadata
                         /\ left \subseteq results

SequenceInv ==
    /\ RecordedRange
    /\ BlobIsLast
    /\ RecordedInSequence
    /\ SequenceTaken
    /\ Stored

AllUnprocessed(S) == \A r \in S : exported[r] = "Unprocessed"

HeldInv ==
    /\ pc \in {"sequence"} \cup Numbered => AllUnprocessed(results)
    /\ pc = "markMalformed" => AllUnprocessed(left) /\ left \cap results = {}

\* Some number is above those of all files there are.
NumbersBounded ==
    \E k \in Nat : /\ \A f \in files : f.of.name.number <= k
                   /\ \A n \in listed : n <= k

\* An invocation starts with no position in an array.
NothingPending == pc \in {"idle", "fetch"} => pending = {}

\* While no invocation has failed, what is on the server or collected was
\* recorded, was there before, or is being sent.
Sending == {"verify", "deleteInvalid", "store"}

OnceInv ==
    failures = 0 =>
        /\ \A m \in Emitted : \/ m \in recorded
                              \/ m.seq = 0 /\ m.rows = {}
                              \/ m = Target /\ pc \in Sending
        /\ \A m \in recorded : \A r \in m.rows :
              exported[r] # "Unprocessed" \/ (pc = "mark" /\ m = Target /\ r \in left)
        /\ \A m, n \in recorded : m # n => m.rows \cap n.rows = {}

\* A file named by its number; the files whose numbers were stored are kept.
NamedByNumber == \A m \in recorded : m.name.number = m.seq

VerifiedEmitted == pc \in {"store", "mark"} => Target \in Emitted

NameTaken == pc \in {"put", "verify", "deleteInvalid", "store", "mark"} =>
    name.number = sequence

DeliveredInv ==
    /\ NamedByNumber /\ NameTaken /\ VerifiedEmitted /\ ProcessedDelivered

-----------------------------------------------------------------------------
(* The increment number.                                                   *)

\* StringLess orders the numbers as Rank does.
Rank(n) == IF n < 100 THEN 20 * n ELSE 2 * n + 1

LEMMA StringLessRank ==
    ASSUME NEW m \in Nat, NEW n \in Nat
    PROVE  /\ StringLess(m, n) <=> Rank(m) < Rank(n)
           /\ Rank(n) \in Nat /\ Rank(n) <= 20 * n + 1
           /\ Rank(m) = Rank(n) => m = n
<1>1. /\ m \div 10 \in Nat /\ 10 * (m \div 10) <= m /\ m < 10 * (m \div 10) + 10
      /\ n \div 10 \in Nat /\ 10 * (n \div 10) <= n /\ n < 10 * (n \div 10) + 10
    BY SMT
<1> DEFINE dm == m \div 10
           dn == n \div 10
<1>2. StringLess(m, n) <=>
          \/ (m < 100 <=> n < 100) /\ m < n
          \/ m < 100 /\ n >= 100 /\ m <= dn
          \/ m >= 100 /\ n < 100 /\ dm < n
    BY DEF StringLess
<1> HIDE DEF dm, dn
<1>3. /\ dm \in Nat /\ 10 * dm <= m /\ m < 10 * dm + 10
      /\ dn \in Nat /\ 10 * dn <= n /\ n < 10 * dn + 10
    BY <1>1 DEF dm, dn
<1>4. StringLess(m, n) <=> Rank(m) < Rank(n)
  <2>1. CASE m < 100 <=> n < 100
      BY <1>2, <1>3, <2>1 DEF Rank
  <2>2. CASE m < 100 /\ ~(n < 100)
      BY <1>2, <1>3, <2>2 DEF Rank
  <2>3. CASE ~(m < 100) /\ n < 100
      BY <1>2, <1>3, <2>3 DEF Rank
  <2> QED
      BY <2>1, <2>2, <2>3
<1> QED
    BY <1>4 DEF Rank

\* A bounded set of numbers has one the comparator sorts last.
LEMMA HighestExists ==
    ASSUME NEW S \in SUBSET Nat, S # {}, NEW k \in Nat, \A n \in S : n <= k
    PROVE  Highest(S) \in S /\ \A n \in S \ {Highest(S)} : StringLess(n, Highest(S))
<1> DEFINE T == {20 * k + 1 - Rank(n) : n \in S}
<1>1. T \in SUBSET Nat /\ T # {}
  <2>1. \A n \in S : 20 * k + 1 - Rank(n) \in Nat
    <3> SUFFICES ASSUME NEW n \in S PROVE 20 * k + 1 - Rank(n) \in Nat
        OBVIOUS
    <3>1. Rank(n) \in Nat /\ Rank(n) <= 20 * n + 1 /\ n <= k /\ n \in Nat
        BY StringLessRank
    <3> QED
        BY <3>1
  <2> QED
      BY <2>1
<1>2. PICK x \in T : \A y \in T : x <= y
  <2> HIDE DEF T
  <2> QED
      BY <1>1, LeastNatural
<1>3. PICK m \in S : x = 20 * k + 1 - Rank(m)
    OBVIOUS
<1>4. \A n \in S : Rank(n) <= Rank(m)
  <2> SUFFICES ASSUME NEW n \in S PROVE Rank(n) <= Rank(m)
      OBVIOUS
  <2>1. 20 * k + 1 - Rank(m) <= 20 * k + 1 - Rank(n)
      BY <1>2, <1>3
  <2>2. Rank(n) \in Nat /\ Rank(m) \in Nat
      BY StringLessRank
  <2> QED
      BY <2>1, <2>2
<1>5. \A n \in S \ {m} : StringLess(n, m)
    BY <1>4, StringLessRank
<1> QED
    BY <1>5 DEF Highest

\* The next number is no number of the listing below a hundred.
LEMMA NextNumberFresh ==
    ASSUME NEW S \in SUBSET Nat, NEW k \in Nat, \A n \in S : n <= k,
           NEW n \in S, n < 100
    PROVE  IncrementNumber(S) # n
<1>1. Highest(S) \in Nat /\ (n = Highest(S) \/ StringLess(n, Highest(S)))
    BY HighestExists
<1>2. n < Highest(S) + 1 \/ Highest(S) >= 100
    BY <1>1 DEF StringLess
<1> QED
    BY <1>1, <1>2 DEF IncrementNumber

\* Where the numbers stop: 99 sorts after every three-digit number up to 989,
\* so the next file is number 100 again and again.
THEOREM StuckAtHundred ==
    ASSUME NEW S \in SUBSET (1..989), 99 \in S
    PROVE  IncrementNumber(S) = 100
<1> DEFINE h == Highest(S)
           k == 989
<1>1. S \in SUBSET Nat /\ S # {} /\ k \in Nat /\ \A n \in S : n <= k
    OBVIOUS
<1> HIDE DEF k
<1>2. h \in S /\ \A n \in S \ {h} : StringLess(n, h)
    BY <1>1, HighestExists
<1> USE DEF k
<1> HIDE DEF h
<1>3. h = 99 \/ Rank(99) < Rank(h)
    BY <1>1, <1>2, StringLessRank
<1>4. h = 99
    BY <1>1, <1>2, <1>3 DEF Rank
<1> QED
    BY <1>1, <1>4 DEF IncrementNumber, h

-----------------------------------------------------------------------------
(* Types.                                                                  *)

LEMMA TargetType ==
    ASSUME TypeOK
    PROVE  /\ Target \in Content /\ NoName \in Name
           /\ \A ok \in BOOLEAN : [of |-> Target, intact |-> ok] \in File
BY DEF TypeOK, Target, Content, File, NoName, Name

LEMMA WriteFileType ==
    ASSUME TypeOK, NEW ok \in BOOLEAN, WriteFile(ok)
    PROVE  files' \subseteq File
BY TargetType DEF WriteFile, TypeOK

LEMMA EndType ==
    ASSUME TypeOK, End, UNCHANGED <<available, counterpart, metadata, today, recorded>>,
           exported' \in [Results -> Exported], files' \subseteq File,
           UNCHANGED collected, idle' = idle, failures' \in Nat
    PROVE  TypeOK'
BY TargetType DEF TypeOK, End

LEMMA MarkType ==
    ASSUME TypeOK, pc \in DOMAIN Marking, NEW C, Mark(C)
    PROVE  exported' \in [Results -> Exported]
<1>1. pc \in {"mark", "markMalformed"}
    BY DEF Marking
<1>2. Marking[pc] \in Exported
    BY <1>1 DEF Marking, Exported
<1> QED
    BY <1>2 DEF TypeOK, Mark

LEMMA FailType ==
    ASSUME TypeOK, Fail, UNCHANGED <<available, counterpart, metadata, today>>,
           exported' \in [Results -> Exported], files' \subseteq File
    PROVE  TypeOK'
<1>1. failures' \in Nat
    BY DEF Fail, TypeOK
<1> QED
    BY <1>1, EndType DEF Fail

LEMMA NextNumberType ==
    ASSUME TypeOK, NumbersBounded, CreateFileName
    PROVE  name' \in Name
<1>1. PICK k \in Nat : \A n \in listed : n <= k
    BY DEF NumbersBounded
<1>2. listed # {} => Highest(listed) \in listed
    BY <1>1, HighestExists DEF TypeOK
<1>3. IncrementNumber(listed) \in Nat
  <2>1. listed # {} => Highest(listed) \in Nat
      BY <1>2 DEF TypeOK
  <2> QED
      BY <2>1 DEF IncrementNumber
<1>4. today \in Nat /\ sequence \in Nat
    BY ConstantsAssumption DEF TypeOK
<1> QED
    BY <1>3, <1>4 DEF CreateFileName, Name

LEMMA TypeStep ==
    ASSUME TypeOK, NumbersBounded, NothingPending, [Next]_vars
    PROVE  TypeOK'
<1> USE DEF crmVars, storeVars, loopVars, fileVars, runVars, histVars
<1>1. CASE Start
    BY <1>1 DEF Start, TypeOK
<1>2. CASE Fetch
    BY <1>2 DEF Fetch, TypeOK, Unprocessed, NothingPending
<1>3. CASE GetNextSequenceNumber
    BY <1>3, ConstantsAssumption DEF GetNextSequenceNumber, NextSequence, TypeOK
<1>4. CASE MetadataNotFound
    BY <1>4, EndType DEF MetadataNotFound, TypeOK
<1>5. CASE RemoveMalformed
    BY <1>5 DEF RemoveMalformed, TypeOK
<1>6. CASE MalformedMarked \/ ResolveResult
    BY <1>6 DEF MalformedMarked, ResolveResult, TypeOK
<1>7. CASE ResolveUndated
    BY <1>7, EndType DEF ResolveUndated, TypeOK
<1>8. CASE RemoveUnmatched
    BY <1>8 DEF RemoveUnmatched, TypeOK
<1>9. CASE ListFiles
  <2>1. NumbersOn(today) \subseteq Nat
      BY DEF NumbersOn, TypeOK, File, Content, Name
  <2> QED
      BY <1>9, <2>1 DEF ListFiles, TypeOK
<1>10. CASE CreateFileName
    BY <1>10, NextNumberType DEF CreateFileName, TypeOK
<1>11. CASE PutFile
    BY <1>11, WriteFileType DEF PutFile, TypeOK
<1>12. CASE PutFails
    BY <1>12, WriteFileType, FailType DEF PutFails, TypeOK
<1>13. CASE VerifyFile
    BY <1>13 DEF VerifyFile, TypeOK
<1>14. CASE VerifyMissing \/ DeleteInvalid \/ Abort
    BY <1>14, FailType DEF VerifyMissing, DeleteInvalid, Abort, TypeOK
<1>15. CASE UpdateSequenceNumber
    BY <1>15, TargetType DEF UpdateSequenceNumber, TypeOK
<1>16. CASE UpdateChunk
    BY <1>16, MarkType DEF UpdateChunk, TypeOK
<1>17. CASE UpdateChunkFails
    BY <1>17, MarkType, FailType DEF UpdateChunkFails, TypeOK
<1>18. CASE Done
    BY <1>18, EndType DEF Done, TypeOK
<1>19. CASE PublishResult \/ PassCounterpart
    BY <1>19 DEF PublishResult, PassCounterpart, TypeOK
<1>20. CASE ProvideMetadata
    BY <1>20, ConstantsAssumption DEF ProvideMetadata, TypeOK
<1>21. CASE Collect
    BY <1>21 DEF Collect, TypeOK
<1>22. CASE Midnight
    BY <1>22, ConstantsAssumption DEF Midnight, TypeOK
<1>23. CASE UNCHANGED vars
    BY <1>23 DEF vars, TypeOK
<1> QED
    BY <1>1, <1>2, <1>3, <1>4, <1>5, <1>6, <1>7, <1>8, <1>9, <1>10, <1>11, <1>12,
       <1>13, <1>14, <1>15, <1>16, <1>17, <1>18, <1>19, <1>20, <1>21, <1>22, <1>23
    DEF Next, Dispatcher, Environment

LEMMA BoundStep ==
    ASSUME TypeOK, NumbersBounded, [Next]_vars
    PROVE  NumbersBounded'
<1> USE DEF crmVars, storeVars, loopVars, fileVars, runVars, histVars
<1>1. PICK k \in Nat : /\ \A f \in files : f.of.name.number <= k
                       /\ \A n \in listed : n <= k
    BY DEF NumbersBounded
<1>2. CASE files' \subseteq files /\ listed' \subseteq listed
    BY <1>1, <1>2 DEF NumbersBounded
<1>3. CASE ListFiles
  <2>1. \A n \in listed' : n <= k
      BY <1>1, <1>3 DEF ListFiles, NumbersOn
  <2> QED
      BY <1>1, <1>3, <2>1 DEF ListFiles, NumbersBounded
<1>4. CASE PutFile \/ PutFails
  <2> DEFINE j == k + name.number
  <2>1. name.number \in Nat /\ j \in Nat
      BY DEF TypeOK, Name
  <2>2. \A f \in files : f.of.name.number \in Nat
      BY DEF TypeOK, File, Content, Name
  <2>3. \A f \in files' : f \in files \/ f.of.name.number = name.number
      BY <1>4 DEF PutFile, PutFails, WriteFile, Target
  <2>4. \A f \in files' : f.of.name.number <= j
      BY <1>1, <2>1, <2>2, <2>3
  <2>5. listed' \subseteq listed
      BY <1>4 DEF PutFile, PutFails, Fail, End
  <2>6. \A n \in listed' : n <= j
      BY <1>1, <2>1, <2>5 DEF TypeOK
  <2> HIDE DEF j
  <2> QED
      BY <2>1, <2>4, <2>6 DEF NumbersBounded
<1>5. \/ files' \subseteq files /\ listed' \subseteq listed
      \/ ListFiles \/ PutFile \/ PutFails
    BY DEF Next, Dispatcher, Environment, Start, Fetch, GetNextSequenceNumber,
        MetadataNotFound, RemoveMalformed, MalformedMarked, ResolveResult,
        ResolveUndated, RemoveUnmatched, CreateFileName, VerifyFile,
        VerifyMissing, DeleteInvalid, UpdateSequenceNumber, UpdateChunk,
        UpdateChunkFails, Done, Abort, PublishResult, PassCounterpart,
        ProvideMetadata, Collect, Midnight, Fail, End, vars
<1> QED
    BY <1>2, <1>3, <1>4, <1>5

LEMMA PendingStep ==
    ASSUME NothingPending, [Next]_vars
    PROVE  NothingPending'
<1> USE DEF crmVars, storeVars, loopVars, fileVars, runVars, histVars
<1>1. CASE End
    BY <1>1 DEF End, NothingPending
<1>2. CASE pc' \notin {"idle", "fetch"}
    BY <1>2 DEF NothingPending
<1>3. CASE pc' = pc /\ pending' = pending
    BY <1>3 DEF NothingPending
<1>4. CASE Start \/ UpdateChunk \/ ResolveResult \/ RemoveUnmatched
    BY <1>4 DEF Start, UpdateChunk, ResolveResult, RemoveUnmatched, Marking,
        NothingPending
<1> QED
    BY <1>1, <1>2, <1>3, <1>4 DEF Next, Dispatcher, Environment, Fetch,
        GetNextSequenceNumber, MetadataNotFound, RemoveMalformed, MalformedMarked,
        ResolveUndated, ListFiles, CreateFileName, PutFile, PutFails, VerifyFile,
        VerifyMissing, DeleteInvalid, UpdateSequenceNumber, UpdateChunkFails,
        Done, Abort, PublishResult, PassCounterpart, ProvideMetadata, Collect,
        Midnight, Fail, vars

LEMMA InitType == Init => TypeOK /\ NumbersBounded /\ NothingPending
<1> SUFFICES ASSUME Init PROVE TypeOK /\ NumbersBounded /\ NothingPending
    OBVIOUS
<1>1. files \subseteq File /\ \A f \in files : f.of.name.number <= 999
  <2> DEFINE C(n) == [name |-> [day |-> 1, number |-> n], seq |-> 0, rows |-> {}]
  <2>1. \A n \in Present : n \in Nat /\ n <= 999
      BY ConstantsAssumption
  <2>2. \A n \in Present : C(n) \in Content /\ C(n).name.number = n
      BY <2>1 DEF Content, Name
  <2>3. \A f \in files : \E n \in Present : f = [of |-> C(n), intact |-> TRUE]
      BY DEF Init
  <2> HIDE DEF C
  <2> SUFFICES ASSUME NEW f \in files
               PROVE  f \in File /\ f.of.name.number <= 999
      OBVIOUS
  <2>4. PICK n \in Present : f = [of |-> C(n), intact |-> TRUE]
      BY <2>3
  <2>5. f.of = C(n)
      BY <2>4
  <2> QED
      BY <2>1, <2>2, <2>4, <2>5 DEF File
<1>2. NothingPending
    BY DEF Init, NothingPending
<1>3. NumbersBounded
  <2>1. 999 \in Nat /\ listed = {}
      BY DEF Init
  <2> QED
      BY <1>1, <2>1 DEF NumbersBounded
<1>4. exported \in [Results -> Exported] /\ name \in Name
    BY DEF Init, Exported, NoName, Name
<1> QED
    BY <1>1, <1>2, <1>3, <1>4, ConstantsAssumption DEF Init, TypeOK, NoBlob

LEMMA Bounded == Spec => [](TypeOK /\ NumbersBounded /\ NothingPending)
<1>1. TypeOK /\ NumbersBounded /\ NothingPending /\ [Next]_vars =>
         TypeOK' /\ NumbersBounded' /\ NothingPending'
    BY TypeStep, BoundStep, PendingStep
<1> QED
    BY InitType, <1>1, PTL DEF Spec

\* Every variable keeps its type; in particular the search for the last
\* increment number of a listing always finds one.
THEOREM TypeCorrect == Spec => []TypeOK
BY Bounded, PTL

-----------------------------------------------------------------------------
(* Numbers.                                                                *)

\* A step that leaves the numbers alone.
LEMMA NumberKept ==
    ASSUME SequenceInv, UNCHANGED <<recorded, metadata>>, pc' # "mark",
           pc' \in Numbered => pc \in Numbered /\ sequence' = sequence
    PROVE  SequenceInv'
BY DEF SequenceInv, RecordedRange, BlobIsLast, RecordedInSequence, SequenceTaken,
    NextSequence, Stored

\* A new number is the first one, or follows the last one stored.
LEMMA NumberStored ==
    ASSUME TypeOK, SequenceInv, UpdateSequenceNumber
    PROVE  SequenceInv'
<1> USE DEF crmVars, storeVars, loopVars, fileVars, histVars
<1>1. /\ metadata' = sequence /\ recorded' = recorded \cup {Target}
      /\ pc = "store" /\ pc' = "mark" /\ left' = results
      /\ UNCHANGED <<sequence, results, name>>
    BY DEF UpdateSequenceNumber
<1>2. /\ metadata # NoBlob \/ CreateMetadata
      /\ sequence = NextSequence
    BY <1>1 DEF SequenceInv, SequenceTaken, Numbered
<1>3. /\ Target.seq = sequence /\ Target' = Target /\ sequence \in Nat /\ metadata \in Nat
      /\ DefaultSequence \in Nat /\ FirstNumber \in Nat /\ FirstNumber > 0
    BY <1>1, ConstantsAssumption DEF TypeOK, Target, FirstNumber
<1>4. \A m \in recorded : m.seq \in Nat /\ FirstNumber <= m.seq /\ m.seq <= metadata
    BY DEF TypeOK, Content, SequenceInv, RecordedRange
<1>5. CASE recorded = {}
  <2>1. sequence = FirstNumber
      BY <1>2, <1>3, <1>5 DEF SequenceInv, BlobIsLast, NextSequence, FirstNumber, NoBlob
  <2> QED
      BY <1>1, <1>3, <1>5, <2>1 DEF SequenceInv, RecordedRange, BlobIsLast,
          RecordedInSequence, SequenceTaken, Numbered, Stored
<1>6. CASE recorded # {}
  <2>1. sequence = metadata + 1
      BY <1>2, <1>3, <1>4, <1>6 DEF NextSequence, NoBlob
  <2>2. PICK l \in recorded : l.seq = metadata
      BY <1>6 DEF SequenceInv, BlobIsLast
  <2>3. RecordedRange'
      BY <1>1, <1>3, <1>4, <1>6, <2>1 DEF RecordedRange, FirstNumber
  <2>4. \A m, n \in recorded' : m.seq = n.seq => m = n
      BY <1>1, <1>3, <1>4, <2>1 DEF SequenceInv, RecordedInSequence
  <2>5. \A m \in recorded' : m.seq = metadata' \/ \E n \in recorded' : n.seq = m.seq + 1
      BY <1>1, <1>3, <2>1 DEF SequenceInv, RecordedInSequence
  <2>6. BlobIsLast' /\ SequenceTaken' /\ Stored'
      BY <1>1, <1>3 DEF BlobIsLast, SequenceTaken, Numbered, Stored
  <2> QED
      BY <2>3, <2>4, <2>5, <2>6 DEF SequenceInv, RecordedInSequence
<1> QED
    BY <1>5, <1>6

LEMMA SequenceStep ==
    ASSUME TypeOK, SequenceInv, [Next]_vars
    PROVE  SequenceInv'
<1> USE DEF crmVars, storeVars, loopVars, fileVars, runVars, histVars
<1>1. CASE Start \/ Fetch \/ MetadataNotFound \/ ResolveUndated \/ Done
    BY <1>1, NumberKept DEF Start, Fetch, MetadataNotFound, ResolveUndated, Done,
        End, Numbered
<1>2. CASE \/ RemoveMalformed \/ MalformedMarked \/ ResolveResult
           \/ RemoveUnmatched \/ ListFiles \/ CreateFileName \/ PutFile \/ VerifyFile
    BY <1>2, NumberKept DEF RemoveMalformed, MalformedMarked, ResolveResult,
        RemoveUnmatched, ListFiles, CreateFileName, PutFile, VerifyFile, Numbered
<1>3. CASE PutFails \/ VerifyMissing \/ DeleteInvalid \/ UpdateChunkFails \/ Abort
    BY <1>3, NumberKept DEF PutFails, VerifyMissing, DeleteInvalid,
        UpdateChunkFails, Abort, Fail, End, Numbered
<1>4. CASE GetNextSequenceNumber
    BY <1>4 DEF GetNextSequenceNumber, SequenceInv, RecordedRange, BlobIsLast,
        RecordedInSequence, SequenceTaken, NextSequence, Stored
<1>5. CASE UpdateSequenceNumber
    BY <1>5, NumberStored
<1>6. CASE UpdateChunk
  <2>1. CASE pc = "markMalformed"
      BY <1>6, <2>1, NumberKept DEF UpdateChunk
  <2>2. CASE pc = "mark"
      BY <1>6, <2>2 DEF UpdateChunk, SequenceInv, RecordedRange, BlobIsLast,
          RecordedInSequence, SequenceTaken, NextSequence, Stored, Target
  <2> QED
      BY <1>6, <2>1, <2>2 DEF UpdateChunk, Marking
<1>7. CASE ProvideMetadata
  <2>1. recorded = {}
      BY <1>7, ConstantsAssumption DEF ProvideMetadata, SequenceInv, RecordedRange,
          FirstNumber, NoBlob, TypeOK, Content
  <2> QED
      BY <1>7, <2>1 DEF ProvideMetadata, SequenceInv, RecordedRange, BlobIsLast,
          RecordedInSequence, SequenceTaken, Stored
<1>8. CASE \/ PublishResult \/ PassCounterpart \/ Collect \/ Midnight
           \/ UNCHANGED vars
  <2>1. UNCHANGED <<recorded, metadata, pc, sequence, results, left, name>>
      BY <1>8 DEF PublishResult, PassCounterpart, Collect, Midnight, vars
  <2> QED
      BY <2>1 DEF SequenceInv, RecordedRange, BlobIsLast, RecordedInSequence,
          SequenceTaken, NextSequence, Stored, Target
<1> QED
    BY <1>1, <1>2, <1>3, <1>4, <1>5, <1>6, <1>7, <1>8 DEF Next, Dispatcher, Environment

\* The number stored, the numbers of the files sent under it and the number a
\* running invocation holds go together.
THEOREM SequenceSafe == Spec => [](TypeOK /\ SequenceInv)
<1>1. Init => SequenceInv
    BY DEF Init, SequenceInv, RecordedRange, BlobIsLast, RecordedInSequence,
        SequenceTaken, Numbered, Stored
<1>2. TypeOK /\ SequenceInv /\ [Next]_vars => SequenceInv'
    BY SequenceStep
<1> QED
    BY <1>1, <1>2, TypeCorrect, PTL DEF Spec

\* Files whose number was stored are numbered without gap or repetition up to
\* the number in the blob, however often a number was sent before it was stored.
THEOREM StoredInSequence == Spec => []RecordedInSequence
<1>1. SequenceInv => RecordedInSequence
    BY DEF SequenceInv
<1> QED
    BY <1>1, SequenceSafe, PTL

-----------------------------------------------------------------------------
(* The refinement.                                                         *)

LEMMA HeldStep ==
    ASSUME TypeOK, HeldInv, [Next]_vars
    PROVE  HeldInv'
<1> USE DEF crmVars, storeVars, loopVars, fileVars, runVars, histVars
<1>1. CASE UNCHANGED <<exported, pc, results, left>>
    BY <1>1 DEF HeldInv, AllUnprocessed
<1>2. CASE Start \/ Fetch
    BY <1>2 DEF Start, Fetch, Unprocessed, HeldInv, AllUnprocessed, Numbered
<1>3. CASE RemoveMalformed
    BY <1>3 DEF RemoveMalformed, HeldInv, AllUnprocessed, Numbered
<1>4. CASE \/ GetNextSequenceNumber \/ MalformedMarked \/ RemoveUnmatched
           \/ ResolveResult \/ ListFiles \/ CreateFileName \/ PutFile \/ VerifyFile
           \/ UpdateSequenceNumber
  <2>1. /\ exported' = exported /\ results' \subseteq results
        /\ pc \in {"sequence"} \cup Numbered /\ pc' # "markMalformed"
      BY <1>4 DEF GetNextSequenceNumber, MalformedMarked, RemoveUnmatched,
          ResolveResult, ListFiles, CreateFileName, PutFile, VerifyFile,
          UpdateSequenceNumber, Numbered
  <2> QED
      BY <2>1 DEF HeldInv, AllUnprocessed
<1>5. CASE \/ MetadataNotFound \/ ResolveUndated \/ Done \/ PutFails
           \/ VerifyMissing \/ DeleteInvalid \/ UpdateChunkFails \/ Abort
    BY <1>5 DEF MetadataNotFound, ResolveUndated, Done, PutFails, VerifyMissing,
        DeleteInvalid, UpdateChunkFails, Abort, Fail, End, HeldInv, Numbered
<1>6. CASE UpdateChunk
  <2>1. PICK C \in SUBSET left : Mark(C) /\ left' = left \ C
      BY <1>6 DEF UpdateChunk
  <2>2. \A r \in Results \ C : exported'[r] = exported[r]
      BY <2>1 DEF Mark
  <2>3. pc \in {"mark", "markMalformed"} /\ UNCHANGED <<pc, results>>
      BY <1>6 DEF UpdateChunk, Marking
  <2>4. CASE pc = "mark"
      BY <2>3, <2>4 DEF HeldInv, Numbered
  <2>5. CASE pc = "markMalformed"
      BY <2>1, <2>2, <2>3, <2>5 DEF HeldInv, AllUnprocessed, Numbered, TypeOK
  <2> QED
      BY <2>3, <2>4, <2>5
<1>7. CASE \/ PublishResult \/ PassCounterpart \/ ProvideMetadata \/ Collect
           \/ Midnight \/ UNCHANGED vars
    BY <1>1, <1>7 DEF PublishResult, PassCounterpart, ProvideMetadata, Collect,
        Midnight, vars
<1> QED
    BY <1>2, <1>3, <1>4, <1>5, <1>6, <1>7 DEF Next, Dispatcher, Environment

\* An invocation holds only records that nobody but itself marks.
THEOREM HeldRecords == Spec => []HeldInv
<1>1. Init => HeldInv
    BY DEF Init, HeldInv, Numbered
<1>2. TypeOK /\ HeldInv /\ [Next]_vars => HeldInv'
    BY HeldStep
<1> QED
    BY <1>1, <1>2, TypeCorrect, PTL DEF Spec

LEMMA RecordedStep ==
    ASSUME [Next]_vars
    PROVE  recorded' = recorded \/ UpdateSequenceNumber
BY DEF Next, Dispatcher, Environment, Start, Fetch, GetNextSequenceNumber,
    MetadataNotFound, RemoveMalformed, MalformedMarked, ResolveResult,
    ResolveUndated, RemoveUnmatched, ListFiles, CreateFileName, PutFile, PutFails,
    VerifyFile, VerifyMissing, DeleteInvalid, UpdateChunk, UpdateChunkFails, Done,
    Abort, PublishResult, PassCounterpart, ProvideMetadata, Collect, Midnight,
    Fail, vars, histVars

LEMMA ExportedStep ==
    ASSUME [Next]_vars
    PROVE  exported' = exported \/ UpdateChunk \/ UpdateChunkFails
BY DEF Next, Dispatcher, Environment, Start, Fetch, GetNextSequenceNumber,
    MetadataNotFound, RemoveMalformed, MalformedMarked, ResolveResult,
    ResolveUndated, RemoveUnmatched, ListFiles, CreateFileName, PutFile, PutFails,
    VerifyFile, VerifyMissing, DeleteInvalid, UpdateSequenceNumber, Done, Abort,
    PublishResult, PassCounterpart, ProvideMetadata, Collect, Midnight, vars, crmVars

EntryOf(m) == [seq |-> m.seq, rows |-> m.rows]

Entries == {EntryOf(m) : m \in recorded}

\* The file the blob's number belongs to is the last of the log.
LEMMA BlobLast ==
    ASSUME SequenceInv, NEW l \in recorded, l.seq = metadata
    PROVE  EntryOf(l) \in Log!LastEntries
BY DEF SequenceInv, RecordedRange, Log!LastEntries, Log!IsLast, EntryOf

LEMMA StoreAppends ==
    ASSUME TypeOK, SequenceInv, HeldInv, UpdateSequenceNumber
    PROVE  Log!Append
<1>1. /\ pc = "store" /\ exported' = exported /\ recorded' = recorded \cup {Target}
      /\ metadata # NoBlob \/ CreateMetadata
      /\ sequence = NextSequence
    BY DEF UpdateSequenceNumber, crmVars, SequenceInv, SequenceTaken, Numbered
<1>2. Target.seq = sequence /\ Target.rows = results
    BY DEF Target
<1>3. Target.rows \in SUBSET Log!Unmarked
    BY <1>1, <1>2 DEF HeldInv, AllUnprocessed, Numbered, Log!Unmarked, TypeOK
<1>4. Target.seq \in Log!NextNumbers
  <2>1. CASE recorded = {}
      BY <1>1, <1>2, <2>1, ConstantsAssumption
      DEF SequenceInv, BlobIsLast, NextSequence, NoBlob, Log!NextNumbers
  <2>2. CASE recorded # {}
    <3>1. PICK l \in recorded : l.seq = metadata
        BY <2>2 DEF SequenceInv, BlobIsLast
    <3>2. EntryOf(l) \in Log!LastEntries
        BY <3>1, BlobLast
    <3>3. metadata # NoBlob
        BY <3>1, ConstantsAssumption DEF SequenceInv, RecordedRange, FirstNumber, NoBlob
    <3>4. EntryOf(l).seq + 1 = Target.seq
        BY <1>1, <1>2, <3>1, <3>3 DEF EntryOf, NextSequence
    <3> QED
        BY <2>2, <3>2, <3>4 DEF Log!NextNumbers
  <2> QED
      BY <2>1, <2>2
<1>5. {EntryOf(m) : m \in recorded'} = Entries \cup {EntryOf(Target)}
    BY <1>1 DEF Entries
<1> QED
    BY <1>1, <1>3, <1>4, <1>5 DEF Log!Append, EntryOf, Entries

LEMMA MarkConfirmsOrRejects ==
    ASSUME TypeOK, SequenceInv, HeldInv, UpdateChunk \/ UpdateChunkFails
    PROVE  Log!Confirm \/ Log!Reject
<1>1. PICK C \in SUBSET left : Mark(C)
    BY DEF UpdateChunk, UpdateChunkFails
<1>2. pc \in {"mark", "markMalformed"} /\ recorded' = recorded
    BY DEF UpdateChunk, UpdateChunkFails, Marking, Fail, histVars
<1>3. CASE pc = "mark"
  <2>1. Target \in recorded /\ Target.seq = metadata /\ C \subseteq Target.rows
      BY <1>1, <1>3 DEF SequenceInv, Stored, Target
  <2>2. EntryOf(Target) \in Log!LastEntries /\ C \in SUBSET EntryOf(Target).rows
      BY <2>1, BlobLast DEF EntryOf
  <2>3. Log!MarkAll(C, "Processed")
      BY <1>1, <1>3 DEF Mark, Marking, Log!MarkAll
  <2> QED
      BY <1>2, <2>2, <2>3 DEF Log!Confirm
<1>4. CASE pc = "markMalformed"
  <2>1. C \in SUBSET Log!Unmarked
      BY <1>1, <1>4 DEF HeldInv, AllUnprocessed, Log!Unmarked, TypeOK
  <2>2. Log!MarkAll(C, "FailedValidation")
      BY <1>1, <1>4 DEF Mark, Marking, Log!MarkAll
  <2> QED
      BY <1>2, <2>1, <2>2 DEF Log!Reject
<1> QED
    BY <1>2, <1>3, <1>4

LEMMA LogStep ==
    ASSUME TypeOK, SequenceInv, HeldInv, [Next]_vars
    PROVE  [Log!Next]_(Log!vars)
<1>1. CASE recorded' = recorded /\ exported' = exported
    BY <1>1 DEF Log!vars
<1>2. CASE UpdateSequenceNumber
    BY <1>2, StoreAppends DEF Log!Next
<1>3. CASE UpdateChunk \/ UpdateChunkFails
    BY <1>3, MarkConfirmsOrRejects DEF Log!Next
<1> QED
    BY <1>1, <1>2, <1>3, RecordedStep, ExportedStep

\* The DVA dispatchers implement the log: a number is stored once and the next
\* one follows it, whatever fails in between; only records of the last file are
\* marked Processed.  Nothing stored is ever taken back.
THEOREM ImplementsResultsLog == Spec => ImplementsLog
<1>1. Init => Log!Init
    BY DEF Init, Log!Init
<1>2. TypeOK /\ SequenceInv /\ HeldInv /\ [Next]_vars => [Log!Next]_(Log!vars)
    BY LogStep
<1> QED
    BY <1>1, <1>2, SequenceSafe, HeldRecords, PTL DEF Spec, ImplementsLog, Log!Spec

-----------------------------------------------------------------------------
(* Files of instructor results are kept.                                   *)

LEMMA NamedStep ==
    ASSUME TypeOK, SequenceInv, ~Learner, NamedByNumber, NameTaken, [Next]_vars
    PROVE  NamedByNumber' /\ NameTaken'
<1> USE DEF crmVars, storeVars, loopVars, fileVars, runVars, histVars
<1>1. NameTaken'
  <2>1. CASE CreateFileName
      BY <2>1 DEF CreateFileName, NameTaken
  <2>2. CASE UNCHANGED <<name, sequence>> /\
             (pc' \in {"put", "verify", "deleteInvalid", "store", "mark"} =>
              pc \in {"put", "verify", "deleteInvalid", "store", "mark"})
      BY <2>2 DEF NameTaken
  <2>3. CASE pc' \notin {"put", "verify", "deleteInvalid", "store", "mark"}
      BY <2>3 DEF NameTaken
  <2> QED
      BY <2>1, <2>2, <2>3 DEF Next, Dispatcher, Environment, Start, Fetch,
          GetNextSequenceNumber, MetadataNotFound, RemoveMalformed, MalformedMarked,
          ResolveResult, ResolveUndated, RemoveUnmatched, ListFiles, PutFile,
          PutFails, VerifyFile, VerifyMissing, DeleteInvalid, UpdateSequenceNumber,
          UpdateChunk, UpdateChunkFails, Done, Abort, PublishResult,
          PassCounterpart, ProvideMetadata, Collect, Midnight, Fail, End, vars
<1>2. NamedByNumber'
  <2>1. CASE UpdateSequenceNumber
      BY <2>1 DEF UpdateSequenceNumber, NamedByNumber, NameTaken, Target
  <2> QED
      BY <2>1, RecordedStep DEF NamedByNumber
<1> QED
    BY <1>1, <1>2

\* A file whose number was stored is neither replaced nor deleted: what is
\* written or deleted carries the name of a number that is not stored yet.
LEMMA RecordedKept ==
    ASSUME TypeOK, SequenceInv, NamedByNumber, NameTaken, [Next]_vars
    PROVE  recorded \cap Emitted \subseteq Emitted'
<1> USE DEF crmVars, storeVars, loopVars, fileVars, runVars, histVars
<1> SUFFICES ASSUME NEW m \in recorded, m \in Emitted PROVE m \in Emitted'
    OBVIOUS
<1>1. PICK f \in files \cup collected : f.intact /\ f.of = m
    BY DEF Emitted
<1>2. CASE f \in files' \cup collected'
    BY <1>1, <1>2 DEF Emitted
<1>3. CASE PutFile \/ PutFails \/ DeleteInvalid
  <2>1. sequence = NextSequence /\ name.number = sequence
      BY <1>3 DEF PutFile, PutFails, DeleteInvalid, SequenceInv, SequenceTaken,
          Numbered, NameTaken
  <2>2. m.name.number = m.seq /\ FirstNumber <= m.seq /\ m.seq <= metadata /\ m.seq \in Nat
      BY DEF NamedByNumber, SequenceInv, RecordedRange, TypeOK, Content
  <2>3. m.name # name
      BY <2>1, <2>2, ConstantsAssumption DEF NextSequence, NoBlob, FirstNumber, TypeOK
  <2>4. f \notin Named(name)
      BY <1>1, <2>3 DEF Named
  <2>5. files \ Named(name) \subseteq files' /\ collected' = collected
      BY <1>3 DEF PutFile, PutFails, DeleteInvalid, WriteFile, Fail
  <2> QED
      BY <1>1, <1>2, <2>4, <2>5
<1>4. CASE Collect
    BY <1>1, <1>2, <1>4 DEF Collect
<1>5. UNCHANGED <<files, collected>> \/ PutFile \/ PutFails \/ DeleteInvalid \/ Collect
    BY DEF Next, Dispatcher, Environment, Start, Fetch, GetNextSequenceNumber,
        MetadataNotFound, RemoveMalformed, MalformedMarked, ResolveResult,
        ResolveUndated, RemoveUnmatched, ListFiles, CreateFileName, VerifyFile,
        VerifyMissing, UpdateSequenceNumber, UpdateChunk, UpdateChunkFails, Done,
        Abort, PublishResult, PassCounterpart, ProvideMetadata, Midnight, Fail, vars
<1> QED
    BY <1>1, <1>2, <1>3, <1>4, <1>5

LEMMA EmittedKept ==
    ASSUME [Next]_vars
    PROVE  Emitted \subseteq Emitted' \/ PutFile \/ PutFails \/ DeleteInvalid
<1> USE DEF crmVars, storeVars, loopVars, fileVars, runVars, histVars
<1>1. CASE UNCHANGED <<files, collected>>
    BY <1>1 DEF Emitted
<1>2. CASE Collect
  <2>1. files \cup collected \subseteq files' \cup collected'
      BY <1>2 DEF Collect
  <2> QED
      BY <2>1 DEF Emitted
<1> QED
    BY <1>1, <1>2
    DEF Next, Dispatcher, Environment, Start, Fetch, GetNextSequenceNumber,
        MetadataNotFound, RemoveMalformed, MalformedMarked, ResolveResult,
        ResolveUndated, RemoveUnmatched, ListFiles, CreateFileName, VerifyFile,
        VerifyMissing, UpdateSequenceNumber, UpdateChunk, UpdateChunkFails, Done,
        Abort, PublishResult, PassCounterpart, ProvideMetadata, Midnight, Fail, vars

LEMMA VerifiedStep ==
    ASSUME VerifiedEmitted, [Next]_vars
    PROVE  VerifiedEmitted'
<1> USE DEF crmVars, storeVars, loopVars, fileVars, runVars, histVars
<1>1. CASE VerifyFile
  <2>1. pc' = "store" => Target \in Emitted
      BY <1>1 DEF VerifyFile, Named, Emitted
  <2>2. Target' = Target /\ Emitted' = Emitted /\ pc' # "mark"
      BY <1>1 DEF VerifyFile, Target, Emitted
  <2> QED
      BY <2>1, <2>2 DEF VerifiedEmitted
<1>2. CASE UpdateSequenceNumber \/ UpdateChunk
  <2>1. Target' = Target /\ Emitted' = Emitted /\ (pc' = "mark" => pc \in {"store", "mark"})
      BY <1>2 DEF UpdateSequenceNumber, UpdateChunk, Target, Emitted
  <2>2. pc' # "store"
      BY <1>2 DEF UpdateSequenceNumber, UpdateChunk, Marking
  <2> QED
      BY <2>1, <2>2 DEF VerifiedEmitted
<1>3. CASE UNCHANGED runVars
  <2>1. pc \in {"store", "mark"} => Emitted \subseteq Emitted'
      BY EmittedKept, <1>3 DEF PutFile, PutFails, DeleteInvalid, Fail, End
  <2> QED
      BY <1>3, <2>1 DEF VerifiedEmitted, Target
<1>4. CASE pc' \notin {"store", "mark"}
    BY <1>4 DEF VerifiedEmitted
<1> QED
    BY <1>1, <1>2, <1>3, <1>4
    DEF Next, Dispatcher, Environment, Start, Fetch, GetNextSequenceNumber,
        MetadataNotFound, RemoveMalformed, MalformedMarked, ResolveResult,
        ResolveUndated, RemoveUnmatched, ListFiles, CreateFileName, PutFile,
        PutFails, VerifyMissing, DeleteInvalid, UpdateChunkFails, Done, Abort,
        PublishResult, PassCounterpart, ProvideMetadata, Collect, Midnight, Fail,
        End, vars

LEMMA ProcessedStep ==
    ASSUME TypeOK, SequenceInv, DeliveredInv, [Next]_vars
    PROVE  ProcessedDelivered'
<1>1. recorded \cap Emitted \subseteq recorded' \cap Emitted'
    BY RecordedKept, RecordedStep DEF DeliveredInv, UpdateSequenceNumber
<1>2. CASE exported' = exported
    BY <1>1, <1>2 DEF DeliveredInv, ProcessedDelivered
<1>3. CASE UpdateChunk \/ UpdateChunkFails
  <2>1. PICK C \in SUBSET left : Mark(C)
      BY <1>3 DEF UpdateChunk, UpdateChunkFails
  <2>2. CASE pc = "mark"
    <3>1. Target \in recorded \cap Emitted /\ C \subseteq Target.rows
        BY <2>1, <2>2 DEF SequenceInv, Stored, DeliveredInv, VerifiedEmitted, Target
    <3>2. \A r \in Results : exported'[r] = "Processed" =>
             r \in C \/ exported[r] = "Processed"
        BY <2>1 DEF Mark
    <3> QED
        BY <1>1, <3>1, <3>2 DEF DeliveredInv, ProcessedDelivered
  <2>3. CASE pc = "markMalformed"
    <3>1. \A r \in Results : exported'[r] = "Processed" => exported[r] = "Processed"
        BY <2>1, <2>3 DEF Mark, Marking
    <3> QED
        BY <1>1, <3>1 DEF DeliveredInv, ProcessedDelivered
  <2> QED
      BY <1>3, <2>2, <2>3 DEF UpdateChunk, UpdateChunkFails, Marking
<1> QED
    BY <1>2, <1>3, ExportedStep

\* A processed instructor result is in a file whose number was stored and that
\* the DVA has or can still pick up: its file is named by the number, and a file
\* is only overwritten or deleted while its number is not stored.
THEOREM InstructorResultsDelivered ==
    ASSUME ~Learner
    PROVE  Spec => []ProcessedDelivered
<1>1. Init => DeliveredInv
    BY DEF Init, DeliveredInv, NamedByNumber, NameTaken, VerifiedEmitted,
        ProcessedDelivered
<1>2. TypeOK /\ SequenceInv /\ DeliveredInv /\ [Next]_vars => DeliveredInv'
    BY NamedStep, VerifiedStep, ProcessedStep DEF DeliveredInv
<1>3. DeliveredInv => ProcessedDelivered
    BY DEF DeliveredInv
<1> QED
    BY <1>1, <1>2, <1>3, SequenceSafe, PTL DEF Spec

-----------------------------------------------------------------------------
(* Files of learner results are kept, up to name 99 of a day.              *)

\* No file is dated after today.
NoFutureFile ==
    /\ \A f \in files : f.of.name.day <= today
    /\ pc = "put" => name.day <= today

\* Until it is used, a listing has every file of the day on which it will be.
\* (After midnight there are none.)
ListingComplete ==
    pc = "name" => \A f \in files : f.of.name.day = today => f.of.name.number \in listed

\* What is written next is not named like a file to keep.
NameFresh ==
    pc \in {"put", "verify", "deleteInvalid"} =>
        \A f \in files : f.of \in recorded /\ f.of.name.number < 100 => f.of.name # name

NamingInv == NoFutureFile /\ ListingComplete /\ NameFresh

LEMMA NameChosen ==
    ASSUME Learner, TypeOK, NumbersBounded, NamingInv, CreateFileName
    PROVE  NamingInv'
<1> USE DEF crmVars, storeVars, loopVars, fileVars, histVars
<1>1. /\ UNCHANGED <<files, recorded, today>> /\ pc = "name" /\ pc' = "put"
      /\ name' = [day |-> today, number |-> IncrementNumber(listed)]
    BY DEF CreateFileName
<1>2. PICK k \in Nat : \A n \in listed : n <= k
    BY DEF NumbersBounded
<1>3. ASSUME NEW f \in files, f.of.name.number < 100
      PROVE  f.of.name # name'
  <2>1. CASE f.of.name.day = today
    <3>1. f.of.name.number \in listed
        BY <1>1, <2>1 DEF NamingInv, ListingComplete
    <3>2. IncrementNumber(listed) # f.of.name.number
        BY <1>2, <1>3, <3>1, NextNumberFresh DEF TypeOK
    <3> QED
        BY <1>1, <3>2
  <2>2. CASE f.of.name.day # today
      BY <1>1, <2>2
  <2> QED
      BY <2>1, <2>2
<1>4. today \in Nat
    BY ConstantsAssumption DEF TypeOK
<1> QED
    BY <1>1, <1>3, <1>4 DEF NamingInv, NoFutureFile, ListingComplete, NameFresh

LEMMA FileWritten ==
    ASSUME TypeOK, SequenceInv, NamingInv, PutFile \/ PutFails
    PROVE  NamingInv'
<1> USE DEF crmVars, storeVars, loopVars, fileVars, histVars
<1>1. PICK ok \in BOOLEAN : WriteFile(ok)
    BY DEF PutFile, PutFails
<1>2. /\ UNCHANGED <<recorded, today>> /\ pc = "put" /\ pc' \in {"verify", "idle"}
      /\ pc' = "verify" => name' = name
    BY DEF PutFile, PutFails, Fail, End
<1>3. Target \notin recorded
  <2>1. Target.seq = NextSequence
      BY <1>2 DEF SequenceInv, SequenceTaken, Numbered, Target
  <2>2. \A m \in recorded : m.seq # NextSequence
      BY ConstantsAssumption DEF SequenceInv, RecordedRange, TypeOK, Content,
          NextSequence, NoBlob, FirstNumber
  <2> QED
      BY <2>1, <2>2
<1>4. \A f \in files' : f \in files \/ f.of = Target
    BY <1>1 DEF WriteFile
<1>5. Target.name = name
    BY DEF Target
<1> QED
    BY <1>2, <1>3, <1>4, <1>5 DEF NamingInv, NoFutureFile, ListingComplete, NameFresh

LEMMA NamingStep ==
    ASSUME Learner, TypeOK, NumbersBounded, SequenceInv, NamingInv, [Next]_vars
    PROVE  NamingInv'
<1> USE DEF crmVars, storeVars, loopVars, fileVars, runVars, histVars
<1>1. CASE CreateFileName
    BY <1>1, NameChosen
<1>2. CASE PutFile \/ PutFails
    BY <1>2, FileWritten
<1>3. CASE ListFiles
    BY <1>3 DEF ListFiles, NumbersOn, NamingInv, NoFutureFile, ListingComplete, NameFresh
<1>4. CASE Midnight
  <2>1. today' = today + 1 /\ today \in Nat /\ UNCHANGED <<files, pc, name, recorded>>
      BY <1>4, ConstantsAssumption DEF Midnight, TypeOK
  <2>2. \A f \in files : f.of.name.day \in Nat
      BY DEF TypeOK, File, Content, Name
  <2>3. name.day \in Nat
      BY DEF TypeOK, Name
  <2> QED
      BY <2>1, <2>2, <2>3 DEF NamingInv, NoFutureFile, ListingComplete, NameFresh
<1>5. CASE /\ files' \subseteq files /\ UNCHANGED <<today, listed, name>>
           /\ \/ recorded' = recorded /\ (pc' = pc \/ pc = "put" \/ pc = "verify")
              \/ pc' \notin {"put", "verify", "deleteInvalid"}
           /\ pc' = "put" => pc = "put"
           /\ pc' = "name" => pc = "name"
    BY <1>5 DEF NamingInv, NoFutureFile, ListingComplete, NameFresh
<1>6. CASE files' \subseteq files /\ today' = today /\ End
    BY <1>6 DEF End, NamingInv, NoFutureFile, ListingComplete, NameFresh
<1> QED
    BY <1>1, <1>2, <1>3, <1>4, <1>5, <1>6
    DEF Next, Dispatcher, Environment, Start, Fetch, GetNextSequenceNumber,
        MetadataNotFound, RemoveMalformed, MalformedMarked, ResolveResult,
        ResolveUndated, RemoveUnmatched, VerifyFile, VerifyMissing, DeleteInvalid,
        UpdateSequenceNumber, UpdateChunk, UpdateChunkFails, Done, Abort,
        PublishResult, PassCounterpart, ProvideMetadata, Collect, Fail, Marking, vars

\* No step overwrites or deletes a stored file up to name 99.
LEMMA LowNamesKept ==
    ASSUME NamingInv, [Next]_vars, NEW m \in recorded, m \in Emitted, m.name.number < 100
    PROVE  m \in Emitted'
<1> USE DEF crmVars, storeVars, loopVars, fileVars, runVars, histVars
<1>1. PICK f \in files \cup collected : f.intact /\ f.of = m
    BY DEF Emitted
<1>2. CASE PutFile \/ PutFails \/ DeleteInvalid
  <2>1. f \in files => f \notin Named(name)
      BY <1>1, <1>2 DEF PutFile, PutFails, DeleteInvalid, NamingInv, NameFresh, Named
  <2>2. files \ Named(name) \subseteq files' /\ collected' = collected
      BY <1>2 DEF PutFile, PutFails, DeleteInvalid, WriteFile, Fail
  <2> QED
      BY <1>1, <2>1, <2>2 DEF Emitted
<1> QED
    BY <1>2, EmittedKept

LEMMA LowDeliveredStep ==
    ASSUME SequenceInv, NamingInv, VerifiedEmitted, DeliveredBelowHundred, [Next]_vars
    PROVE  DeliveredBelowHundred'
<1> SUFFICES ASSUME NEW r \in Results, exported'[r] = "Processed"
             PROVE  \E m \in recorded' : r \in m.rows /\ (m.name.number < 100 => m \in Emitted')
    BY DEF DeliveredBelowHundred
<1>1. PICK m \in recorded : r \in m.rows /\ (m.name.number < 100 => m \in Emitted)
  <2>1. CASE exported[r] = "Processed"
      BY <2>1 DEF DeliveredBelowHundred
  <2>2. CASE exported[r] # "Processed"
    <3>1. PICK C \in SUBSET left : Mark(C)
        BY <2>2, ExportedStep DEF UpdateChunk, UpdateChunkFails
    <3>2. r \in left /\ pc = "mark"
        BY <2>2, <3>1, ExportedStep DEF Mark, Marking, UpdateChunk, UpdateChunkFails
    <3>3. Target \in recorded /\ Target \in Emitted /\ r \in Target.rows
        BY <3>2 DEF SequenceInv, Stored, VerifiedEmitted, Target
    <3> QED
        BY <3>3
  <2> QED
      BY <2>1, <2>2
<1>2. m \in recorded'
    BY RecordedStep DEF UpdateSequenceNumber
<1> QED
    BY <1>1, <1>2, LowNamesKept

\* A processed result is in a stored file that the DVA has or can still pick up,
\* as long as the file has at most number 99 of its day: for instructors whatever
\* the name, for learners because no number below a hundred is used again while
\* its file is there, for any listing, retry, removal and midnight in between.
THEOREM ResultsDeliveredBelowHundred == Spec => []DeliveredBelowHundred
<1>1. CASE ~Learner
  <2>1. ProcessedDelivered => DeliveredBelowHundred
      BY DEF ProcessedDelivered, DeliveredBelowHundred
  <2> QED
      BY <1>1, <2>1, InstructorResultsDelivered, PTL
<1>2. CASE Learner
  <2>1. Init => NamingInv /\ VerifiedEmitted /\ DeliveredBelowHundred
    <3> SUFFICES ASSUME Init PROVE \A f \in files : f.of.name.day <= today
        BY DEF Init, NamingInv, NoFutureFile, ListingComplete, NameFresh,
            VerifiedEmitted, DeliveredBelowHundred
    <3> QED
        BY DEF Init
  <2>2. TypeOK /\ NumbersBounded /\ SequenceInv /\ [Next]_vars
        /\ NamingInv /\ VerifiedEmitted /\ DeliveredBelowHundred
        => NamingInv' /\ VerifiedEmitted' /\ DeliveredBelowHundred'
      BY <1>2, NamingStep, VerifiedStep, LowDeliveredStep
  <2> QED
      BY <2>1, <2>2, Bounded, SequenceSafe, PTL DEF Spec
<1> QED
    BY <1>1, <1>2

-----------------------------------------------------------------------------
(* The dates of two-part results.                                          *)

\* The loop skips no two-part result, when there is only one.
LinkedSeen ==
    pc \in {"markMalformed", "resolve", "name", "put"} =>
        results \cap Linked \subseteq resolved \cup pending

LoopDone == pc \in {"name", "put"} => pending = {}

LEMMA LinkedStep ==
    ASSUME \A l, k \in Linked : l = k, LinkedSeen, LoopDone, [Next]_vars
    PROVE  LinkedSeen' /\ LoopDone'
<1> USE DEF crmVars, storeVars, loopVars, fileVars, runVars, histVars, LinkedSeen, LoopDone
<1>1. CASE RemoveMalformed
    BY <1>1 DEF RemoveMalformed
<1>2. CASE ResolveResult \/ ListFiles
    BY <1>2 DEF ResolveResult, ListFiles
<1>3. CASE RemoveUnmatched
  <2>1. PICK r \in (pending \cap Linked) \ counterpart :
            /\ results' = results \ {r}
            /\ pending \ Linked \subseteq pending \ {r}
            /\ pending' \subseteq pending /\ pending \cap Linked \subseteq {r}
      BY <1>3 DEF RemoveUnmatched
  <2>2. pc' = "resolve" /\ pc = "resolve" /\ resolved' = resolved
      BY <1>3 DEF RemoveUnmatched
  <2>3. results' \cap Linked \cap pending = {}
      BY <2>1
  <2> QED
      BY <2>1, <2>2, <2>3
<1>4. CASE pc' \notin {"markMalformed", "resolve", "name", "put"}
    BY <1>4
<1>5. CASE UNCHANGED <<results, resolved, pending>> /\
           \/ pc' = pc
           \/ pc = "markMalformed" /\ pc' = "resolve"
           \/ pc = "name" /\ pc' = "put"
    BY <1>5
<1> QED
    BY <1>1, <1>2, <1>3, <1>4, <1>5
    DEF Next, Dispatcher, Environment, Start, Fetch, GetNextSequenceNumber,
        MetadataNotFound, MalformedMarked, ResolveUndated, CreateFileName, PutFile,
        PutFails, VerifyFile, VerifyMissing, DeleteInvalid, UpdateSequenceNumber,
        UpdateChunk, UpdateChunkFails, Done, Abort, PublishResult, PassCounterpart,
        ProvideMetadata, Collect, Midnight, Fail, End, vars

\* A file carries the date of the other part of a two-part result, as long as
\* there is one such result at most: the loop loses a date only by removing
\* another two-part result in front of it.
THEOREM SingleLinkedResolved ==
    ASSUME \A l, k \in Linked : l = k
    PROVE  Spec => []LinkedResultsResolved
<1>1. Init => LinkedSeen /\ LoopDone
    BY DEF Init, LinkedSeen, LoopDone
<1>2. LinkedSeen /\ LoopDone /\ [Next]_vars => LinkedSeen' /\ LoopDone'
    BY LinkedStep
<1>3. LinkedSeen /\ LoopDone => LinkedResultsResolved
    BY DEF LinkedSeen, LoopDone, LinkedResultsResolved
<1> QED
    BY <1>1, <1>2, <1>3, PTL DEF Spec

-----------------------------------------------------------------------------
(* Nothing is sent twice without a failure.                                *)

LEMMA SettledStep ==
    ASSUME [Next]_vars
    PROVE  \A r \in Results : exported[r] # "Unprocessed" => exported'[r] # "Unprocessed"
<1>1. CASE UpdateChunk \/ UpdateChunkFails
    BY <1>1 DEF UpdateChunk, UpdateChunkFails, Mark, Marking
<1> QED
    BY <1>1, ExportedStep

NoFailureStep ==
    \/ Start \/ Fetch \/ GetNextSequenceNumber \/ MetadataNotFound
    \/ RemoveMalformed \/ MalformedMarked
    \/ ResolveResult \/ ResolveUndated \/ RemoveUnmatched
    \/ ListFiles \/ CreateFileName \/ PutFile \/ VerifyFile
    \/ UpdateSequenceNumber \/ UpdateChunk \/ Done
    \/ PublishResult \/ PassCounterpart \/ ProvideMetadata \/ Collect
    \/ Midnight \/ UNCHANGED vars

LEMMA OnceSent ==
    ASSUME OnceInv, failures = 0, [Next]_vars, NoFailureStep
    PROVE  \A m \in Emitted' : \/ m \in recorded'
                               \/ m.seq = 0 /\ m.rows = {}
                               \/ m = Target' /\ pc' \in Sending
<1> USE DEF crmVars, storeVars, loopVars, fileVars, runVars, histVars
<1>1. recorded \subseteq recorded'
    BY RecordedStep DEF UpdateSequenceNumber
<1>2. CASE PutFile
  <2>1. \A m \in Emitted' : m \in Emitted \/ m = Target
      BY <1>2 DEF PutFile, WriteFile, Emitted
  <2>2. Target' = Target /\ pc' \in Sending /\ pc \notin Sending
      BY <1>2 DEF PutFile, Target, Sending
  <2> QED
      BY <1>1, <2>1, <2>2 DEF OnceInv
<1>3. CASE ~PutFile
  <2>1. Emitted' \subseteq Emitted
    <3>1. CASE Collect
        BY <3>1 DEF Collect, Emitted
    <3>2. CASE UNCHANGED <<files, collected>>
        BY <3>2 DEF Emitted
    <3> QED
        BY <1>3, <3>1, <3>2 DEF NoFailureStep, Start, Fetch, GetNextSequenceNumber,
            MetadataNotFound, RemoveMalformed, MalformedMarked, ResolveResult,
            ResolveUndated, RemoveUnmatched, ListFiles, CreateFileName, VerifyFile,
            UpdateSequenceNumber, UpdateChunk, Done, PublishResult,
            PassCounterpart, ProvideMetadata, Midnight, vars
  <2>2. pc \in Sending => \/ Target' = Target /\ pc' \in Sending
                         \/ Target \in recorded'
      BY <1>3 DEF NoFailureStep, Start, Fetch, GetNextSequenceNumber,
          MetadataNotFound, RemoveMalformed, MalformedMarked, ResolveResult,
          ResolveUndated, RemoveUnmatched, ListFiles, CreateFileName, VerifyFile,
          UpdateSequenceNumber, UpdateChunk, Done, PublishResult,
          PassCounterpart, ProvideMetadata, Collect, Midnight, vars, Sending,
          Marking, Target
  <2> QED
      BY <1>1, <2>1, <2>2 DEF OnceInv
<1> QED
    BY <1>2, <1>3

OnceSettled ==
    \A m \in recorded : \A r \in m.rows :
        exported[r] # "Unprocessed" \/ (pc = "mark" /\ m = Target /\ r \in left)

OnceDisjoint == \A m, n \in recorded : m # n => m.rows \cap n.rows = {}

LEMMA OnceMarked ==
    ASSUME TypeOK, HeldInv, OnceSettled, OnceDisjoint, [Next]_vars, NoFailureStep
    PROVE  OnceSettled' /\ OnceDisjoint'
<1> USE DEF crmVars, storeVars, loopVars, fileVars, runVars, histVars
<1>1. \A m \in recorded : m.rows \subseteq Results
    BY DEF TypeOK, Content
<1>2. CASE UpdateSequenceNumber
  <2>1. /\ recorded' = recorded \cup {Target} /\ Target.rows = results
        /\ Target' = Target /\ exported' = exported
        /\ pc = "store" /\ pc' = "mark" /\ left' = results
      BY <1>2 DEF UpdateSequenceNumber, Target
  <2>2. \A m \in recorded : m.rows \cap results = {}
      BY <2>1 DEF OnceSettled, HeldInv, AllUnprocessed, Numbered
  <2> QED
      BY <2>1, <2>2 DEF OnceSettled, OnceDisjoint
<1>3. CASE UpdateChunk
  <2>1. PICK C \in SUBSET left : Mark(C) /\ left' = left \ C
      BY <1>3 DEF UpdateChunk
  <2>2. /\ recorded' = recorded /\ Target' = Target /\ pc' = pc
        /\ pc \in {"mark", "markMalformed"}
      BY <1>3 DEF UpdateChunk, Marking, Target
  <2>3. \A r \in Results \cap C : exported'[r] # "Unprocessed"
      BY <2>1, <2>2 DEF Mark, Marking
  <2> QED
      BY <1>1, <2>1, <2>2, <2>3, SettledStep DEF OnceSettled, OnceDisjoint
<1>4. CASE Done
    BY <1>4 DEF Done, OnceSettled, OnceDisjoint
<1>5. CASE recorded' = recorded /\ exported' = exported /\
           (pc = "mark" => pc' = pc /\ UNCHANGED <<name, sequence, results, left>>)
    BY <1>5 DEF OnceSettled, OnceDisjoint, Target
<1> QED
    BY <1>2, <1>3, <1>4, <1>5 DEF NoFailureStep, Start, Fetch,
        GetNextSequenceNumber, MetadataNotFound, RemoveMalformed, MalformedMarked,
        ResolveResult, ResolveUndated, RemoveUnmatched, ListFiles, CreateFileName,
        PutFile, VerifyFile, PublishResult, PassCounterpart, ProvideMetadata,
        Collect, Midnight, vars

LEMMA OnceStep ==
    ASSUME TypeOK, HeldInv, OnceInv, [Next]_vars
    PROVE  OnceInv'
<1> USE DEF crmVars, storeVars, loopVars, fileVars, runVars, histVars
<1>1. SUFFICES ASSUME failures' = 0 PROVE OnceInv'
    BY DEF OnceInv
<1>2. ~Fail
    BY <1>1 DEF Fail, TypeOK
<1>3. NoFailureStep
    BY <1>2 DEF Next, Dispatcher, Environment, NoFailureStep, PutFails,
        VerifyMissing, DeleteInvalid, UpdateChunkFails, Abort
<1>4. failures = 0
    BY <1>1, <1>3 DEF NoFailureStep, Start, Fetch, GetNextSequenceNumber,
        MetadataNotFound, RemoveMalformed, MalformedMarked, ResolveResult,
        ResolveUndated, RemoveUnmatched, ListFiles, CreateFileName, PutFile,
        VerifyFile, UpdateSequenceNumber, UpdateChunk, Done, PublishResult,
        PassCounterpart, ProvideMetadata, Collect, Midnight, vars
<1>5. OnceSettled /\ OnceDisjoint
    BY <1>4 DEF OnceInv, OnceSettled, OnceDisjoint
<1>6. OnceSettled' /\ OnceDisjoint'
    BY <1>3, <1>5, OnceMarked
<1> QED
    BY <1>3, <1>4, <1>6, OnceSent DEF OnceInv, OnceSettled, OnceDisjoint

LEMMA OnceFollows ==
    ASSUME TypeOK, SequenceInv, HeldInv, OnceInv
    PROVE  OnceWithoutFailure
<1> SUFFICES ASSUME failures = 0 PROVE OnceWithoutFailure
    BY DEF OnceWithoutFailure
<1>1. pc \in Sending =>
         /\ \A m \in recorded : m.rows \cap Target.rows = {}
         /\ \A m \in recorded : m.seq # Target.seq
  <2> SUFFICES ASSUME pc \in Sending, NEW m \in recorded
               PROVE  m.rows \cap Target.rows = {} /\ m.seq # Target.seq
      OBVIOUS
  <2>1. m.rows \cap Target.rows = {}
      BY DEF OnceInv, HeldInv, AllUnprocessed, Target, Sending, Numbered
  <2>2. m.seq \in Nat /\ FirstNumber <= m.seq /\ m.seq <= metadata /\ metadata \in Nat
      BY DEF TypeOK, Content, SequenceInv, RecordedRange
  <2>3. Target.seq = metadata + 1
      BY <2>2, ConstantsAssumption DEF SequenceInv, SequenceTaken, Sending, Numbered,
          NextSequence, Target, FirstNumber, NoBlob
  <2> QED
      BY <2>1, <2>2, <2>3
<1>2. \A m \in Emitted : \/ m \in recorded
                         \/ m.seq = 0 /\ m.rows = {}
                         \/ m = Target /\ pc \in Sending
    BY DEF OnceInv
<1>3. \A m, n \in recorded : m # n => m.rows \cap n.rows = {} /\ m.seq # n.seq
    BY DEF OnceInv, SequenceInv, RecordedInSequence
<1> QED
    BY <1>1, <1>2, <1>3 DEF OnceWithoutFailure

\* While no invocation has failed, no result is in two files and no number on
\* two files, for learners and instructors alike.
THEOREM NothingTwice == Spec => []OnceWithoutFailure
<1>1. Init => OnceInv
  <2> SUFFICES ASSUME Init PROVE \A m \in Emitted : m.seq = 0 /\ m.rows = {}
      BY DEF Init, OnceInv
  <2> QED
      BY DEF Init, Emitted
<1>2. TypeOK /\ HeldInv /\ OnceInv /\ [Next]_vars => OnceInv'
    BY OnceStep
<1>3. TypeOK /\ SequenceInv /\ HeldInv /\ OnceInv => OnceWithoutFailure
    BY OnceFollows
<1> QED
    BY <1>1, <1>2, <1>3, SequenceSafe, HeldRecords, PTL DEF Spec
=============================================================================
