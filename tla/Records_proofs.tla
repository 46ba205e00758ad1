--------------------------- MODULE Records_proofs ---------------------------
(***************************************************************************)
(* The stateless parts compute what they should, whatever the inputs are.  *)
(***************************************************************************)
EXTENDS Records, NaturalLemmas, SequenceTheorems

\* Strengthening of the invariants below: an input is one of the inputs given.
InputOK ==
    /\ input.kind = "upload" => input.content \in Contents /\ input.chunkSize \in ChunkSizes
    /\ input.kind = "tars" => input.row \in TarsRows
    /\ input.kind = "learner" => input.row \in LearnerRows
    /\ input.kind = "instructor" => input.row \in InstructorRows
    /\ input.kind = "scores" =>
          /\ input.test \in Tests
          /\ \E n \in Nat : DOMAIN input.answer = 1..n
          /\ \A i \in DOMAIN input.answer :
                input.answer[i].id = "r1" =>
                    input.answer[i] \in Scores!ScoreRows("r1", input.test)
    /\ input.kind = "error" => input.error \in Chains /\ input.maxDeep \in Depths
    /\ input.kind = "sftp" =>
          /\ input.operation \in Errors!SftpOperations
          /\ input.failing \in SUBSET {"open", "operation", "close"}

LEMMA FiniteScoreRows ==
    ASSUME NEW id, NEW test, Scores!IsTest(test)
    PROVE  IsFiniteSet(Scores!ScoreRows(id, test))
<1> DEFINE f == [topic \in DOMAIN test |-> Scores!Row(id, test, topic)]
<1>1. IsFiniteSet(DOMAIN test)
    BY DEF Scores!IsTest, Scores!IsFiniteSet, IsFiniteSet
<1>2. f \in Surjection(DOMAIN test, Scores!ScoreRows(id, test))
    BY Zenon DEF Scores!ScoreRows, Surjection
<1>3. QED
    BY <1>1, <1>2, FS_Surjection

\* An answer is a sequence, and its rows of the result are rows of the test.
LEMMA ScoresAnswered ==
    ASSUME AnswerScores
    PROVE  InputOK'
<1>1. PICK test \in Tests :
        \E rows \in SUBSET (Scores!ScoreRows("r1", test) \union OtherRows) :
            \E answer \in SetToSeqs(rows) :
                input' = [kind |-> "scores", test |-> test, answer |-> answer]
    BY DEF AnswerScores
<1>2. PICK rows \in SUBSET (Scores!ScoreRows("r1", test) \union OtherRows) :
        \E answer \in SetToSeqs(rows) :
            input' = [kind |-> "scores", test |-> test, answer |-> answer]
    BY <1>1
<1>3. PICK answer \in SetToSeqs(rows) :
        input' = [kind |-> "scores", test |-> test, answer |-> answer]
    BY <1>2
<1>4. answer \in [1..Cardinality(rows) -> rows]
    BY DEF SetToSeqs
<1>5. Cardinality(rows) \in Nat
    <2>1. IsFiniteSet(Scores!ScoreRows("r1", test) \union OtherRows)
        BY FiniteScoreRows, ScoresAssumption, FS_Union
    <2> QED
        BY <2>1, FS_Subset, FS_CardinalityType
<1>6. \A i \in DOMAIN answer :
        answer[i].id = "r1" => answer[i] \in Scores!ScoreRows("r1", test)
    BY <1>4, ScoresAssumption
<1>7. DOMAIN answer = 1..Cardinality(rows)
    BY <1>4
<1>8. QED
    BY <1>3, <1>5, <1>6, <1>7 DEF InputOK

LEMMA InputTaken == InputOK /\ [Next]_input => InputOK'
<1> SUFFICES ASSUME InputOK, [Next]_input
             PROVE  InputOK'
    OBVIOUS
<1>1. CASE UNCHANGED input
    BY <1>1 DEF InputOK
<1>2. CASE UploadContent
    BY <1>2 DEF UploadContent, InputOK
<1>3. CASE TakeTarsRow
    BY <1>3 DEF TakeTarsRow, InputOK
<1>4. CASE TakeLearnerRow
    BY <1>4 DEF TakeLearnerRow, InputOK
<1>5. CASE TakeInstructorRow
    BY <1>5 DEF TakeInstructorRow, InputOK
<1>6. CASE AnswerScores
    BY <1>6, ScoresAnswered
<1>7. CASE ThrowError
    BY <1>7 DEF ThrowError, InputOK
<1>8. CASE CallSftp
    BY <1>8 DEF CallSftp, InputOK
<1>9. CASE Return
    BY <1>9 DEF Return, NoInput, InputOK
<1>10. QED
    BY <1>1, <1>2, <1>3, <1>4, <1>5, <1>6, <1>7, <1>8, <1>9 DEF Next, TakeInput

LEMMA InputInv == Spec => []InputOK
<1>1. Init => InputOK
    BY DEF Init, NoInput, InputOK
<1>2. QED
    BY <1>1, InputTaken, PTL DEF Spec

----------------------------------------------------------------------------
\* TARS records.

TitleOrNone == {"Mr", "Ms", "Mx", "Mrs", "Miss", "Dr", Tars!None}

GenderOrNone == {"M", "F", Tars!None}

LEMMA CrmTitle ==
    ASSUME NEW code \in Int
    PROVE  Tars!CrmTitleToTitle(code) \in TitleOrNone
BY DEF Tars!CrmTitleToTitle, Tars!CrmTitleBase, Tars!Titles, TitleOrNone

LEMMA CrmGender ==
    ASSUME NEW code \in Int
    PROVE  Tars!CrmGenderCodeToGender(code) \in GenderOrNone
BY DEF Tars!CrmGenderCodeToGender, GenderOrNone

\* A title is kept; without one, a gender gives one.
LEMMA TitleResolved ==
    ASSUME NEW title \in TitleOrNone, NEW gender \in GenderOrNone
    PROVE  /\ Tars!ResolveTitle(title, gender) # Tars!None
                <=> title # Tars!None \/ gender # Tars!None
           /\ title # Tars!None => Tars!ResolveTitle(title, gender) = title
BY DEF Tars!ResolveTitle, TitleOrNone, GenderOrNone, Tars!None

\* A gender is kept; without one, a long licence tells it by its seventh
\* character, and beside a short one a title with a gender does.
LEMMA GenderResolved ==
    ASSUME NEW title \in TitleOrNone, NEW gender \in GenderOrNone,
           NEW licence \in [length : Nat, seventh : STRING]
    PROVE  /\ gender # Tars!None => Tars!ResolveGender(title, gender, licence) = gender
           /\ gender = Tars!None =>
                (Tars!ResolveGender(title, gender, licence) # Tars!None <=>
                    \/ licence.length = 16 /\ licence.seventh \in {"0", "1", "5", "6"}
                    \/ licence.length = 8 /\ title \in {"Mr", "Mrs", "Miss"})
<1>1. CASE gender # Tars!None
    BY <1>1 DEF Tars!ResolveGender
<1>2. CASE gender = Tars!None
    <2>1. CASE licence.length = 16
        BY <1>2, <2>1 DEF Tars!ResolveGender, Tars!GenderOfLicence, Tars!None
    <2>2. CASE licence.length = 8
        BY <1>2, <2>2 DEF Tars!ResolveGender, Tars!GenderOfTitle, Tars!None
    <2>3. CASE licence.length \notin {8, 16}
        BY <1>2, <2>3 DEF Tars!ResolveGender, Tars!None
    <2>4. QED
        BY <2>1, <2>2, <2>3
<1>3. QED
    BY <1>1, <1>2

\* A row gets a title and a gender exactly if it tells both and not by its licence
\* alone, and what the CRM said is kept (title.ts, gender.ts).
LEMMA RowResolvedIfTold ==
    ASSUME NEW row \in Tars!Row
    PROVE  Tars!ResolvedIfTold(row)
<1> DEFINE record   == Tars!TarsTestResultModel(row)
           resolved == Tars!Resolve(record)
           title    == record.title
           gender   == record.genderCode
           licence  == record.driverNumber
<1>1. /\ title \in TitleOrNone /\ gender \in GenderOrNone
      /\ licence \in [length : Nat, seventh : STRING]
    BY CrmTitle, CrmGender DEF Tars!TarsTestResultModel, Tars!Row
<1>2. /\ resolved.title = Tars!ResolveTitle(title, gender)
      /\ resolved.genderCode = Tars!ResolveGender(resolved.title, gender, licence)
    BY DEF Tars!Resolve, Tars!TarsTestResultModel
<1>3. /\ resolved.title # Tars!None <=> title # Tars!None \/ gender # Tars!None
      /\ title # Tars!None => resolved.title = title
    BY <1>1, <1>2, TitleResolved
<1>4. resolved.title \in TitleOrNone
    BY <1>1, <1>2 DEF Tars!ResolveTitle, TitleOrNone
<1>5. /\ gender # Tars!None => resolved.genderCode = gender
      /\ gender = Tars!None =>
            (resolved.genderCode # Tars!None <=>
                \/ licence.length = 16 /\ licence.seventh \in {"0", "1", "5", "6"}
                \/ licence.length = 8 /\ resolved.title \in {"Mr", "Mrs", "Miss"})
    BY <1>1, <1>2, <1>4, GenderResolved
<1>6. CASE title = Tars!None /\ gender = Tars!None
    <2>1. ~(resolved.title # Tars!None)
        BY <1>3, <1>6
    <2>2. Tars!LicenceAlone(record)
        BY <1>6 DEF Tars!LicenceAlone
    <2>3. QED
        BY <1>3, <1>5, <2>1, <2>2 DEF Tars!ResolvedIfTold
<1>7. CASE title # Tars!None \/ gender # Tars!None
    <2>1. ~Tars!LicenceAlone(record)
        BY <1>7 DEF Tars!LicenceAlone
    <2>2. gender = Tars!None => title # Tars!None /\ resolved.title = title
        BY <1>3, <1>7
    <2>3. resolved.genderCode # Tars!None <=> Tars!TellsGender(record)
        BY <1>5, <2>2 DEF Tars!TellsGender
    <2>4. Tars!Told(record) <=> Tars!TellsGender(record)
        BY DEF Tars!Told, Tars!TellsTitle
    <2>5. resolved.title # Tars!None
        BY <1>3, <1>7
    <2>6. QED
        BY <1>3, <1>5, <2>1, <2>3, <2>4, <2>5 DEF Tars!ResolvedIfTold
<1>8. QED
    BY <1>6, <1>7

\* A TARS record is given up for its title or gender exactly if the row does not
\* tell them or its licence alone does, whatever the codes and the driver number
\* are (tarsResultsDispatcher.ts 52-53, title.ts, gender.ts).
THEOREM TarsAlwaysResolvedIfTold == Spec => []TarsResolvedIfTold
<1>1. InputOK => TarsResolvedIfTold
    BY RowResolvedIfTold, RowsAssumption DEF InputOK, TarsResolvedIfTold
<1>2. QED
    BY <1>1, InputInv, PTL

\* The first digits of a reference that does not begin with a hyphen are its
\* second and following characters once the hyphens are gone.
LEMMA ReferenceDigits ==
    ASSUME NEW ref, Len(ref) \in Nat, DOMAIN ref = 1..Len(ref),
           Tars!IsBookingReference(ref), ref[1] # "-"
    PROVE  LET kept   == {i \in DOMAIN ref : ref[i] # "-"}
               digits == {i \in 2..Len(ref) : ref[i] \in Tars!Digits}
           IN  \A k \in 1..9 : \E i \in digits : /\ i \in kept
                                                /\ Place(digits, i) = k
                                                /\ Place(kept, i) = k + 1
<1> DEFINE kept   == {i \in DOMAIN ref : ref[i] # "-"}
           digits == {i \in 2..Len(ref) : ref[i] \in Tars!Digits}
<1>1. PICK n \in 1..Len(ref) :
        /\ Tars!DigitGroups(SubSeq(ref, 2, n))
        /\ Cardinality({i \in DOMAIN SubSeq(ref, 2, n) :
                SubSeq(ref, 2, n)[i] \in Tars!Digits}) >= 9
    BY DEF Tars!IsBookingReference, Tars!Cardinality, Cardinality
<1> DEFINE groups == SubSeq(ref, 2, n)
           inside == {i \in DOMAIN groups : groups[i] \in Tars!Digits}
           found  == {i \in 2..n : ref[i] \in Tars!Digits}
<1>2. DOMAIN groups = 1..(n - 1) /\ \A i \in 1..(n - 1) : groups[i] = ref[i + 1]
    OBVIOUS
<1>3. \A i \in 2..n : ref[i] \in Tars!Digits \/ ref[i] = "-"
    <2> SUFFICES ASSUME NEW i \in 2..n
                 PROVE  ref[i] \in Tars!Digits \/ ref[i] = "-"
        OBVIOUS
    <2>1. i - 1 \in DOMAIN groups /\ groups[i - 1] = ref[i]
        BY <1>2
    <2> QED
        BY <1>1, <2>1 DEF Tars!DigitGroups
<1>4. "-" \notin Tars!Digits
    BY DEF Tars!Digits
<1>5. kept \in SUBSET Nat /\ digits \in SUBSET Nat /\ found \in SUBSET digits
      /\ found \in SUBSET Nat /\ digits \in SUBSET kept
    BY <1>4
<1>6. IsFiniteSet(kept) /\ IsFiniteSet(digits) /\ IsFiniteSet(found)
    <2>1. IsFiniteSet(1..Len(ref)) /\ kept \in SUBSET (1..Len(ref))
        BY FS_Interval
    <2> QED
        BY <1>5, <2>1, FS_Subset
<1>7. Cardinality(found) \in Nat /\ Cardinality(found) >= 9
    <2> DEFINE f == [i \in inside |-> i + 1]
    <2>1. inside \in SUBSET (1..(n - 1)) /\ \A i \in inside : i + 1 \in found
        BY <1>2
    <2>2. f \in Injection(inside, found)
        <3> HIDE DEF inside, found
        <3>1. \A i, j \in inside : i + 1 = j + 1 => i = j
            BY <2>1
        <3> QED
            BY <2>1, <3>1 DEF Injection, IsInjective
    <2>3. IsFiniteSet(inside) /\ Cardinality(inside) <= Cardinality(found)
        BY <1>6, <2>2, FS_Injection
    <2>4. Cardinality(inside) >= 9
        BY <1>1
    <2> HIDE DEF inside, found
    <2> QED
        BY <1>6, <2>3, <2>4, FS_CardinalityType
<1>8. ASSUME NEW i \in found
      PROVE  Place(digits, i) = Place(found, i) /\ Place(kept, i) = Place(found, i) + 1
    <2>1. i \in 2..n /\ \A j \in found : j \in Nat
        OBVIOUS
    <2> DEFINE before == {j \in found : j <= i}
    <2>2. {j \in digits : j <= i} = before
        OBVIOUS
    <2>3. {j \in kept : j <= i} = before \union {1}
        <3>1. ASSUME NEW j \in kept, j <= i PROVE j \in before \union {1}
            <4>1. j = 1 \/ j \in 2..n
                BY <2>1, <3>1
            <4> QED
                BY <1>3, <3>1, <4>1
        <3>2. ASSUME NEW j \in before PROVE j \in kept /\ j <= i
            BY <1>5
        <3>3. 1 \in kept /\ 1 <= i
            BY <2>1
        <3> QED
            BY <3>1, <3>2, <3>3
    <2>4. 1 \notin before /\ IsFiniteSet(before)
        BY <1>6, FS_Subset
    <2>5. Cardinality(before \union {1}) = Cardinality(before) + 1
        BY <2>4, FS_AddElement
    <2> QED
        BY <2>2, <2>3, <2>5 DEF Place
<1>9. ASSUME NEW k \in 1..9 PROVE \E i \in found : Place(found, i) = k
    <2>1. k \in 1..Cardinality(found)
        BY <1>7
    <2> QED
        BY <1>5, <1>6, <2>1, PlacesTaken
<1>10. QED
    BY <1>5, <1>8, <1>9

\* The session paper id is made of them.
LEMMA SessionPaperId ==
    ASSUME NEW ref, Len(ref) \in Nat, DOMAIN ref = 1..Len(ref),
           Tars!IsBookingReference(ref), ref[1] # "-"
    PROVE  LET id     == Tars!CreateSessionPaperId(ref)
               digits == {i \in 2..Len(ref) : ref[i] \in Tars!Digits}
           IN  /\ Len(id) = 9 /\ DOMAIN id = 1..9
               /\ \A k \in 1..9 : id[k] \in Tars!Digits
               /\ \A k \in 1..9 : \E i \in digits : Place(digits, i) = k /\ id[k] = ref[i]
<1> DEFINE kept   == {i \in DOMAIN ref : ref[i] # "-"}
           digits == {i \in 2..Len(ref) : ref[i] \in Tars!Digits}
           rest   == KeptAt(ref, kept)
           id     == SubSeq(rest, 2, 10)
<1>1. kept \in SUBSET Nat /\ IsFiniteSet(kept)
    <2>1. IsFiniteSet(1..Len(ref)) /\ kept \in SUBSET (1..Len(ref))
        BY FS_Interval
    <2> QED
        BY <2>1, FS_Subset
<1>2. \A k \in 1..9 : \E i \in digits :
        i \in kept /\ Place(digits, i) = k /\ Place(kept, i) = k + 1
    BY ReferenceDigits
<1>3. Tars!CreateSessionPaperId(ref) =
        SubSeq(rest, 2, IF Len(rest) < 10 THEN Len(rest) ELSE 10)
    BY DEF Tars!CreateSessionPaperId, Tars!Filter, Tars!KeptAt, Tars!Place, Tars!Cardinality,
        KeptAt, Place, Cardinality
<1> HIDE DEF kept, digits
<1>4. /\ Len(rest) \in Nat
      /\ \A i \in kept : Place(kept, i) \in 1..Len(rest) /\ rest[Place(kept, i)] = ref[i]
      /\ DOMAIN rest = 1..Len(rest)
    BY <1>1, KeptPlaces
<1> HIDE DEF rest
<1>5. Len(rest) >= 10
    <2>1. 9 \in 1..9
        OBVIOUS
    <2>2. PICK i \in kept : Place(kept, i) = 9 + 1
        BY <1>2, <2>1
    <2> QED
        BY <1>4, <2>2
<1>6. Tars!CreateSessionPaperId(ref) = id
    BY <1>3, <1>4, <1>5
<1>7. Len(id) = 9 /\ DOMAIN id = 1..9 /\ \A k \in 1..9 : id[k] = rest[k + 1]
    BY <1>4, <1>5
<1> HIDE DEF id
<1>8. ASSUME NEW k \in 1..9 PROVE \E i \in digits : Place(digits, i) = k /\ id[k] = ref[i]
    <2>1. PICK i \in digits : i \in kept /\ Place(digits, i) = k /\ Place(kept, i) = k + 1
        BY <1>2
    <2> QED
        BY <1>4, <1>7, <2>1
<1>9. \A i \in digits : ref[i] \in Tars!Digits
    BY DEF digits
<1>10. \A k \in 1..9 : id[k] \in Tars!Digits
    BY <1>8, <1>9
<1>11. QED
    BY <1>6, <1>7, <1>8, <1>10 DEF digits

\* What passes the schema of a TARS record passes that of the file, with the
\* first nine digits of the booking reference as session paper id, for every row
\* whose reference does not begin with a hyphen.
LEMMA SchemasAgreeForRows ==
    ASSUME NEW row \in Tars!Row
    PROVE  Tars!SchemasAgree(row)
<1> DEFINE record == Tars!Resolve(Tars!TarsTestResultModel(row))
           ref    == record.bookingReference
           title  == Tars!CrmTitleToTitle(row.title)
           gender == Tars!CrmGenderCodeToGender(row.gendercode)
           candidate == Tars!Candidate(record)
<1> SUFFICES ASSUME Tars!MatchesRecordSchema(record), ref[1] # "-"
             PROVE  /\ Tars!MatchesFileSchema(candidate)
                    /\ LET digits == {i \in 2..Len(ref) : ref[i] \in Tars!Digits}
                       IN  \A k \in 1..9 : \E i \in digits :
                             /\ Tars!Place(digits, i) = k
                             /\ candidate.SessionPaperID[k] = ref[i]
    BY Zenon DEF Tars!SchemasAgree
<1>1. title \in TitleOrNone /\ gender \in GenderOrNone
    <2>1. row.title \in Int /\ row.gendercode \in Int
        BY DEF Tars!Row
    <2> QED
        BY <2>1, CrmTitle, CrmGender
<1>2. /\ record.title = Tars!ResolveTitle(title, gender)
      /\ record.genderCode =
            Tars!ResolveGender(Tars!ResolveTitle(title, gender), gender, row.licence)
      /\ ref = row.reference
    BY DEF Tars!Resolve, Tars!TarsTestResultModel
<1>3. /\ candidate.Title = record.title /\ candidate.Gender = record.genderCode
      /\ candidate.SessionPaperID = Tars!CreateSessionPaperId(ref)
      /\ candidate.LanguageID \in {"ENG", "WEL"} /\ candidate.TestResult \in {"P", "F"}
    BY DEF Tars!Candidate, Tars!ResolveLanguageId, Tars!ResolveTestResult
<1>4. /\ record.title # Tars!None
      /\ Tars!IsBookingReference(ref)
    BY DEF Tars!MatchesRecordSchema
<1> HIDE DEF record, candidate, title, gender
<1>5. Len(ref) \in Nat /\ DOMAIN ref = 1..Len(ref)
    BY <1>2 DEF Tars!Row
<1>6. \E i \in DOMAIN Tars!Titles : record.title = Tars!Titles[i]
    <2>1. record.title \in {"Mr", "Ms", "Mx", "Mrs", "Miss", "Dr"}
        BY <1>1, <1>2, <1>4 DEF Tars!ResolveTitle, TitleOrNone, GenderOrNone, Tars!None
    <2> QED
        BY <2>1 DEF Tars!Titles
<1>7. record.genderCode \in Tars!Genders \union {Tars!None}
    BY <1>1, <1>2 DEF Tars!ResolveGender, Tars!GenderOfLicence, Tars!GenderOfTitle,
        Tars!Genders, Tars!None, GenderOrNone
<1>8. LET id     == Tars!CreateSessionPaperId(ref)
          digits == {i \in 2..Len(ref) : ref[i] \in Tars!Digits}
      IN  /\ Len(id) = 9 /\ DOMAIN id = 1..9
          /\ \A k \in 1..9 : id[k] \in Tars!Digits
          /\ \A k \in 1..9 : \E i \in digits : Place(digits, i) = k /\ id[k] = ref[i]
    BY <1>4, <1>5, SessionPaperId
<1>9. Tars!MatchesFileSchema(candidate)
    BY <1>3, <1>6, <1>7, <1>8 DEF Tars!MatchesFileSchema
<1>10. \A digits, i : Tars!Place(digits, i) = Place(digits, i)
    BY DEF Tars!Place, Place, Tars!Cardinality, Cardinality
<1>11. QED
    BY <1>3, <1>8, <1>9, <1>10

\* What passes the schema of a TARS record passes that of the file
\* (xmlTestResultsFileGenerator.ts 57-65), whatever the rows are.
THEOREM TarsSchemasAlwaysAgree == Spec => []TarsSchemasAgree
<1>1. InputOK => TarsSchemasAgree
    BY SchemasAgreeForRows, RowsAssumption DEF InputOK, TarsSchemasAgree
<1>2. QED
    BY <1>1, InputInv, PTL

----------------------------------------------------------------------------
\* DVA records.

LEMMA TitleFits ==
    ASSUME NEW title, NEW otherTitle
    PROVE  Dva!TitleLength(Dva!ResolveTitle(title, otherTitle)) \in 2..6
<1>1. Dva!ResolveTitle(title, otherTitle) \in Dva!DvaTitles \union {"other"}
    BY DEF Dva!ResolveTitle
<1>2. \A t \in Dva!DvaTitles \union {"other"} : Dva!TitleLength(t) \in 2..6
    BY DEF Dva!TitleLength, Dva!DvaTitles
<1>3. QED
    BY <1>1, <1>2

LEMMA CleanedLength ==
    ASSUME NEW text \in Dva!Texts
    PROVE  Dva!CleanString(text) \in Nat
BY DEF Dva!Texts, Dva!CleanString

\* The first letter of a name that is there, or nothing of an empty one.
LEMMA InitialFits ==
    ASSUME NEW length \in Nat
    PROVE  Dva!Least(length, 1) \in 0..1
BY DEF Dva!Least

\* What is filled up with zeros to a width fits unless it is longer than that.
LEMMA ZeroFillFits ==
    ASSUME NEW length \in Nat, NEW width \in Nat
    PROVE  Dva!ZeroFill(length, width) \in 0..width <=> length <= width
BY DEF Dva!ZeroFill

\* A whole number has more than three digits from 1000 on, two from 10 on.
LEMMA DigitsCounted ==
    ASSUME NEW n \in Nat
    PROVE  /\ Dva!DigitsOf(n) \in 1..4
           /\ Dva!DigitsOf(n) <= 3 <=> n <= 999
           /\ Dva!DigitsOf(n) <= 2 <=> n <= 99
           /\ Dva!DigitsOf(n) <= 1 <=> n <= 9
BY DEF Dva!DigitsOf

\* The column of a score takes the short ones.
LEMMA ScoreFits ==
    ASSUME NEW n \in Dva!Numbers
    PROVE  Dva!Score(n) \in 0..3 <=> Dva!ShortScore(n)
<1> DEFINE digits == Dva!DigitsOf(n.whole)
           length == Dva!NumberLength(n)
<1>1. n.minus \in 0..1 /\ n.whole \in Nat /\ n.decimals \in Nat
    BY DEF Dva!Numbers
<1>2. /\ digits \in 1..4 /\ (digits <= 3 <=> n.whole <= 999)
      /\ (digits <= 2 <=> n.whole <= 99) /\ (digits <= 1 <=> n.whole <= 9)
    BY <1>1, DigitsCounted
<1>3. length = n.minus + digits + IF n.decimals = 0 THEN 0 ELSE 1 + n.decimals
    BY DEF Dva!NumberLength
<1> HIDE DEF digits, length
<1>4. length \in Nat
    BY <1>1, <1>2, <1>3
<1>5. Dva!Score(n) \in 0..3 <=> length <= 3
    BY <1>4, ZeroFillFits DEF Dva!Score, length
<1>6. length <= 3 <=> Dva!ShortScore(n)
    <2>1. CASE n.decimals = 0
        BY <1>1, <1>2, <1>3, <2>1 DEF Dva!ShortScore
    <2>2. CASE n.decimals = 1
        BY <1>1, <1>2, <1>3, <2>2 DEF Dva!ShortScore
    <2>3. CASE n.decimals > 1
        BY <1>1, <1>2, <1>3, <2>3 DEF Dva!ShortScore
    <2>4. QED
        BY <1>1, <2>1, <2>2, <2>3
<1>7. QED
    BY <1>5, <1>6

\* An address line takes a missing line and one that cleaning leaves short enough.
LEMMA AddressFits ==
    ASSUME NEW line \in Dva!Texts \union {Dva!NoText}
    PROVE  Dva!AddressLine(line) \in 0..30
               <=> (line # Dva!NoText => Dva!CleanString(line) <= 30)
<1>1. CASE line = Dva!NoText
    BY <1>1 DEF Dva!AddressLine
<1>2. CASE line # Dva!NoText
    <2>1. Dva!CleanString(line) \in Nat
        BY <1>2, CleanedLength
    <2>2. QED
        BY <1>2, <2>1 DEF Dva!AddressLine
<1>3. QED
    BY <1>1, <1>2

\* The certificate column of a result that the query returns.
LEMMA CertificateFits ==
    ASSUME NEW row \in Dva!LearnerRow, Dva!Queried(row), Dva!MatchesLearnerSchema(row)
    PROVE  Dva!ResolveCertificateNumber(row.status, row.certificate) \in 0..9
               <=> (row.status = Dva!PASS => row.certificate \in 1..9)
<1>1. row.certificate \in Nat \union {-1} /\ row.status \in {1, 2}
    BY DEF Dva!LearnerRow, Dva!Lengths, Dva!Queried, Dva!Missing, Dva!PASS, Dva!FAIL
<1>2. row.certificate # -1 => row.certificate >= 1
    BY DEF Dva!MatchesLearnerSchema, Dva!Missing
<1>3. QED
    BY <1>1, <1>2 DEF Dva!ResolveCertificateNumber, Dva!PASS, Dva!FAIL

\* Every learner result that is fetched and passes its schema fits its columns,
\* unless cleaning makes its surname too long or it passed without a certificate
\* of one to nine digits (dvaLearnerResultRecord.ts, dvaLearnerTemplate.ts).
LEMMA LearnerFits ==
    ASSUME NEW row \in Dva!LearnerRow
    PROVE  Dva!LearnerRecordsFit(row)
<1> SUFFICES ASSUME Dva!Queried(row), Dva!MatchesLearnerSchema(row)
             PROVE  Dva!FitsColumns(Dva!LearnerRecord(row), Dva!LearnerTemplate) <=>
                        /\ Dva!CleanString(row.lastName) <= 43
                        /\ row.status = Dva!PASS => row.certificate \in 1..9
    BY DEF Dva!LearnerRecordsFit
<1> DEFINE record == Dva!LearnerRecord(row)
<1>1. Dva!FitsColumns(record, Dva!LearnerTemplate) <=>
        /\ record.startChar \in 0..1 /\ record.driverNumber \in 0..16
        /\ record.firstInitial \in 0..1 /\ record.title \in 0..12
        /\ record.surname \in 0..43 /\ record.testCode \in 0..2
        /\ record.testDate \in 0..8 /\ record.certificateNumber \in 0..9
        /\ record.testResult \in 0..1
    BY DEF Dva!FitsColumns, Dva!LearnerTemplate
<1>2. record.startChar = 1 /\ record.testDate = 8 /\ record.testResult = 1
    BY DEF Dva!LearnerRecord
<1>3. record.driverNumber \in 8..16
    BY DEF Dva!LearnerRecord, Dva!MatchesLearnerSchema
<1>4. record.firstInitial \in 0..1
    BY InitialFits DEF Dva!LearnerRecord, Dva!LearnerRow, Dva!Lengths, Dva!MatchesLearnerSchema
<1>5. record.title \in 2..6
    BY TitleFits DEF Dva!LearnerRecord
<1>6. record.surname = Dva!CleanString(row.lastName) /\ record.surname \in Nat
    BY CleanedLength DEF Dva!LearnerRecord, Dva!LearnerRow
<1>7. record.testCode = 2
    BY DEF Dva!LearnerRecord, Dva!Queried, Dva!ProductIdToTestCode
<1>8. record.certificateNumber \in 0..9 <=> (row.status = Dva!PASS => row.certificate \in 1..9)
    BY CertificateFits DEF Dva!LearnerRecord
<1>9. QED
    BY <1>1, <1>2, <1>3, <1>4, <1>5, <1>6, <1>7, <1>8

\* Every instructor result that passes its schema fits its columns, unless
\* cleaning makes its surname, an address line or its post code too long or a score
\* is not a short one (dvaInstructorResultRecord.ts, dvaInstructorTemplate.ts).
LEMMA InstructorFits ==
    ASSUME NEW row \in Dva!InstructorRow
    PROVE  Dva!InstructorRecordsFit(row)
<1> DEFINE record  == Dva!InstructorRecord(row)
           line(i) == row.addressLine[i] # Dva!NoText => Dva!CleanString(row.addressLine[i]) <= 30
           band(i) == Dva!ShortScore(row.bandScore[i])
<1> SUFFICES ASSUME Dva!MatchesInstructorSchema(row)
             PROVE  Dva!FitsColumns(record, Dva!InstructorTemplate) <=>
                        /\ Dva!CleanString(row.lastName) <= 43
                        /\ \A i \in 1..5 : line(i)
                        /\ Dva!CleanString(row.postCode) <= 10
                        /\ \A i \in 1..4 : band(i)
                        /\ Dva!ShortScore(row.overallScore) /\ Dva!ShortScore(row.hptScore)
    BY DEF Dva!InstructorRecordsFit
<1>1. Dva!FitsColumns(record, Dva!InstructorTemplate) <=>
        /\ record.startChar \in 0..1 /\ record.driverNumber \in 0..16
        /\ record.paymentReceiptNumber \in 0..16 /\ record.surname \in 0..43
        /\ record.addressLine1 \in 0..30 /\ record.addressLine2 \in 0..30
        /\ record.addressLine3 \in 0..30 /\ record.addressLine4 \in 0..30
        /\ record.addressLine5 \in 0..30 /\ record.postCode \in 0..10
        /\ record.testDate \in 0..8 /\ record.testResult \in 0..1
        /\ record.bandScore1 \in 0..3 /\ record.bandScore2 \in 0..3
        /\ record.bandScore3 \in 0..3 /\ record.bandScore4 \in 0..3
        /\ record.overallScore \in 0..3 /\ record.hptScore \in 0..3
    BY DEF Dva!FitsColumns, Dva!InstructorTemplate
<1>2. record.startChar = 1 /\ record.testDate = 8 /\ record.testResult = 1
    BY DEF Dva!InstructorRecord
<1>3. record.driverNumber \in 8..16
    BY DEF Dva!InstructorRecord, Dva!MatchesInstructorSchema
<1>4. record.paymentReceiptNumber \in 0..16
    <2>1. row.paymentReferenceNumber \in Nat /\ row.paymentReferenceNumber <= 16
        BY DEF Dva!InstructorRow, Dva!Lengths, Dva!MatchesInstructorSchema
    <2>2. QED
        BY <2>1, ZeroFillFits DEF Dva!InstructorRecord, Dva!PaymentReceiptNumber
<1>5. record.surname = Dva!CleanString(row.lastName) /\ record.surname \in Nat
    BY CleanedLength DEF Dva!InstructorRecord, Dva!InstructorRow
<1>6. /\ record.addressLine1 \in 0..30 <=> line(1)
      /\ record.addressLine2 \in 0..30 <=> line(2)
      /\ record.addressLine3 \in 0..30 <=> line(3)
      /\ record.addressLine4 \in 0..30 <=> line(4)
      /\ record.addressLine5 \in 0..30 <=> line(5)
    <2>1. \A i \in 1..5 : Dva!AddressLine(row.addressLine[i]) \in 0..30 <=> line(i)
        BY AddressFits DEF Dva!InstructorRow
    <2>2. QED
        BY <2>1 DEF Dva!InstructorRecord
<1>7. record.postCode = Dva!CleanString(row.postCode) /\ record.postCode \in Nat
    <2>1. row.postCode \in Dva!Texts
        BY DEF Dva!InstructorRow, Dva!MatchesInstructorSchema
    <2>2. QED
        BY <2>1, CleanedLength DEF Dva!InstructorRecord
<1>8. /\ record.bandScore1 \in 0..3 <=> band(1)
      /\ record.bandScore2 \in 0..3 <=> band(2)
      /\ record.bandScore3 \in 0..3 <=> band(3)
      /\ record.bandScore4 \in 0..3 <=> band(4)
    <2>1. \A i \in 1..4 : Dva!Score(row.bandScore[i]) \in 0..3 <=> band(i)
        BY ScoreFits DEF Dva!InstructorRow
    <2>2. QED
        BY <2>1 DEF Dva!InstructorRecord
<1>9. /\ record.overallScore \in 0..3 <=> Dva!ShortScore(row.overallScore)
      /\ record.hptScore \in 0..3 <=> Dva!ShortScore(row.hptScore)
    <2>1. row.overallScore \in Dva!Numbers /\ row.hptScore \in Dva!Numbers
        BY DEF Dva!InstructorRow, Dva!MatchesInstructorSchema
    <2>2. QED
        BY <2>1, ScoreFits DEF Dva!InstructorRecord
<1> HIDE DEF record, line, band
<1>10. /\ (\A i \in 1..5 : line(i)) <=> line(1) /\ line(2) /\ line(3) /\ line(4) /\ line(5)
       /\ (\A i \in 1..4 : band(i)) <=> band(1) /\ band(2) /\ band(3) /\ band(4)
    OBVIOUS
<1>11. QED
    BY <1>1, <1>2, <1>3, <1>4, <1>5, <1>6, <1>7, <1>8, <1>9, <1>10

\* Which learner records that pass their schema stop every file, for values of
\* any length (dvaLearnerResultRecord.ts, dvaLearnerTemplate.ts).
THEOREM LearnerRecordsAlwaysFit == Spec => []LearnerRecordsFit
<1>1. InputOK => LearnerRecordsFit
    BY LearnerFits, RowsAssumption DEF InputOK, LearnerRecordsFit
<1>2. QED
    BY <1>1, InputInv, PTL

\* Which instructor records that pass their schema stop every file, for values of
\* any length (dvaInstructorResultRecord.ts, dvaInstructorTemplate.ts).
THEOREM InstructorRecordsAlwaysFit == Spec => []InstructorRecordsFit
<1>1. InputOK => InstructorRecordsFit
    BY InstructorFits, RowsAssumption DEF InputOK, InstructorRecordsFit
<1>2. QED
    BY <1>1, InputInv, PTL

----------------------------------------------------------------------------
\* The nearest event.

\* What the search for an event computes from each depth on: the event of the
\* first link that has one, among those up to the limit and before any link that
\* is not the program's own.
ReportingFrom(error, limit, depth) ==
    {i \in (depth + 1)..(limit + 1) \intersect DOMAIN error :
        /\ \A j \in (depth + 1)..i : error[j].class # "Error"
        /\ error[i].event # Errors!None}

EventOfFirst(error, reporting) ==
    IF reporting = {} THEN Errors!None
    ELSE error[CHOOSE i \in reporting : \A j \in reporting : i <= j].event

NearestFrom(error, limit, depth) == EventOfFirst(error, ReportingFrom(error, limit, depth))

\* One unfolding of the search, with event for its recursive calls.
Searched(error, limit, event) ==
    [deepCount \in Nat |->
        IF deepCount > limit \/ deepCount >= Len(error) THEN Errors!None
        ELSE IF error[deepCount + 1].class = "Error" THEN Errors!None
        ELSE IF error[deepCount + 1].event # Errors!None THEN error[deepCount + 1].event
        ELSE event[deepCount + 1]]

LEMMA LeastReporting ==
    ASSUME NEW T \in SUBSET Nat, NEW x \in T, \A y \in T : x <= y
    PROVE  (CHOOSE i \in T : \A j \in T : i <= j) = x
<1>1. \A i \in T : (\A j \in T : i <= j) => i = x
    BY SMT
<1>2. QED
    BY <1>1, Zenon

\* NearestFrom obeys the recursion.
LEMMA NearestUnfolds ==
    ASSUME NEW error, Len(error) \in Nat, DOMAIN error = 1..Len(error),
           NEW limit \in Nat, NEW depth \in Nat
    PROVE  NearestFrom(error, limit, depth) =
               IF depth > limit \/ depth >= Len(error) THEN Errors!None
               ELSE IF error[depth + 1].class = "Error" THEN Errors!None
               ELSE IF error[depth + 1].event # Errors!None THEN error[depth + 1].event
               ELSE NearestFrom(error, limit, depth + 1)
<1> DEFINE here  == ReportingFrom(error, limit, depth)
           after == ReportingFrom(error, limit, depth + 1)
<1>1. here \in SUBSET Nat /\ DOMAIN error = 1..Len(error) /\ Len(error) \in Nat
    BY DEF ReportingFrom
<1>2. CASE depth > limit \/ depth >= Len(error)
    <2>1. here = {}
        BY <1>1, <1>2 DEF ReportingFrom
    <2> QED
        BY <1>2, <2>1 DEF NearestFrom, EventOfFirst
<1>3. CASE ~(depth > limit \/ depth >= Len(error)) /\ error[depth + 1].class = "Error"
    <2>1. here = {}
        BY <1>1, <1>3 DEF ReportingFrom
    <2> QED
        BY <1>3, <2>1 DEF NearestFrom, EventOfFirst
<1>4. CASE /\ ~(depth > limit \/ depth >= Len(error))
           /\ error[depth + 1].class # "Error" /\ error[depth + 1].event # Errors!None
    <2>1. depth + 1 \in here /\ \A i \in here : depth + 1 <= i
        BY <1>1, <1>4 DEF ReportingFrom
    <2>2. (CHOOSE i \in here : \A j \in here : i <= j) = depth + 1
        BY <1>1, <2>1, LeastReporting
    <2> QED
        BY <1>4, <2>1, <2>2 DEF NearestFrom, EventOfFirst
<1>5. CASE /\ ~(depth > limit \/ depth >= Len(error))
           /\ error[depth + 1].class # "Error" /\ error[depth + 1].event = Errors!None
    <2>1. \A i : i \in here <=> i \in after
        <3>1. \A i \in here : i \in after
            BY <1>1, <1>5 DEF ReportingFrom
        <3>2. \A i \in after : i \in here
            BY <1>1, <1>5 DEF ReportingFrom
        <3> QED
            BY <3>1, <3>2
    <2>2. here = after
        BY <2>1
    <2>3. NearestFrom(error, limit, depth) = NearestFrom(error, limit, depth + 1)
        BY <2>2 DEF NearestFrom
    <2> QED
        BY <1>5, <2>3
<1>6. QED
    BY <1>2, <1>3, <1>4, <1>5

\* Nothing else obeys it.
LEMMA SearchUnique ==
    ASSUME NEW error, Len(error) \in Nat, DOMAIN error = 1..Len(error),
           NEW limit \in Nat, NEW event, event = Searched(error, limit, event)
    PROVE  event[0] = NearestFrom(error, limit, 0)
<1> DEFINE T == {n \in Nat : \A depth \in Nat :
                    depth + n >= Len(error) => event[depth] = NearestFrom(error, limit, depth)}
<1>1. Len(error) \in Nat
    OBVIOUS
<1>2. \A depth \in Nat : event[depth] =
               IF depth > limit \/ depth >= Len(error) THEN Errors!None
               ELSE IF error[depth + 1].class = "Error" THEN Errors!None
               ELSE IF error[depth + 1].event # Errors!None THEN error[depth + 1].event
               ELSE event[depth + 1]
    BY Zenon DEF Searched
<1>3. 0 \in T
    BY <1>1, <1>2, NearestUnfolds
<1>4. ASSUME NEW n \in Nat, n \in T PROVE n + 1 \in T
    <2> SUFFICES ASSUME NEW depth \in Nat, depth + (n + 1) >= Len(error)
                 PROVE  event[depth] = NearestFrom(error, limit, depth)
        OBVIOUS
    <2>1. event[depth + 1] = NearestFrom(error, limit, depth + 1)
        BY <1>1, <1>4
    <2> QED
        BY <1>2, <2>1, NearestUnfolds
<1> HIDE DEF T
<1>5. Len(error) \in T
    BY <1>1, <1>3, <1>4, AllNaturals
<1>6. QED
    BY <1>1, <1>5 DEF T

\* GetErrorEvent finds the event of the nearest reporting link.
LEMMA EventFound ==
    ASSUME NEW error, Len(error) \in Nat, DOMAIN error = 1..Len(error),
           NEW limit \in Nat
    PROVE  Errors!GetErrorEvent(error, limit) = NearestFrom(error, limit, 0)
<1> DEFINE nearest == [depth \in Nat |-> NearestFrom(error, limit, depth)]
           event   == CHOOSE f : f = Searched(error, limit, f)
<1>1. nearest = Searched(error, limit, nearest)
    <2>1. \A depth \in Nat : nearest[depth] = Searched(error, limit, nearest)[depth]
        BY NearestUnfolds DEF Searched
    <2> QED
        BY <2>1 DEF Searched
<1>2. event = Searched(error, limit, event)
    BY <1>1, Zenon
<1>3. Errors!GetErrorEvent(error, limit) = event[0]
    BY Zenon DEF Errors!GetErrorEvent, Searched
<1> HIDE DEF event
<1>4. QED
    BY <1>2, <1>3, SearchUnique

LEMMA NearestEvent ==
    ASSUME NEW error \in Seq(Errors!Links), error # <<>>, NEW maxDeep \in Nat
    PROVE  Errors!NearestEventReported(error, maxDeep)
<1> DEFINE limit     == IF error[1].class = "CrmError" THEN Errors!ERROR_EVENT_MAX_DEEP
                        ELSE Errors!MaxDeep(maxDeep)
           reachable == {i \in 1..(limit + 1) \intersect DOMAIN error :
                            \A j \in 1..i : error[j].class # "Error"}
           reporting == {i \in reachable : error[i].event # Errors!None}
<1>1. limit \in Nat /\ Len(error) \in Nat /\ DOMAIN error = 1..Len(error)
    BY DEF Errors!ERROR_EVENT_MAX_DEEP, Errors!MaxDeep
<1>2. reporting = ReportingFrom(error, limit, 0)
    BY DEF ReportingFrom
<1>3. Errors!GetErrorEvent(error, limit) =
        IF reporting = {} THEN Errors!None
        ELSE error[CHOOSE i \in reporting : \A j \in reporting : i <= j].event
    BY <1>1, <1>2, EventFound DEF NearestFrom, EventOfFirst
<1>4. QED
    BY <1>3 DEF Errors!NearestEventReported, Errors!HandleError

\* The nearest event in a chain of causes is logged, for chains of any length and
\* any limit (handleError.ts).
THEOREM NearestEventAlwaysReported == Spec => []NearestEventReported
<1>1. InputOK => NearestEventReported
    BY NearestEvent, ErrorsAssumption DEF InputOK, NearestEventReported
<1>2. QED
    BY <1>1, InputInv, PTL

----------------------------------------------------------------------------
\* SFTP calls.

LEMMA TwoLinks ==
    ASSUME NEW a, NEW b, NEW error, error = <<a>> \o <<b>>
    PROVE  /\ error # <<>> /\ Len(error) = 2 /\ DOMAIN error = 1..2
           /\ error[1] = a /\ error[2] = b
<1>1. <<a>> \in Seq({a, b}) /\ <<b>> \in Seq({a, b})
    OBVIOUS
<1>2. Len(<<a>>) = 1 /\ Len(<<b>>) = 1
    OBVIOUS
<1>3. QED
    BY <1>1, <1>2

\* The event of an error of two links, when the first is the program's own and
\* the second what the SFTP library throws.
LEMMA WrappedEvent ==
    ASSUME NEW event
    PROVE  Errors!HandleError(<<Errors!Link("CustomError", event, 0)>> \o Errors!Raised, 0) = event
<1> DEFINE first  == Errors!Link("CustomError", event, 0)
           second == Errors!Link("Error", Errors!None, 0)
           error  == <<first>> \o Errors!Raised
<1>1. /\ first.class = "CustomError" /\ first.event = event
      /\ second.class = "Error" /\ second.event = Errors!None
    BY DEF Errors!Link
<1>2. error = <<first>> \o <<second>>
    BY DEF Errors!Raised
<1> HIDE DEF first, second
<1>3. /\ error # <<>> /\ Len(error) = 2 /\ DOMAIN error = 1..2
      /\ error[1] = first /\ error[2] = second
    BY <1>2, TwoLinks
<1> HIDE DEF error
<1>4. /\ NearestFrom(error, 50, 1) = Errors!None
      /\ NearestFrom(error, 50, 0) = IF event # Errors!None THEN event
                                     ELSE NearestFrom(error, 50, 1)
    BY <1>1, <1>3, NearestUnfolds
<1>5. Errors!GetErrorEvent(error, 50) = event
    BY <1>3, <1>4, EventFound
<1>6. Errors!HandleError(error, 0) = event
    BY <1>1, <1>3, <1>5 DEF Errors!HandleError, Errors!MaxDeep, Errors!ERROR_EVENT_MAX_DEEP
<1>7. QED
    BY <1>6 DEF error, first

\* A failed SFTP call is reported, unless closing fails (baseSftpClient.ts).
THEOREM SftpFailureAlwaysReported == Spec => []SftpFailureReported
<1>1. ASSUME NEW operation \in Errors!SftpOperations,
             NEW failing \in SUBSET {"open", "operation", "close"}
      PROVE  Errors!SftpFailureReported(operation, failing)
    <2>1. CASE "open" \in failing
        <3>1. Errors!SftpCall(operation, failing) = Errors!OpenConnectionError
            BY <2>1 DEF Errors!SftpCall
        <3>2. Errors!HandleError(Errors!OpenConnectionError, 0) = "AUTH_ERROR"
            BY WrappedEvent, Zenon DEF Errors!OpenConnectionError
        <3> QED
            BY <2>1, <3>1, <3>2 DEF Errors!SftpFailureReported
    <2>2. CASE "open" \notin failing /\ "close" \in failing
        <3>1. Errors!SftpCall(operation, failing) = Errors!CloseConnectionError
            BY <2>2 DEF Errors!SftpCall
        <3>2. Errors!HandleError(Errors!CloseConnectionError, 0) = Errors!None
            BY WrappedEvent, Zenon DEF Errors!CloseConnectionError, Errors!None
        <3> QED
            BY <2>2, <3>1, <3>2 DEF Errors!SftpFailureReported
    <2>3. CASE failing = {"operation"}
        <3>1. Errors!SftpCall(operation, failing) = Errors!OperationError(operation)
            BY <2>3 DEF Errors!SftpCall
        <3>2. Errors!HandleError(Errors!OperationError(operation), 0)
                = Errors!OperationEvent(operation)
            BY WrappedEvent, Zenon DEF Errors!OperationError
        <3> QED
            BY <2>3, <3>1, <3>2 DEF Errors!SftpFailureReported
    <2>4. CASE failing = {}
        BY <2>4 DEF Errors!SftpFailureReported, Errors!SftpCall
    <2> QED
        BY <2>1, <2>2, <2>3, <2>4
<1>2. InputOK => SftpFailureReported
    BY <1>1 DEF InputOK, SftpFailureReported
<1>3. QED
    BY <1>2, InputInv, PTL

----------------------------------------------------------------------------
\* Sums over finite sets.

SumBase(f) == 0

Some(s) == CHOOSE x \in s : TRUE

SumStep(f, s, rest) == f[Some(s)] + rest

Sums == INSTANCE FiniteRecursion WITH Base <- SumBase, Choice <- Some, Step <- SumStep

Sum(f, S) == Scores!SumFunctionOnSet(f, S)

LEMMA SumUnfolds ==
    ASSUME NEW f, NEW S, IsFiniteSet(S)
    PROVE  Sum(f, S) = IF S = {} THEN 0 ELSE f[Some(S)] + Sum(f, S \ {Some(S)})
<1>1. \A T : Sum(f, T) = Sums!Folded(f, T)
    BY Zenon DEF Sum, Scores!SumFunctionOnSet, Scores!FoldFunctionOnSet, Scores!MapThenFoldSet,
        Sums!Folded, Sums!Recursion, Sums!Unfolded, SumBase, Some, SumStep
<1>2. Sums!Chooses(S)
    BY Zenon DEF Sums!Chooses, Some
<1>3. Sums!Folded(f, S) = IF S = {} THEN SumBase(f)
                          ELSE SumStep(f, S, Sums!Folded(f, S \ {Some(S)}))
    BY <1>2, Sums!FoldedUnfolds DEF Sums!IsFiniteSet, IsFiniteSet
<1>4. SumStep(f, S, Sums!Folded(f, S \ {Some(S)})) = f[Some(S)] + Sums!Folded(f, S \ {Some(S)})
    BY Zenon DEF SumStep
<1>5. QED
    BY <1>1, <1>3, <1>4, Zenon DEF SumBase

\* A sum of naturals is one, and any element may be taken out of it first.
LEMMA SumRemoves ==
    ASSUME NEW f, NEW S, IsFiniteSet(S), \A x \in S : f[x] \in Nat
    PROVE  /\ Sum(f, S) \in Nat
           /\ \A x \in S : Sum(f, S) = f[x] + Sum(f, S \ {x})
<1> DEFINE T == {n \in Nat : \A U \in SUBSET S : Cardinality(U) <= n =>
                    /\ Sum(f, U) \in Nat
                    /\ \A x \in U : Sum(f, U) = f[x] + Sum(f, U \ {x})}
<1>1. 0 \in T
    <2> SUFFICES ASSUME NEW U \in SUBSET S, Cardinality(U) <= 0
                 PROVE  /\ Sum(f, U) \in Nat
                        /\ \A x \in U : Sum(f, U) = f[x] + Sum(f, U \ {x})
        OBVIOUS
    <2>1. IsFiniteSet(U) /\ Cardinality(U) \in Nat
        BY FS_Subset, FS_CardinalityType
    <2>2. U = {}
        <3>1. Cardinality(U) = 0
            BY <2>1
        <3> QED
            BY <2>1, <3>1, FS_EmptySet
    <2>3. Sum(f, U) = 0
        BY <2>1, <2>2, SumUnfolds, Zenon
    <2> QED
        BY <2>2, <2>3
<1>2. ASSUME NEW n \in Nat, n \in T PROVE n + 1 \in T
    <2> SUFFICES ASSUME NEW U \in SUBSET S, Cardinality(U) <= n + 1, U # {}
                 PROVE  /\ Sum(f, U) \in Nat
                        /\ \A x \in U : Sum(f, U) = f[x] + Sum(f, U \ {x})
        <3>1. Sum(f, {}) = 0
            BY FS_EmptySet, SumUnfolds, Zenon
        <3> QED
            BY <3>1
    <2> DEFINE c == Some(U)
    <2>1. IsFiniteSet(U) /\ Cardinality(U) \in Nat
        BY FS_Subset, FS_CardinalityType
    <2>2. c \in U
        BY <2>1 DEF Some
    <2>3. Sum(f, U) = f[c] + Sum(f, U \ {c})
        BY <2>1, SumUnfolds, Zenon
    <2>4. ASSUME NEW x \in U
          PROVE  U \ {x} \in SUBSET S /\ IsFiniteSet(U \ {x}) /\ Cardinality(U \ {x}) <= n
        <3>1. IsFiniteSet(U \ {x}) /\ Cardinality(U \ {x}) = Cardinality(U) - 1
            BY <2>1, FS_RemoveElement
        <3> QED
            BY <2>1, <3>1
    <2> HIDE DEF c
    <2>5. \A x \in U : /\ Sum(f, U \ {x}) \in Nat
                       /\ \A y \in U \ {x} :
                            Sum(f, U \ {x}) = f[y] + Sum(f, (U \ {x}) \ {y})
        BY <1>2, <2>4
    <2>6. ASSUME NEW x \in U, x # c PROVE Sum(f, U) = f[x] + Sum(f, U \ {x})
        <3>1. (U \ {x}) \ {c} = (U \ {c}) \ {x}
            OBVIOUS
        <3> DEFINE rest == Sum(f, (U \ {c}) \ {x})
        <3>2. Sum(f, U \ {c}) = f[x] + rest
            BY <2>2, <2>5, <2>6
        <3>3. Sum(f, U \ {x}) = f[c] + rest
            BY <2>2, <2>5, <2>6, <3>1
        <3>4. f[x] \in Nat /\ f[c] \in Nat
            BY <2>2
        <3>5. rest \in Nat
            <4>1. (U \ {c}) \ {x} \in SUBSET S /\ Cardinality((U \ {c}) \ {x}) <= n
                <5>1. IsFiniteSet(U \ {c}) /\ Cardinality(U \ {c}) <= n
                    BY <2>2, <2>4
                <5>2. (U \ {c}) \ {x} \in SUBSET (U \ {c})
                    OBVIOUS
                <5>3. /\ IsFiniteSet((U \ {c}) \ {x})
                      /\ Cardinality((U \ {c}) \ {x}) <= Cardinality(U \ {c})
                    BY <5>1, <5>2, FS_Subset
                <5> QED
                    BY <5>1, <5>3, FS_CardinalityType
            <4> QED
                BY <1>2, <4>1
        <3> QED
            BY <2>3, <3>2, <3>3, <3>4, <3>5
    <2>7. Sum(f, U) \in Nat
        BY <2>2, <2>3, <2>5
    <2> QED
        BY <2>3, <2>6, <2>7
<1> HIDE DEF T
<1>3. Cardinality(S) \in T
    BY <1>1, <1>2, AllNaturals, FS_CardinalityType
<1>4. QED
    BY <1>3, FS_CardinalityType DEF T

LEMMA SumEmpty ==
    ASSUME NEW f
    PROVE  Sum(f, {}) = 0
BY FS_EmptySet, SumUnfolds, Zenon

LEMMA SumOne ==
    ASSUME NEW f, NEW x, f[x] \in Nat
    PROVE  Sum(f, {x}) = f[x]
<1>1. IsFiniteSet({x})
    BY FS_Singleton
<1>2. Sum(f, {x}) = f[x] + Sum(f, {x} \ {x})
    BY <1>1, SumRemoves
<1>3. {x} \ {x} = {}
    OBVIOUS
<1>4. QED
    BY <1>2, <1>3, SumEmpty

LEMMA SumSplits ==
    ASSUME NEW f, NEW S, IsFiniteSet(S), \A x \in S : f[x] \in Nat, NEW A \in SUBSET S
    PROVE  Sum(f, S) = Sum(f, A) + Sum(f, S \ A)
<1> DEFINE T == {n \in Nat : \A U \in SUBSET S : Cardinality(U) <= n =>
                    Sum(f, S) = Sum(f, U) + Sum(f, S \ U)}
<1>1. \A U \in SUBSET S : /\ IsFiniteSet(U) /\ Cardinality(U) \in Nat
                          /\ Sum(f, U) \in Nat
                          /\ \A x \in U : Sum(f, U) = f[x] + Sum(f, U \ {x})
    <2> SUFFICES ASSUME NEW U \in SUBSET S
                 PROVE  /\ IsFiniteSet(U) /\ Cardinality(U) \in Nat
                        /\ Sum(f, U) \in Nat
                        /\ \A x \in U : Sum(f, U) = f[x] + Sum(f, U \ {x})
        OBVIOUS
    <2>1. IsFiniteSet(U) /\ Cardinality(U) \in Nat
        BY FS_Subset, FS_CardinalityType
    <2>2. \A x \in U : f[x] \in Nat
        OBVIOUS
    <2> QED
        BY <2>1, <2>2, SumRemoves
<1>2. Sum(f, S) = Sum(f, {}) + Sum(f, S \ {})
    <2>1. S \ {} = S /\ Sum(f, S) \in Nat
        BY <1>1
    <2> QED
        BY <2>1, SumEmpty
<1>3. 0 \in T
    <2> SUFFICES ASSUME NEW U \in SUBSET S, Cardinality(U) <= 0
                 PROVE  Sum(f, S) = Sum(f, U) + Sum(f, S \ U)
        OBVIOUS
    <2>1. Cardinality(U) = 0
        BY <1>1
    <2>2. U = {}
        BY <1>1, <2>1, FS_EmptySet
    <2> QED
        BY <1>2, <2>2
<1>4. ASSUME NEW n \in Nat, n \in T PROVE n + 1 \in T
    <2> SUFFICES ASSUME NEW U \in SUBSET S, Cardinality(U) <= n + 1, NEW x \in U
                 PROVE  Sum(f, S) = Sum(f, U) + Sum(f, S \ U)
        BY <1>2
    <2> DEFINE V == U \ {x}
    <2>1. V \in SUBSET S /\ Cardinality(V) <= n
        <3>1. Cardinality(V) = Cardinality(U) - 1
            BY <1>1, FS_RemoveElement
        <3> QED
            BY <1>1, <3>1
    <2>2. Sum(f, S) = Sum(f, V) + Sum(f, S \ V)
        BY <1>4, <2>1
    <2>3. x \in S \ V /\ (S \ V) \ {x} = S \ U /\ S \ V \in SUBSET S /\ S \ U \in SUBSET S
        OBVIOUS
    <2>4. Sum(f, S \ V) = f[x] + Sum(f, S \ U)
        BY <1>1, <2>3
    <2>5. Sum(f, U) = f[x] + Sum(f, V)
        BY <1>1
    <2>6. f[x] \in Nat /\ Sum(f, V) \in Nat /\ Sum(f, S \ U) \in Nat
        BY <1>1, <2>1, <2>3
    <2> HIDE DEF V
    <2> QED
        BY <2>2, <2>4, <2>5, <2>6
<1> HIDE DEF T
<1>5. Cardinality(A) \in T
    BY <1>1, <1>3, <1>4, AllNaturals
<1>6. QED
    BY <1>1, <1>5 DEF T

LEMMA SumOfBands ==
    ASSUME NEW g, \A band \in Scores!Bands : g[band] \in Nat
    PROVE  Sum(g, Scores!Bands) = g[1] + g[2] + g[3] + g[4]
<1>1. /\ IsFiniteSet({1, 2, 3, 4}) /\ IsFiniteSet({2, 3, 4}) /\ IsFiniteSet({3, 4})
      /\ Scores!Bands = {1, 2, 3, 4}
    <2>1. IsFiniteSet({4})
        BY FS_Singleton
    <2>2. {3, 4} = {4} \union {3} /\ {2, 3, 4} = {3, 4} \union {2}
          /\ {1, 2, 3, 4} = {2, 3, 4} \union {1}
        OBVIOUS
    <2>3. IsFiniteSet({3, 4})
        BY <2>1, <2>2, FS_AddElement
    <2>4. IsFiniteSet({2, 3, 4})
        BY <2>2, <2>3, FS_AddElement
    <2>5. IsFiniteSet({1, 2, 3, 4})
        BY <2>2, <2>4, FS_AddElement
    <2>6. Scores!Bands = {1, 2, 3, 4}
        BY DEF Scores!Bands
    <2> QED
        BY <2>3, <2>4, <2>5, <2>6
<1>2. g[1] \in Nat /\ g[2] \in Nat /\ g[3] \in Nat /\ g[4] \in Nat
    BY <1>1
<1>3. /\ {1, 2, 3, 4} \ {1} = {2, 3, 4} /\ {2, 3, 4} \ {2} = {3, 4} /\ {3, 4} \ {3} = {4}
    OBVIOUS
<1>4. Sum(g, {1, 2, 3, 4}) = g[1] + Sum(g, {2, 3, 4})
    BY <1>1, <1>2, <1>3, SumRemoves
<1>5. Sum(g, {2, 3, 4}) = g[2] + Sum(g, {3, 4})
    BY <1>1, <1>2, <1>3, SumRemoves
<1>6. Sum(g, {3, 4}) = g[3] + Sum(g, {4})
    BY <1>1, <1>2, <1>3, SumRemoves
<1>7. Sum(g, {4}) = g[4]
    BY <1>2, SumOne
<1>8. QED
    BY <1>1, <1>2, <1>4, <1>5, <1>6, <1>7

----------------------------------------------------------------------------
\* Band scores.

TopicsOf(test, band) == {topic \in DOMAIN test : topic.band = band}

\* The bands' scores, and what topics of no band have, add up to the total.
LEMMA TotalOfBands ==
    ASSUME NEW test, Scores!IsTest(test)
    PROVE  /\ Sum(test, DOMAIN test) \in Nat
           /\ \A band \in Nat : /\ Sum(test, TopicsOf(test, band)) \in Nat
                                /\ \A topic \in TopicsOf(test, band) :
                                    test[topic] <= Sum(test, TopicsOf(test, band))
           /\ \E others \in SUBSET DOMAIN test :
                 /\ others = {topic \in DOMAIN test : topic.band \notin Scores!Bands}
                 /\ Sum(test, others) \in Nat
                 /\ Sum(test, DOMAIN test) =
                      Sum(test, TopicsOf(test, 1)) + Sum(test, TopicsOf(test, 2))
                      + Sum(test, TopicsOf(test, 3)) + Sum(test, TopicsOf(test, 4))
                      + Sum(test, others)
<1> DEFINE D == DOMAIN test
           T(band) == TopicsOf(test, band)
           D1 == D \ T(1)
           D2 == D1 \ T(2)
           D3 == D2 \ T(3)
           D4 == D3 \ T(4)
<1>1. IsFiniteSet(D) /\ \A topic \in D : test[topic] \in Nat
    BY DEF Scores!IsTest, Scores!IsFiniteSet, IsFiniteSet
<1>2. \A S \in SUBSET D : /\ IsFiniteSet(S) /\ Sum(test, S) \in Nat
                          /\ \A x \in S : Sum(test, S) = test[x] + Sum(test, S \ {x})
    <2> SUFFICES ASSUME NEW S \in SUBSET D
                 PROVE  /\ IsFiniteSet(S) /\ Sum(test, S) \in Nat
                        /\ \A x \in S : Sum(test, S) = test[x] + Sum(test, S \ {x})
        OBVIOUS
    <2>1. IsFiniteSet(S) /\ \A x \in S : test[x] \in Nat
        BY <1>1, FS_Subset
    <2> QED
        BY <2>1, SumRemoves
<1>3. \A S \in SUBSET D : \A A \in SUBSET S : Sum(test, S) = Sum(test, A) + Sum(test, S \ A)
    <2> SUFFICES ASSUME NEW S \in SUBSET D, NEW A \in SUBSET S
                 PROVE  Sum(test, S) = Sum(test, A) + Sum(test, S \ A)
        OBVIOUS
    <2>1. IsFiniteSet(S) /\ \A x \in S : test[x] \in Nat
        BY <1>1, <1>2
    <2> QED
        BY <2>1, SumSplits
<1>4. ASSUME NEW band \in Nat
      PROVE  /\ Sum(test, T(band)) \in Nat
             /\ \A topic \in T(band) : test[topic] <= Sum(test, T(band))
    <2>1. T(band) \in SUBSET D
        BY DEF TopicsOf
    <2>2. ASSUME NEW topic \in T(band) PROVE test[topic] <= Sum(test, T(band))
        <3>1. test[topic] \in Nat /\ Sum(test, T(band) \ {topic}) \in Nat
            BY <1>1, <1>2, <2>1
        <3>2. Sum(test, T(band)) = test[topic] + Sum(test, T(band) \ {topic})
            BY <1>2, <2>1
        <3> QED
            BY <3>1, <3>2
    <2> QED
        BY <1>2, <2>1, <2>2
<1>5. /\ D1 \in SUBSET D /\ D2 \in SUBSET D /\ D3 \in SUBSET D /\ D4 \in SUBSET D
      /\ T(1) \in SUBSET D /\ T(2) \in SUBSET D1 /\ T(3) \in SUBSET D2 /\ T(4) \in SUBSET D3
    BY DEF TopicsOf
<1>6. D4 = {topic \in D : topic.band \notin Scores!Bands}
    BY DEF TopicsOf, Scores!Bands
<1> HIDE DEF T
<1>7. /\ Sum(test, D) = Sum(test, T(1)) + Sum(test, D1)
      /\ Sum(test, D1) = Sum(test, T(2)) + Sum(test, D2)
      /\ Sum(test, D2) = Sum(test, T(3)) + Sum(test, D3)
      /\ Sum(test, D3) = Sum(test, T(4)) + Sum(test, D4)
    BY <1>3, <1>5
<1>8. /\ Sum(test, T(1)) \in Nat /\ Sum(test, T(2)) \in Nat
      /\ Sum(test, T(3)) \in Nat /\ Sum(test, T(4)) \in Nat
      /\ Sum(test, D) \in Nat /\ Sum(test, D4) \in Nat
    BY <1>2, <1>4, <1>5
<1> HIDE DEF D1, D2, D3, D4
<1>9. Sum(test, D) = Sum(test, T(1)) + Sum(test, T(2)) + Sum(test, T(3)) + Sum(test, T(4))
                     + Sum(test, D4)
    <2>1. /\ Sum(test, D1) \in Nat /\ Sum(test, D2) \in Nat /\ Sum(test, D3) \in Nat
        BY <1>2, <1>5
    <2> QED
        BY <1>7, <1>8, <2>1
<1>10. QED
    BY <1>4, <1>5, <1>6, <1>8, <1>9 DEF T

RowsOf(id, answer) == Scores!Filter(answer, LAMBDA row : row.id = id)

\* The rows of a result among those the query returned.
LEMMA RowsOfResult ==
    ASSUME NEW id, NEW test, NEW n \in Nat, NEW answer, DOMAIN answer = 1..n,
           \A i \in 1..n : answer[i].id = id => answer[i] \in Scores!ScoreRows(id, test),
           NEW rows, rows = RowsOf(id, answer)
    PROVE  /\ Len(rows) \in Nat
           /\ rows = <<>> <=> Len(rows) = 0
           /\ \A k \in 1..Len(rows) :
                 rows[k] \in Scores!ScoreRows(id, test) \intersect Scores!ToSet(answer)
           /\ \A row \in Scores!ScoreRows(id, test) \intersect Scores!ToSet(answer) :
                 \E k \in 1..Len(rows) : rows[k] = row
<1> DEFINE kept == {i \in DOMAIN answer : answer[i].id = id}
<1>1. rows = KeptAt(answer, kept)
    BY DEF RowsOf, Scores!Filter, Scores!KeptAt, Scores!Place, Scores!Cardinality,
        KeptAt, Place, Cardinality
<1>2. kept \in SUBSET Nat /\ kept \in SUBSET (1..n) /\ IsFiniteSet(1..n)
    BY FS_Interval
<1>3. IsFiniteSet(kept)
    BY <1>2, FS_Subset
<1>4. /\ Cardinality(kept) \in Nat /\ DOMAIN rows = 1..Cardinality(kept)
      /\ Len(rows) = Cardinality(kept)
      /\ \A i \in kept : /\ Place(kept, i) \in 1..Cardinality(kept)
                         /\ rows[Place(kept, i)] = answer[i]
      /\ \A k \in 1..Cardinality(kept) : \E i \in kept :
            Place(kept, i) = k /\ rows[k] = answer[i]
    <2> HIDE DEF kept
    <2>1. /\ Cardinality(kept) \in Nat
          /\ DOMAIN KeptAt(answer, kept) = 1..Cardinality(kept)
          /\ Len(KeptAt(answer, kept)) = Cardinality(kept)
          /\ \A i \in kept : /\ Place(kept, i) \in 1..Cardinality(kept)
                             /\ KeptAt(answer, kept)[Place(kept, i)] = answer[i]
          /\ \A k \in 1..Cardinality(kept) : \E i \in kept :
                Place(kept, i) = k /\ KeptAt(answer, kept)[k] = answer[i]
        BY <1>2, <1>3, KeptPlaces
    <2> QED
        BY <1>1, <2>1
<1>5. rows = <<>> <=> Len(rows) = 0
    <2>1. rows = <<>> => Len(rows) = 0
        OBVIOUS
    <2>2. ASSUME Len(rows) = 0 PROVE rows = <<>>
        <3>1. rows = [k \in 1..0 |-> answer[CHOOSE i \in kept : Place(kept, i) = k]]
            BY <1>1, <1>4, <2>2 DEF KeptAt
        <3> QED
            BY <3>1
    <2> QED
        BY <2>1, <2>2
<1>6. ASSUME NEW k \in 1..Len(rows)
      PROVE  rows[k] \in Scores!ScoreRows(id, test) \intersect Scores!ToSet(answer)
    BY <1>4 DEF Scores!ToSet
<1>7. ASSUME NEW row \in Scores!ScoreRows(id, test) \intersect Scores!ToSet(answer)
      PROVE  \E k \in 1..Len(rows) : rows[k] = row
    <2>1. row.id = id
        BY DEF Scores!ScoreRows, Scores!Row
    <2>2. PICK i \in DOMAIN answer : row = answer[i]
        BY DEF Scores!ToSet
    <2>3. i \in kept
        BY <2>1, <2>2
    <2> QED
        BY <1>4, <2>2, <2>3
<1>8. QED
    BY <1>4, <1>5, <1>6, <1>7

\* A band's score is that of some row of the band, or 0 without one.
LEMMA BandScoreFound ==
    ASSUME NEW band, NEW rows, Len(rows) \in Nat
    PROVE  LET score == Scores!GetBandScoreByTopic(band, rows)
           IN  \/ /\ score = 0
                  /\ \A k \in 1..Len(rows) : rows[k].topic.band # band
               \/ \E k \in 1..Len(rows) : rows[k].topic.band = band /\ score = rows[k].score
<1> DEFINE I == {k \in 1..Len(rows) : rows[k].topic.band = band}
           found == IF I # {} THEN CHOOSE k \in I : \A j \in I : k <= j ELSE 0
<1>1. Scores!GetBandScoreByTopic(band, rows) = IF found = 0 THEN 0 ELSE rows[found].score
    BY Zenon DEF Scores!GetBandScoreByTopic, Scores!SelectInSeq, Scores!Min
<1>2. CASE I = {}
    BY <1>1, <1>2
<1>3. CASE I # {}
    <2>1. I \in SUBSET Nat
        OBVIOUS
    <2>2. \E k \in I : \A j \in I : k <= j
        BY <1>3, <2>1, LeastNatural
    <2>3. found \in I
        BY <1>3, <2>2
    <2> HIDE DEF found
    <2>4. found # 0
        BY <2>3
    <2> QED
        BY <1>1, <2>3, <2>4
<1>4. QED
    BY <1>2, <1>3

LEMMA ScoreRowFields ==
    ASSUME NEW id, NEW test, NEW row \in Scores!ScoreRows(id, test)
    PROVE  /\ row.topic \in DOMAIN test /\ row.score = test[row.topic]
           /\ row.total = Sum(test, DOMAIN test)
BY DEF Scores!ScoreRows, Scores!Row, Scores!Total, Scores!SumFunction, Sum

\* What is sent, and when it is warned about.
LEMMA ScoresSent ==
    ASSUME NEW id, NEW test, Scores!IsTest(test), NEW n \in Nat,
           NEW answer, DOMAIN answer = 1..n,
           \A i \in 1..n : answer[i].id = id => answer[i] \in Scores!ScoreRows(id, test)
    PROVE  Scores!ScoresRightOrWarned(id, test, answer)
<1> DEFINE sent     == Scores!PopulateBandScores(id, answer)
           scores   == sent.bandScores
           returned == Scores!ScoreRows(id, test) \intersect Scores!ToSet(answer)
           D        == DOMAIN test
           truth(band) == Sum(test, TopicsOf(test, band))
           right    == /\ \A band \in Scores!Bands : scores[band] = truth(band)
                       /\ sent.overallScore = Sum(test, D)
<1> DEFINE rows == RowsOf(id, answer)
<1>1. /\ Len(rows) \in Nat
      /\ rows = <<>> <=> Len(rows) = 0
      /\ \A k \in 1..Len(rows) : rows[k] \in returned
      /\ \A row \in returned : \E k \in 1..Len(rows) : rows[k] = row
    BY RowsOfResult
<1>2. /\ scores = [band \in Scores!Bands |-> Scores!GetBandScoreByTopic(band, rows)]
      /\ sent.overallScore = IF rows = <<>> THEN 0 ELSE rows[1].total
      /\ sent.warned <=> Sum(scores, Scores!Bands) # sent.overallScore
    BY DEF Scores!PopulateBandScores, Scores!Mismatch, Scores!SumFunction, Sum, RowsOf
<1> HIDE DEF rows, sent
<1>3. \A row \in returned : /\ row.topic \in D /\ row.score = test[row.topic]
                            /\ row.total = Sum(test, D)
    BY ScoreRowFields
<1>4. sent.overallScore = IF returned = {} THEN 0 ELSE Sum(test, D)
    <2>1. CASE returned = {}
        BY <1>1, <1>2, <2>1
    <2>2. CASE returned # {}
        <3>1. rows # <<>> /\ rows[1] \in returned
            BY <1>1, <2>2
        <3> QED
            BY <1>2, <1>3, <2>2, <3>1
    <2> QED
        BY <2>1, <2>2
<1> HIDE DEF returned
<1>5. ASSUME NEW band \in Scores!Bands
      PROVE  \/ /\ scores[band] = 0
                /\ \A row \in returned : row.topic.band # band
             \/ \E topic \in TopicsOf(test, band) :
                    /\ scores[band] = test[topic]
                    /\ \E row \in returned : row.topic = topic
    <2>1. scores[band] = Scores!GetBandScoreByTopic(band, rows)
        BY <1>2
    <2>2. CASE /\ scores[band] = 0
               /\ \A k \in 1..Len(rows) : rows[k].topic.band # band
        BY <1>1, <2>2
    <2>3. CASE \E k \in 1..Len(rows) :
                    rows[k].topic.band = band /\ scores[band] = rows[k].score
        <3>1. PICK k \in 1..Len(rows) :
                    rows[k].topic.band = band /\ scores[band] = rows[k].score
            BY <2>3
        <3>2. rows[k] \in returned
            BY <1>1
        <3>3. rows[k].topic \in TopicsOf(test, band) /\ scores[band] = test[rows[k].topic]
            BY <1>3, <3>1, <3>2 DEF TopicsOf
        <3> QED
            BY <3>2, <3>3
    <2> QED
        BY <1>1, <2>1, <2>2, <2>3, BandScoreFound
<1>6. \A topic \in D : test[topic] \in Nat
    BY DEF Scores!IsTest
<1>7. ASSUME NEW band \in Scores!Bands
      PROVE  truth(band) \in Nat /\ scores[band] \in Nat /\ scores[band] <= truth(band)
    <2>1. band \in Nat
        BY DEF Scores!Bands
    <2>2. truth(band) \in Nat /\ \A topic \in TopicsOf(test, band) : test[topic] <= truth(band)
        BY <2>1, TotalOfBands
    <2>3. \A topic \in TopicsOf(test, band) : test[topic] \in Nat
        BY <1>6 DEF TopicsOf
    <2> QED
        BY <1>5, <2>2, <2>3
<1>8. PICK others \in SUBSET D :
        /\ others = {topic \in D : topic.band \notin Scores!Bands}
        /\ Sum(test, others) \in Nat
        /\ Sum(test, D) = truth(1) + truth(2) + truth(3) + truth(4) + Sum(test, others)
    BY TotalOfBands
<1>9. Sum(scores, Scores!Bands) = scores[1] + scores[2] + scores[3] + scores[4]
    BY <1>7, SumOfBands
<1>10. 1 \in Scores!Bands /\ 2 \in Scores!Bands /\ 3 \in Scores!Bands /\ 4 \in Scores!Bands
       /\ \A band \in Scores!Bands : band = 1 \/ band = 2 \/ band = 3 \/ band = 4
    BY DEF Scores!Bands
<1> HIDE DEF scores, truth
<1>11. ASSUME ~sent.warned, returned # {} PROVE right
    <2>1. /\ Sum(test, D) = scores[1] + scores[2] + scores[3] + scores[4]
          /\ sent.overallScore = Sum(test, D)
        BY <1>2, <1>4, <1>9, <1>11
    <2> DEFINE a1 == truth(1)
               a2 == truth(2)
               a3 == truth(3)
               a4 == truth(4)
               b1 == scores[1]
               b2 == scores[2]
               b3 == scores[3]
               b4 == scores[4]
               rest == Sum(test, others)
    <2>2. /\ a1 \in Nat /\ a2 \in Nat /\ a3 \in Nat /\ a4 \in Nat /\ rest \in Nat
          /\ b1 \in Nat /\ b2 \in Nat /\ b3 \in Nat /\ b4 \in Nat
          /\ b1 <= a1 /\ b2 <= a2 /\ b3 <= a3 /\ b4 <= a4
        BY <1>7, <1>8, <1>10
    <2>3. b1 + b2 + b3 + b4 = a1 + a2 + a3 + a4 + rest
        BY <1>8, <2>1
    <2> HIDE DEF a1, a2, a3, a4, b1, b2, b3, b4, rest
    <2>4. b1 = a1 /\ b2 = a2 /\ b3 = a3 /\ b4 = a4
        BY <2>2, <2>3
    <2> QED
        BY <1>10, <2>1, <2>4 DEF a1, a2, a3, a4, b1, b2, b3, b4
<1>12. ASSUME returned = Scores!ScoreRows(id, test),
              \A topic \in D : topic.band \in Scores!Bands,
              \A s, t \in D : s.band = t.band => s = t
       PROVE  right /\ ~sent.warned
    <2>1. \A topic \in D : \E row \in returned : row.topic = topic
        <3> SUFFICES ASSUME NEW topic \in D PROVE \E row \in returned : row.topic = topic
            OBVIOUS
        <3>1. Scores!Row(id, test, topic) \in returned
            BY <1>12 DEF Scores!ScoreRows
        <3>2. Scores!Row(id, test, topic).topic = topic
            BY DEF Scores!Row
        <3> QED
            BY <3>1, <3>2
    <2>2. ASSUME NEW band \in Scores!Bands PROVE scores[band] = truth(band)
        <3>1. CASE TopicsOf(test, band) = {}
            <4>1. truth(band) = 0
                BY <3>1, SumEmpty DEF truth
            <4> QED
                BY <1>5, <3>1, <4>1
        <3>2. CASE TopicsOf(test, band) # {}
            <4>1. PICK topic \in TopicsOf(test, band) : TRUE
                BY <3>2
            <4>2. topic \in D /\ topic.band = band /\ TopicsOf(test, band) = {topic}
                BY <1>12, <4>1 DEF TopicsOf
            <4>3. truth(band) = test[topic]
                BY <1>6, <4>2, SumOne DEF truth
            <4>4. scores[band] = test[topic]
                BY <1>5, <2>1, <4>2
            <4> QED
                BY <4>3, <4>4
        <3> QED
            BY <3>1, <3>2
    <2>3. others = {} /\ Sum(test, others) = 0
        BY <1>8, <1>12, SumEmpty
    <2>4. Sum(scores, Scores!Bands) = Sum(test, D)
        BY <1>7, <1>8, <1>9, <1>10, <2>2, <2>3
    <2>5. sent.overallScore = Sum(test, D)
        <3>1. CASE returned = {}
            <4>1. D = {}
                BY <2>1, <3>1
            <4>2. Sum(test, D) = 0
                BY <4>1, SumEmpty
            <4> QED
                BY <1>4, <3>1, <4>2
        <3>2. CASE returned # {}
            BY <1>4, <3>2
        <3> QED
            BY <3>1, <3>2
    <2> QED
        BY <1>2, <2>2, <2>4, <2>5
<1>13. right <=> /\ \A band \in Scores!Bands : sent.bandScores[band] = Scores!TrueScore(test, band)
                 /\ sent.overallScore = Scores!Total(test)
    BY DEF Scores!TrueScore, Scores!Total, Scores!SumFunction, Sum, truth, TopicsOf, scores
<1>14. QED
    BY <1>11, <1>12, <1>13 DEF Scores!ScoresRightOrWarned, sent, returned

\* Wrong scores are warned about, whatever topics a test has, whatever scores,
\* and however the answer is cut off and ordered (dvaInstructorBandScore.ts 16-49).
THEOREM ScoresAlwaysRightOrWarned == Spec => []ScoresRightOrWarned
<1>1. ASSUME InputOK, input.kind = "scores"
      PROVE  Scores!ScoresRightOrWarned("r1", input.test, input.answer)
    <2>1. PICK n \in Nat : DOMAIN input.answer = 1..n
        BY <1>1 DEF InputOK
    <2>2. \A i \in 1..n : input.answer[i].id = "r1"
              => input.answer[i] \in Scores!ScoreRows("r1", input.test)
        BY <1>1, <2>1 DEF InputOK
    <2>3. Scores!IsTest(input.test)
        BY <1>1, ScoresAssumption DEF InputOK
    <2> QED
        BY <2>1, <2>2, <2>3, ScoresSent
<1>2. InputOK => ScoresRightOrWarned
    BY <1>1 DEF ScoresRightOrWarned
<1>3. QED
    BY <1>2, InputInv, PTL

----------------------------------------------------------------------------
\* FlattenSeq
CatBase(pieces) == <<>>
CatStep(pieces, s, rest) == rest \o pieces[Greatest(s)]

Cats == INSTANCE FiniteRecursion WITH Base <- CatBase, Choice <- Greatest, Step <- CatStep

\* The first n pieces joined.
Cat(pieces, n) == Cats!Folded(pieces, 1..n)

LEMMA CatUnfolds ==
    ASSUME NEW pieces
    PROVE  /\ Cat(pieces, 0) = <<>>
           /\ \A n \in Nat : Cat(pieces, n + 1) = Cat(pieces, n) \o pieces[n + 1]
<1>1. ASSUME NEW I, NEW n \in Nat, I = 1..n
      PROVE  Cats!Folded(pieces, I) = IF I = {} THEN CatBase(pieces)
                ELSE CatStep(pieces, I, Cats!Folded(pieces, I \ {Greatest(I)}))
    <2>1. IsFiniteSet(I)
        BY <1>1, FS_Interval
    <2>2. Cats!Chooses(I)
        BY <1>1, GreatestNatural DEF Cats!Chooses
    <2> QED
        BY <2>1, <2>2, Cats!FoldedUnfolds DEF Cats!IsFiniteSet, IsFiniteSet
<1>2. Cat(pieces, 0) = <<>>
    <2>1. 1..0 = {} /\ 0 \in Nat
        OBVIOUS
    <2>2. Cats!Folded(pieces, 1..0) = CatBase(pieces)
        BY <1>1, <2>1
    <2> QED
        BY <2>2 DEF Cat, CatBase
<1>3. ASSUME NEW n \in Nat PROVE Cat(pieces, n + 1) = Cat(pieces, n) \o pieces[n + 1]
    <2> DEFINE I == 1..(n + 1)
    <2>1. Greatest(I) = n + 1 /\ I \ {n + 1} = 1..n /\ I # {}
        BY LastOfInterval
    <2>0. n + 1 \in Nat /\ I = 1..(n + 1)
        OBVIOUS
    <2> HIDE DEF I
    <2>2. Cats!Folded(pieces, I) = CatStep(pieces, I, Cats!Folded(pieces, I \ {Greatest(I)}))
        BY <1>1, <2>0, <2>1
    <2> QED
        BY <2>0, <2>1, <2>2 DEF Cat, CatStep
<1>4. QED
    BY <1>2, <1>3

LEMMA FlattenIsCat ==
    ASSUME NEW pieces, NEW n \in Nat, DOMAIN pieces = 1..n, Len(pieces) = n,
           NEW B, \A i \in 1..n : pieces[i] \in Seq(B)
    PROVE  n # 0 => Upload!FlattenSeq(pieces) = Cat(pieces, n)
<1> SUFFICES ASSUME n # 0
             PROVE  Upload!FlattenSeq(pieces) = Cat(pieces, n)
    OBVIOUS
<1> DEFINE eq(g) == g = [i \in 1..Len(pieces) |->
                            IF i = 1 THEN pieces[i] ELSE g[i - 1] \o pieces[i]]
           h == [i \in 1..n |-> Cat(pieces, i)]
           flatten == CHOOSE g : eq(g)
<1>1. Upload!FlattenSeq(pieces) = flatten[n]
    BY Zenon DEF Upload!FlattenSeq
<1>2. eq(h)
    <2>1. ASSUME NEW i \in 1..n
          PROVE  Cat(pieces, i) = IF i = 1 THEN pieces[i] ELSE h[i - 1] \o pieces[i]
        <3>1. i - 1 \in Nat /\ (i - 1) + 1 = i
            OBVIOUS
        <3>2. Cat(pieces, i) = Cat(pieces, i - 1) \o pieces[i]
            BY <3>1, CatUnfolds
        <3>3. CASE i = 1
            <4>1. <<>> \o pieces[i] = pieces[i]
                BY ConcatEmptySeq
            <4>2. Cat(pieces, i - 1) = <<>>
                BY <3>3, CatUnfolds
            <4> QED
                BY <3>2, <3>3, <4>1, <4>2
        <3>4. CASE i # 1
            <4>1. i - 1 \in 1..n
                BY <3>4
            <4> QED
                BY <3>2, <3>4, <4>1
        <3> QED
            BY <3>3, <3>4
    <2> QED
        BY <2>1
<1>3. eq(flatten)
    BY <1>2, Zenon
<1>4. \A i \in 1..n : flatten[i] = h[i]
    <2> DEFINE T == {k \in Nat : k + 1 \in 1..n => flatten[k + 1] = h[k + 1]}
    <2> HIDE DEF flatten, h
    <2>1. \A i \in 1..n : flatten[i] = IF i = 1 THEN pieces[i] ELSE flatten[i - 1] \o pieces[i]
        BY <1>3
    <2>2. \A i \in 1..n : h[i] = IF i = 1 THEN pieces[i] ELSE h[i - 1] \o pieces[i]
        BY <1>2
    <2>3. 0 \in T
        BY <2>1, <2>2
    <2>4. ASSUME NEW k \in Nat, k \in T PROVE k + 1 \in T
        <3> SUFFICES ASSUME (k + 1) + 1 \in 1..n
                     PROVE  flatten[(k + 1) + 1] = h[(k + 1) + 1]
            OBVIOUS
        <3> DEFINE i == (k + 1) + 1
        <3>1. i \in 1..n /\ i # 1 /\ i - 1 = k + 1 /\ k + 1 \in 1..n
            OBVIOUS
        <3>2. flatten[i - 1] = h[i - 1]
            BY <2>4, <3>1
        <3> HIDE DEF i
        <3>3. flatten[i] = h[i]
            BY <2>1, <2>2, <3>1, <3>2
        <3> QED
            BY <3>3 DEF i
    <2> HIDE DEF T
    <2>5. \A k \in Nat : k \in T
        BY <2>3, <2>4, AllNaturals
    <2>6. ASSUME NEW i \in 1..n PROVE flatten[i] = h[i]
        <3>1. i - 1 \in Nat /\ (i - 1) + 1 = i
            OBVIOUS
        <3>2. i - 1 \in T
            BY <2>5, <3>1
        <3> QED
            BY <3>1, <3>2 DEF T
    <2> QED
        BY <2>6
<1>5. QED
    <2>1. n \in 1..n
        OBVIOUS
    <2> HIDE DEF flatten
    <2> QED
        BY <1>1, <1>4, <2>1

----------------------------------------------------------------------------
LEMMA CatType ==
    ASSUME NEW B, NEW n \in Nat, NEW p, \A i \in 1..n : p[i] \in Seq(B)
    PROVE  /\ \A i \in 0..n : Cat(p, i) \in Seq(B) /\ Len(Cat(p, i)) \in Nat
           /\ \A i \in 0..(n - 1) : Len(Cat(p, i + 1)) = Len(Cat(p, i)) + Len(p[i + 1])
<1> DEFINE T == {i \in Nat : i <= n => Cat(p, i) \in Seq(B)}
<1>1. 0 \in T
    BY CatUnfolds, EmptySeq
<1>2. ASSUME NEW i \in Nat, i \in T PROVE i + 1 \in T
    <2> SUFFICES ASSUME i + 1 <= n PROVE Cat(p, i + 1) \in Seq(B)
        OBVIOUS
    <2>1. Cat(p, i) \in Seq(B) /\ p[i + 1] \in Seq(B)
        BY <1>2
    <2> QED
        BY <2>1, CatUnfolds, ConcatProperties
<1> HIDE DEF T
<1>3. \A i \in Nat : i \in T
    BY <1>1, <1>2, AllNaturals
<1>4. \A i \in 0..n : Cat(p, i) \in Seq(B)
    BY <1>3 DEF T
<1>5. ASSUME NEW i \in 0..(n - 1) PROVE Len(Cat(p, i + 1)) = Len(Cat(p, i)) + Len(p[i + 1])
    <2>1. i \in 0..n /\ i + 1 \in 1..n /\ i \in Nat
        OBVIOUS
    <2>2. Cat(p, i) \in Seq(B) /\ p[i + 1] \in Seq(B)
        BY <1>4, <2>1
    <2>3. Cat(p, i + 1) = Cat(p, i) \o p[i + 1]
        BY <2>1, CatUnfolds
    <2> QED
        BY <2>2, <2>3, ConcatProperties
<1>6. QED
    BY <1>4, <1>5, LenProperties

\* Joining no fewer pieces makes nothing shorter.
LEMMA CatGrows ==
    ASSUME NEW B, NEW n \in Nat, NEW p, \A i \in 1..n : p[i] \in Seq(B), NEW m \in 0..n
    PROVE  Len(Cat(p, m)) <= Len(Cat(p, n))
<1> DEFINE T == {i \in Nat : i <= n /\ m <= i => Len(Cat(p, m)) <= Len(Cat(p, i))}
<1>1. \A i \in 0..n : Len(Cat(p, i)) \in Nat
    BY CatType
<1>2. 0 \in T
    BY <1>1
<1>3. ASSUME NEW i \in Nat, i \in T PROVE i + 1 \in T
    <2> SUFFICES ASSUME i + 1 <= n, m <= i
                 PROVE  Len(Cat(p, m)) <= Len(Cat(p, i + 1))
        BY <1>1
    <2>1. i \in 0..(n - 1) /\ i \in 0..n /\ i + 1 \in 1..n /\ i <= n
        OBVIOUS
    <2>2. Len(Cat(p, i + 1)) = Len(Cat(p, i)) + Len(p[i + 1])
        BY <2>1, CatType
    <2>3. Len(p[i + 1]) \in Nat
        BY <2>1, LenProperties
    <2>4. Len(Cat(p, m)) <= Len(Cat(p, i))
        BY <1>3, <2>1
    <2> QED
        BY <1>1, <2>1, <2>2, <2>3, <2>4
<1> HIDE DEF T
<1>4. n \in T
    BY <1>2, <1>3, AllNaturals
<1>5. QED
    BY <1>4 DEF T

LEMMA ThreeJoined ==
    ASSUME NEW B, NEW s \in Seq(B), NEW t \in Seq(B), NEW u \in Seq(B)
    PROVE  (s \o t) \o u = s \o (t \o u)
BY ConcatAssociative

\* The sequence p goes on with the first m elements of r after its first b.
Continues(p, b, r, m) == \A i \in 1..m : r[i] = p[b + i]

\* Pieces joined in two goes.
AreSequences(B, p, n) == \A i \in 1..n : p[i] \in Seq(B)

Joined(s, t) == s \o t

LEMMA CatJoins ==
    ASSUME NEW B, NEW n \in Nat, NEW p, AreSequences(B, p, n),
           NEW b \in Nat, NEW m \in Nat, NEW c, c = b + m, c <= n,
           NEW r, Continues(p, b, r, m)
    PROVE  Cat(p, c) = Joined(Cat(p, b), Cat(r, m))
<1> DEFINE T == {i \in Nat : i <= m => Cat(p, b + i) = Cat(p, b) \o Cat(r, i)}
<1>0. \A i \in 1..m : r[i] = p[b + i] /\ b + i \in 1..n
    BY DEF Continues
<1>1. (\A i \in 1..n : p[i] \in Seq(B)) /\ (\A i \in 1..m : r[i] \in Seq(B))
    BY <1>0 DEF AreSequences
<1>2. Cat(p, b) \in Seq(B) /\ \A i \in 0..m : Cat(r, i) \in Seq(B)
    <2>1. b \in 0..n
        OBVIOUS
    <2> QED
        BY <1>1, <2>1, CatType
<1>3. 0 \in T
    <2>1. Cat(p, b) \o <<>> = Cat(p, b) /\ b + 0 = b
        BY <1>2, ConcatEmptySeq
    <2> QED
        BY <2>1, CatUnfolds
<1>4. ASSUME NEW i \in Nat, i \in T PROVE i + 1 \in T
    <2> SUFFICES ASSUME i + 1 <= m
                 PROVE  Cat(p, b + (i + 1)) = Cat(p, b) \o Cat(r, i + 1)
        OBVIOUS
    <2>1. b + (i + 1) = (b + i) + 1 /\ b + i \in Nat /\ i \in 0..m /\ i + 1 \in 1..m
        OBVIOUS
    <2>2. Cat(p, (b + i) + 1) = Cat(p, b + i) \o p[(b + i) + 1]
        BY <2>1, CatUnfolds
    <2>3. p[(b + i) + 1] = r[i + 1]
        BY <1>0, <2>1
    <2>4. Cat(p, b + i) = Cat(p, b) \o Cat(r, i)
        BY <1>4, <2>1
    <2>5. (Cat(p, b) \o Cat(r, i)) \o r[i + 1] = Cat(p, b) \o (Cat(r, i) \o r[i + 1])
        <3>1. PICK s, t, u : s = Cat(p, b) /\ t = Cat(r, i) /\ u = r[i + 1]
            OBVIOUS
        <3>2. s \in Seq(B) /\ t \in Seq(B) /\ u \in Seq(B)
            BY <1>1, <1>2, <2>1, <3>1
        <3>3. (s \o t) \o u = s \o (t \o u)
            BY ONLY <3>2, ThreeJoined
        <3> QED
            BY <3>1, <3>3
    <2>6. Cat(r, i + 1) = Cat(r, i) \o r[i + 1]
        BY CatUnfolds
    <2> QED
        BY <2>1, <2>2, <2>3, <2>4, <2>5, <2>6
<1> HIDE DEF T
<1>5. m \in T
    BY <1>3, <1>4, AllNaturals
<1>6. QED
    BY <1>5 DEF T, Joined

LEMMA CatAgrees ==
    ASSUME NEW n \in Nat, NEW p, NEW r, \A i \in 1..n : r[i] = p[i]
    PROVE  \A i \in 0..n : Cat(r, i) = Cat(p, i)
<1> DEFINE T == {i \in Nat : i <= n => Cat(r, i) = Cat(p, i)}
<1>1. 0 \in T
    BY CatUnfolds
<1>2. ASSUME NEW i \in Nat, i \in T PROVE i + 1 \in T
    <2> SUFFICES ASSUME i + 1 <= n PROVE Cat(r, i + 1) = Cat(p, i + 1)
        OBVIOUS
    <2>1. Cat(r, i) = Cat(p, i) /\ r[i + 1] = p[i + 1]
        BY <1>2
    <2> QED
        BY <2>1, CatUnfolds
<1> HIDE DEF T
<1>3. \A i \in Nat : i \in T
    BY <1>1, <1>2, AllNaturals
<1>4. QED
    BY <1>3 DEF T

----------------------------------------------------------------------------
Octet == (DOMAIN Upload!Bytes) \X Nat

Octets(character) == [k \in 1..Upload!Bytes[character] |-> <<character, k>>]

UnitOctets(content, i) ==
    IF Upload!PairAt(content, i - 1) THEN <<>> ELSE Octets(Upload!Character(content, i))

Pieces(content) == [i \in DOMAIN content |-> UnitOctets(content, i)]

\* A piece of the upload ends inside the pair at i.
SplitAt(content, s, i) == Upload!PairAt(content, i) /\ i % s = 0

CutPieces(content, s) ==
    [i \in DOMAIN content |->
        IF SplitAt(content, s, i - 1) \/ SplitAt(content, s, i) THEN Octets("replacement")
        ELSE UnitOctets(content, i)]

LEMMA BytesType ==
    /\ \A character \in DOMAIN Upload!Bytes : Upload!Bytes[character] \in 1..4
    /\ Upload!Bytes["pair"] = 4 /\ Upload!Bytes["replacement"] = 3
BY DEF Upload!Bytes

LEMMA OctetsType ==
    ASSUME NEW character \in DOMAIN Upload!Bytes
    PROVE  /\ Octets(character) \in Seq(Octet)
           /\ Len(Octets(character)) = Upload!Bytes[character]
<1>1. Upload!Bytes[character] \in Nat
    BY BytesType
<1>2. QED
    BY <1>1 DEF Octets, Octet

LEMMA CharacterType ==
    ASSUME NEW content \in Seq(Upload!Units), NEW i \in DOMAIN content
    PROVE  Upload!Character(content, i) \in DOMAIN Upload!Bytes
<1>1. content[i] \in Upload!Units
    OBVIOUS
<1>2. QED
    BY <1>1 DEF Upload!Character, Upload!Units, Upload!Surrogates, Upload!Bytes

LEMMA PiecesType ==
    ASSUME NEW content \in Seq(Upload!Units)
    PROVE  /\ Len(content) \in Nat /\ DOMAIN content = 1..Len(content)
           /\ \A i \in 1..Len(content) : Pieces(content)[i] = UnitOctets(content, i)
           /\ \A i \in 1..Len(content) : Pieces(content)[i] \in Seq(Octet)
           /\ DOMAIN Pieces(content) = 1..Len(content) /\ Len(Pieces(content)) = Len(content)
<1>1. Len(content) \in Nat /\ DOMAIN content = 1..Len(content)
    BY LenProperties
<1>2. ASSUME NEW i \in 1..Len(content) PROVE UnitOctets(content, i) \in Seq(Octet)
    BY <1>1, CharacterType, OctetsType, EmptySeq DEF UnitOctets
<1>3. QED
    BY <1>1, <1>2 DEF Pieces

\* The encoded content is the pieces of its units.
LEMMA EncodeIsCat ==
    ASSUME NEW content \in Seq(Upload!Units)
    PROVE  Upload!Encode(content) = Cat(Pieces(content), Len(content))
<1> DEFINE n == Len(content)
           pieces == Pieces(content)
<1>1. Upload!Encode(content) = Upload!FlattenSeq(pieces)
    BY Zenon DEF Upload!Encode, Pieces, UnitOctets, Octets
<1>2. n \in Nat /\ DOMAIN pieces = 1..n /\ Len(pieces) = n
    BY PiecesType
<1>3. \A i \in 1..n : pieces[i] \in Seq(Octet)
    BY PiecesType
<1>4. CASE n # 0
    <2> HIDE DEF n, pieces
    <2>1. Upload!FlattenSeq(pieces) = Cat(pieces, n)
        BY <1>2, <1>3, <1>4, FlattenIsCat
    <2> QED
        BY <1>1, <2>1 DEF n, pieces
<1>5. CASE n = 0
    <2>1. Upload!FlattenSeq(pieces) = pieces
        BY <1>2, <1>5 DEF Upload!FlattenSeq
    <2>2. pieces = <<>>
        BY <1>2, <1>5 DEF Pieces
    <2> QED
        BY <1>1, <1>5, <2>1, <2>2, CatUnfolds
<1>6. QED
    BY <1>4, <1>5

----------------------------------------------------------------------------
\* Where the cuts fall.

CutAt(n, s, j) == IF j * s < n THEN j * s ELSE n

NumCuts(n, s) == (n + s - 1) \div s

LEMMA CutsFall ==
    ASSUME NEW n \in Nat, NEW s \in Nat \ {0}
    PROVE  /\ NumCuts(n, s) \in Nat /\ CutAt(n, s, 0) = 0 /\ CutAt(n, s, NumCuts(n, s)) = n
           /\ \A j \in 0..NumCuts(n, s) : CutAt(n, s, j) \in 0..n
           /\ \A j \in 1..NumCuts(n, s) :
                /\ (j - 1) * s \in Nat /\ (j - 1) * s < n /\ CutAt(n, s, j - 1) = (j - 1) * s
                /\ j * s = (j - 1) * s + s
                /\ CutAt(n, s, j) = IF (j - 1) * s + s < n THEN (j - 1) * s + s ELSE n
<1> DEFINE x == n + s - 1
           m == NumCuts(n, s)
<1>1. x \in Nat /\ m = x \div s
    BY DEF NumCuts
<1> HIDE DEF m
<1>2. m \in Nat /\ m * s \in Nat /\ m * s <= x /\ x < m * s + s
    <2>1. x \div s \in Nat /\ (x \div s) * s <= x /\ x < (x \div s) * s + s
        BY <1>1, Quotient
    <2>2. m \in Nat /\ m * s <= x /\ x < m * s + s
        BY <1>1, <2>1
    <2> QED
        BY <2>2, TimesMonotone
<1>3. CutAt(n, s, 0) = 0 /\ CutAt(n, s, m) = n
    <2>1. 0 * s = 0 /\ ~(m * s < n)
        BY <1>1, <1>2, TimesNext
    <2> QED
        BY <2>1 DEF CutAt
<1>4. ASSUME NEW j \in 0..m PROVE CutAt(n, s, j) \in 0..n
    <2>1. j \in Nat /\ j * s \in Nat
        BY <1>2, TimesMonotone
    <2> QED
        BY <2>1 DEF CutAt
<1>5. ASSUME NEW j \in 1..m
      PROVE  /\ (j - 1) * s \in Nat /\ (j - 1) * s < n /\ CutAt(n, s, j - 1) = (j - 1) * s
             /\ j * s = (j - 1) * s + s
             /\ CutAt(n, s, j) = IF (j - 1) * s + s < n THEN (j - 1) * s + s ELSE n
    <2>1. PICK a \in Nat : a = j - 1
        BY <1>2
    <2>2. PICK b \in Nat : b = m - 1
        BY <1>2
    <2>3. a <= b /\ j = a + 1 /\ m = b + 1
        BY <1>2, <2>1, <2>2
    <2>4. a * s \in Nat /\ b * s \in Nat /\ a * s <= b * s
        BY <2>3, TimesMonotone
    <2>5. j * s = a * s + s /\ m * s = b * s + s
        BY <2>3, TimesNext
    <2>6. a * s < n
        BY <1>2, <2>4, <2>5
    <2> QED
        BY <2>1, <2>4, <2>5, <2>6 DEF CutAt
<1>6. QED
    BY <1>2, <1>3, <1>4, <1>5 DEF m

Chunks(content, s) == Upload!ChunkContent(content, s)

LEMMA Slice ==
    ASSUME NEW S, NEW c, NEW a \in Nat, NEW b \in Nat, a < b, \A i \in (a + 1)..b : c[i] \in S
    PROVE  /\ SubSeq(c, a + 1, b) \in Seq(S) /\ Len(SubSeq(c, a + 1, b)) = b - a
           /\ \A k \in 1..(b - a) : SubSeq(c, a + 1, b)[k] = c[a + k]
<1>1. a + 1 \in Int /\ b \in Int /\ a + 1 <= b /\ b - (a + 1) + 1 = b - a
    OBVIOUS
<1>2. \A k \in 1..(b - a) : (a + 1) + k - 1 = a + k
    OBVIOUS
<1> DEFINE x == a + 1
<1>3. x \in Int /\ \A i \in x..b : c[i] \in S
    BY <1>1
<1> HIDE DEF x
<1>4. /\ SubSeq(c, x, b) \in Seq(S)
      /\ Len(SubSeq(c, x, b)) = IF x <= b THEN b - x + 1 ELSE 0
      /\ \A k \in 1..(b - x + 1) : SubSeq(c, x, b)[k] = c[x + k - 1]
    BY ONLY <1>1, <1>3, SubSeqProperties
<1>5. QED
    BY <1>1, <1>2, <1>4 DEF x

LEMMA ChunkIs ==
    ASSUME NEW content \in Seq(Upload!Units), NEW s \in Nat \ {0},
           NEW j \in 1..Upload!NumChunks(content, s)
    PROVE  LET a == (j - 1) * s
               l == Len(Chunks(content, s)[j])
           IN  /\ a \in Nat /\ a = CutAt(Len(content), s, j - 1)
               /\ a + l = CutAt(Len(content), s, j)
               /\ Chunks(content, s)[j] \in Seq(Upload!Units)
               /\ l \in 1..s /\ a + l <= Len(content) /\ (l = s \/ a + l = Len(content))
               /\ \A k \in 1..l : Chunks(content, s)[j][k] = content[a + k]
<1> DEFINE n == Len(content)
           a == (j - 1) * s
           b == CutAt(n, s, j)
           chunk == Chunks(content, s)[j]
<1>1. n \in Nat
    BY LenProperties
<1>2. /\ a \in Nat /\ a < n /\ CutAt(n, s, j - 1) = a /\ j * s = a + s
      /\ b = IF a + s < n THEN a + s ELSE n
    <2>1. j \in 1..NumCuts(n, s)
        BY DEF Upload!NumChunks, NumCuts
    <2> HIDE DEF n
    <2> QED
        BY <1>1, <2>1, CutsFall
<1>3. chunk = SubSeq(content, a + 1, IF j * s < n THEN j * s ELSE n)
    BY DEF Chunks, Upload!ChunkContent
<1>4. chunk = SubSeq(content, a + 1, b)
    BY <1>2, <1>3
<1>5. a + 1 \in 1..n /\ b \in (a + 1)..n /\ b <= a + s
    BY <1>1, <1>2
<1>6. \A i \in (a + 1)..b : content[i] \in Upload!Units
    <2>1. \A i \in 1..n : content[i] \in Upload!Units
        BY ElementOfSeq
    <2> QED
        BY <1>1, <1>5, <2>1
<1> HIDE DEF a, b, n, chunk
<1>7. /\ chunk \in Seq(Upload!Units) /\ Len(chunk) = b - a
      /\ \A k \in 1..(b - a) : chunk[k] = content[a + k]
    <2>1. a \in Nat /\ b \in Nat /\ a < b
        BY <1>1, <1>2, <1>5
    <2> QED
        BY <1>4, <1>6, <2>1, Slice
<1>8. /\ a + Len(chunk) = b /\ Len(chunk) \in 1..s /\ a + Len(chunk) <= n
      /\ Len(chunk) = s \/ a + Len(chunk) = n
      /\ \A k \in 1..Len(chunk) : chunk[k] = content[a + k]
    <2>1. a \in Nat /\ s \in Nat /\ b = IF a + s < n THEN a + s ELSE n
        BY <1>2
    <2>2. /\ a + (b - a) = b /\ b - a \in 1..s /\ a + (b - a) <= n
          /\ b - a = s \/ a + (b - a) = n
        BY ONLY <1>1, <1>5, <2>1
    <2> QED
        BY ONLY <1>7, <2>2
<1>9. QED
    BY <1>2, <1>7, <1>8 DEF a, b, n, chunk

\* Which units end a chunk.
LEMMA ChunkEnds ==
    ASSUME NEW q \in Nat, NEW s \in Nat \ {0}, NEW k \in 0..s
    PROVE  (q * s + k) % s = 0 <=> k = 0 \/ k = s
<1>1. CASE k # s
    <2>1. (q * s + k) % s = k
        BY <1>1, Remainder
    <2> QED
        BY <1>1, <2>1
<1>2. CASE k = s
    <2>1. q + 1 \in Nat /\ (q + 1) * s = q * s + s
        BY TimesNext
    <2>2. ((q + 1) * s + 0) % s = 0 /\ (q + 1) * s \in Nat
        BY <2>1, Remainder, TimesMonotone
    <2>3. (q + 1) * s + 0 = q * s + k
        BY <1>2, <2>1, <2>2
    <2> QED
        BY <1>2, <2>2, <2>3
<1>3. QED
    BY <1>1, <1>2

\* A chunk has the pairs of the content but those its ends split.
LEMMA ChunkPairs ==
    ASSUME NEW content \in Seq(Upload!Units), NEW s \in Nat \ {0}, NEW q \in Nat,
           NEW a, a = q * s, a \in Nat,
           NEW chunk \in Seq(Upload!Units), Len(chunk) \in 1..s,
           a + Len(chunk) <= Len(content), Len(chunk) = s \/ a + Len(chunk) = Len(content),
           Continues(content, a, chunk, Len(chunk)),
           NEW k \in 0..Len(chunk)
    PROVE  Upload!PairAt(chunk, k) <=>
                Upload!PairAt(content, a + k) /\ ~SplitAt(content, s, a + k)
<1> DEFINE n == Len(content)
           l == Len(chunk)
<1>1. n \in Nat /\ DOMAIN content = 1..n /\ DOMAIN chunk = 1..l /\ l \in Nat
    BY LenProperties
<1>0. /\ l \in 1..s /\ a + l <= n /\ (l = s \/ a + l = n) /\ a \in Nat /\ s \in Nat
      /\ k \in 0..l
    OBVIOUS
<1>2. (a + k) % s = 0 <=> k = 0 \/ k = s
    BY ChunkEnds
<1> HIDE DEF n, l
<1>3. CASE k = 0
    BY <1>1, <1>2, <1>3 DEF Upload!PairAt, SplitAt
<1>4. CASE k # 0 /\ k + 1 \in 1..l
    <2>1. k # s /\ k \in 1..l /\ a + k \in 1..n /\ (a + k) + 1 \in 1..n
        BY ONLY <1>0, <1>1, <1>4
    <2>2. chunk[k] = content[a + k] /\ chunk[k + 1] = content[(a + k) + 1]
        <3>1. a + (k + 1) = (a + k) + 1
            OBVIOUS
        <3> QED
            BY <1>4, <2>1, <3>1 DEF l, Continues
    <2>3. ~((a + k) % s = 0)
        BY <1>2, <1>4, <2>1
    <2>4. Upload!PairAt(chunk, k) <=> chunk[k] = "high" /\ chunk[k + 1] = "low"
        BY <1>1, <1>4, <2>1 DEF Upload!PairAt
    <2>5. Upload!PairAt(content, a + k) <=> content[a + k] = "high" /\ content[(a + k) + 1] = "low"
        BY <1>1, <2>1 DEF Upload!PairAt
    <2> QED
        BY ONLY <2>2, <2>3, <2>4, <2>5 DEF SplitAt
<1>5. CASE k # 0 /\ ~(k + 1 \in 1..l)
    <2>1. k = l /\ (k = s \/ a + k = n)
        BY ONLY <1>0, <1>1, <1>5
    <2>2. ~Upload!PairAt(chunk, k)
        BY <1>1, <1>5 DEF Upload!PairAt
    <2>3. CASE k = s
        BY <1>2, <2>2, <2>3 DEF SplitAt
    <2>4. CASE a + k = n
        <3>1. ~((a + k) + 1 \in 1..n)
            BY <1>1, <2>4
        <3>2. ~Upload!PairAt(content, a + k)
            BY <1>1, <3>1 DEF Upload!PairAt
        <3> QED
            BY <2>2, <3>2
    <2> QED
        BY <2>1, <2>3, <2>4
<1>6. QED
    BY <1>3, <1>4, <1>5

\* What a split leaves of the two halves of a pair.
LEMMA SplitHalves ==
    ASSUME NEW content \in Seq(Upload!Units), NEW s, NEW i \in 1..Len(content)
    PROVE  /\ SplitAt(content, s, i) => content[i] = "high"
           /\ SplitAt(content, s, i - 1) => content[i] = "low"
           /\ Upload!PairAt(content, i) => content[i] = "high"
           /\ Upload!PairAt(content, i - 1) => content[i] = "low"
<1>1. (i - 1) + 1 = i
    OBVIOUS
<1>2. QED
    BY <1>1 DEF SplitAt, Upload!PairAt

LEMMA CutPiecesAre ==
    ASSUME NEW content \in Seq(Upload!Units), NEW s, NEW i \in 1..Len(content)
    PROVE  CutPieces(content, s)[i] =
                IF SplitAt(content, s, i - 1) \/ SplitAt(content, s, i) THEN Octets("replacement")
                ELSE UnitOctets(content, i)
<1>1. i \in DOMAIN content
    BY LenProperties
<1>2. QED
    BY <1>1 DEF CutPieces

LEMMA ChunkPieces ==
    ASSUME NEW content \in Seq(Upload!Units), NEW s \in Nat \ {0}, NEW q \in Nat,
           NEW a, a = q * s, a \in Nat,
           NEW chunk \in Seq(Upload!Units), Len(chunk) \in 1..s,
           a + Len(chunk) <= Len(content), Len(chunk) = s \/ a + Len(chunk) = Len(content),
           Continues(content, a, chunk, Len(chunk))
    PROVE  Continues(CutPieces(content, s), a, Pieces(chunk), Len(chunk))
<1> SUFFICES ASSUME NEW k \in 1..Len(chunk)
             PROVE  Pieces(chunk)[k] = CutPieces(content, s)[a + k]
    BY DEF Continues
<1> DEFINE i == a + k
<1>1. k \in 0..Len(chunk) /\ k - 1 \in 0..Len(chunk) /\ a + (k - 1) = i - 1
    BY LenProperties
<1>2. i \in 1..Len(content)
    <2>1. Len(content) \in Nat /\ Len(chunk) \in Nat
        BY LenProperties
    <2> QED
        BY <2>1
<1>3. chunk[k] = content[i]
    BY DEF Continues
<1>0. \A x \in 0..Len(chunk) : Upload!PairAt(chunk, x) <=>
            Upload!PairAt(content, a + x) /\ ~SplitAt(content, s, a + x)
    BY ChunkPairs
<1>4. Upload!PairAt(chunk, k) <=> Upload!PairAt(content, i) /\ ~SplitAt(content, s, i)
    BY ONLY <1>0, <1>1
<1>5. Upload!PairAt(chunk, k - 1) <=> Upload!PairAt(content, i - 1) /\ ~SplitAt(content, s, i - 1)
    BY ONLY <1>0, <1>1
<1>6. Pieces(chunk)[k] = UnitOctets(chunk, k)
    BY PiecesType
<1> HIDE DEF i
<1>7. CutPieces(content, s)[i] =
        IF SplitAt(content, s, i - 1) \/ SplitAt(content, s, i) THEN Octets("replacement")
        ELSE UnitOctets(content, i)
    BY <1>2, CutPiecesAre
<1>8. CASE SplitAt(content, s, i - 1) \/ SplitAt(content, s, i)
    <2>1. chunk[k] \in Upload!Surrogates
        BY <1>2, <1>3, <1>8, SplitHalves DEF Upload!Surrogates
    <2>2. ~Upload!PairAt(chunk, k) /\ ~Upload!PairAt(chunk, k - 1)
        <3>1. CASE SplitAt(content, s, i)
            <4>1. content[i] = "high"
                BY <1>2, <3>1, SplitHalves
            <4>2. ~Upload!PairAt(content, i - 1)
                BY <1>2, <4>1, SplitHalves
            <4> QED
                BY <1>4, <1>5, <3>1, <4>2
        <3>2. CASE SplitAt(content, s, i - 1)
            <4>1. content[i] = "low"
                BY <1>2, <3>2, SplitHalves
            <4>2. ~Upload!PairAt(content, i)
                BY <1>2, <4>1, SplitHalves
            <4> QED
                BY <1>4, <1>5, <3>2, <4>2
        <3> QED
            BY <1>8, <3>1, <3>2
    <2>3. UnitOctets(chunk, k) = Octets("replacement")
        BY <2>1, <2>2 DEF UnitOctets, Upload!Character
    <2> QED
        BY <1>6, <1>7, <1>8, <2>3 DEF i
<1>9. CASE ~(SplitAt(content, s, i - 1) \/ SplitAt(content, s, i))
    <2>1. Upload!Character(chunk, k) = Upload!Character(content, i)
        BY <1>3, <1>4, <1>9, Zenon DEF Upload!Character
    <2>2. UnitOctets(chunk, k) = UnitOctets(content, i)
        BY <1>5, <1>9, <2>1 DEF UnitOctets
    <2> QED
        BY <1>6, <1>7, <1>9, <2>2 DEF i
<1>10. QED
    BY <1>8, <1>9

----------------------------------------------------------------------------
\* A split pair is written as two replacements, which are longer.

LEMMA CutLengths ==
    ASSUME NEW content \in Seq(Upload!Units), NEW s, NEW i \in 1..Len(content)
    PROVE  LET whole == Pieces(content)[i]
               cut   == CutPieces(content, s)[i]
           IN  /\ whole \in Seq(Octet) /\ cut \in Seq(Octet)
               /\ Len(whole) \in Nat /\ Len(cut) \in Nat
               /\ ~SplitAt(content, s, i - 1) \/ ~SplitAt(content, s, i)
               /\ SplitAt(content, s, i - 1) => Len(cut) = Len(whole) + 3
               /\ SplitAt(content, s, i) => Len(cut) = Len(whole) - 1
               /\ ~SplitAt(content, s, i - 1) /\ ~SplitAt(content, s, i) => cut = whole
<1> DEFINE whole == Pieces(content)[i]
           cut == CutPieces(content, s)[i]
<1>1. whole = UnitOctets(content, i) /\ whole \in Seq(Octet)
    BY PiecesType
<1>2. cut = IF SplitAt(content, s, i - 1) \/ SplitAt(content, s, i) THEN Octets("replacement")
            ELSE UnitOctets(content, i)
    BY CutPiecesAre
<1>3. Octets("replacement") \in Seq(Octet) /\ Len(Octets("replacement")) = 3
    <2>1. "replacement" \in DOMAIN Upload!Bytes
        BY DEF Upload!Bytes
    <2> QED
        BY <2>1, OctetsType, BytesType
<1>4. Len(Octets("pair")) = 4
    <2>1. "pair" \in DOMAIN Upload!Bytes
        BY DEF Upload!Bytes
    <2> QED
        BY <2>1, OctetsType, BytesType
<1> HIDE DEF whole, cut
<1>5. cut \in Seq(Octet) /\ Len(whole) \in Nat /\ Len(cut) \in Nat
    <2>1. cut \in Seq(Octet)
        BY <1>1, <1>2, <1>3
    <2> QED
        BY <1>1, <2>1, LenProperties
<1>6. ~SplitAt(content, s, i - 1) \/ ~SplitAt(content, s, i)
    BY SplitHalves
<1>7. ASSUME SplitAt(content, s, i - 1) PROVE Len(cut) = Len(whole) + 3
    <2>1. whole = <<>>
        BY <1>1, <1>7 DEF UnitOctets, SplitAt
    <2> QED
        BY <1>2, <1>3, <1>7, <2>1, EmptySeq
<1>8. ASSUME SplitAt(content, s, i) PROVE Len(cut) = Len(whole) - 1
    <2>1. Upload!PairAt(content, i) /\ ~Upload!PairAt(content, i - 1)
        <3>1. content[i] = "high" /\ Upload!PairAt(content, i)
            BY <1>8, SplitHalves DEF SplitAt
        <3>2. Upload!PairAt(content, i - 1) => content[i] = "low"
            BY SplitHalves
        <3> QED
            BY <3>1, <3>2
    <2>2. Upload!Character(content, i) = "pair"
        <3>1. content[i] \in Upload!Surrogates
            BY <1>8, SplitHalves DEF Upload!Surrogates
        <3> QED
            BY <2>1, <3>1 DEF Upload!Character
    <2>3. whole = Octets("pair")
        BY <1>1, <2>1, <2>2 DEF UnitOctets
    <2>4. cut = Octets("replacement")
        BY <1>2, <1>8
    <2>5. Len(cut) = 3
        BY <1>3, <2>4, Zenon
    <2>6. Len(whole) = 4
        BY <1>4, <2>3, Zenon
    <2> QED
        BY ONLY <2>5, <2>6
<1>9. QED
    BY <1>1, <1>2, <1>5, <1>6, <1>7, <1>8 DEF whole, cut

LEMMA CutLonger ==
    ASSUME NEW content \in Seq(Upload!Units), NEW s, NEW k \in 1..Len(content),
           SplitAt(content, s, k)
    PROVE  Len(Cat(CutPieces(content, s), Len(content))) > Len(Cat(Pieces(content), Len(content)))
<1> DEFINE n == Len(content)
           P == Pieces(content)
           Q == CutPieces(content, s)
           split(i) == SplitAt(content, s, i)
           T == {i \in Nat : i <= n =>
                   Len(Cat(Q, i)) - Len(Cat(P, i)) >=
                     (IF k < i THEN 2 ELSE 0) - (IF split(i) THEN 1 ELSE 0)}
<1>1. n \in Nat /\ k \in 1..n /\ split(k) /\ ~split(0) /\ ~split(n)
    <2>1. n \in Nat /\ DOMAIN content = 1..n
        BY LenProperties
    <2> QED
        BY <2>1 DEF SplitAt, Upload!PairAt
<1>2. /\ \A i \in 1..n : P[i] \in Seq(Octet) /\ Q[i] \in Seq(Octet)
      /\ \A i \in 1..n :
           /\ Len(P[i]) \in Nat /\ Len(Q[i]) \in Nat /\ (~split(i - 1) \/ ~split(i))
           /\ split(i - 1) => Len(Q[i]) = Len(P[i]) + 3
           /\ split(i) => Len(Q[i]) = Len(P[i]) - 1
           /\ ~split(i - 1) /\ ~split(i) => Len(Q[i]) = Len(P[i])
    BY CutLengths
<1> HIDE DEF n, P, Q, split
<1>3. /\ \A i \in 0..n : Len(Cat(P, i)) \in Nat /\ Len(Cat(Q, i)) \in Nat
      /\ \A i \in 0..(n - 1) : /\ Len(Cat(P, i + 1)) = Len(Cat(P, i)) + Len(P[i + 1])
                               /\ Len(Cat(Q, i + 1)) = Len(Cat(Q, i)) + Len(Q[i + 1])
    <2>1. \A i \in 1..n : P[i] \in Seq(Octet)
        BY <1>2
    <2>2. \A i \in 1..n : Q[i] \in Seq(Octet)
        BY <1>2
    <2>3. /\ \A i \in 0..n : Len(Cat(P, i)) \in Nat
          /\ \A i \in 0..(n - 1) : Len(Cat(P, i + 1)) = Len(Cat(P, i)) + Len(P[i + 1])
        BY ONLY <1>1, <2>1, CatType
    <2>4. /\ \A i \in 0..n : Len(Cat(Q, i)) \in Nat
          /\ \A i \in 0..(n - 1) : Len(Cat(Q, i + 1)) = Len(Cat(Q, i)) + Len(Q[i + 1])
        BY ONLY <1>1, <2>2, CatType
    <2> QED
        BY <2>3, <2>4
<1>4. 0 \in T
    BY <1>1, <1>3, CatUnfolds
<1>5. ASSUME NEW i \in Nat, i \in T PROVE i + 1 \in T
    <2> SUFFICES ASSUME i + 1 <= n
                 PROVE  Len(Cat(Q, i + 1)) - Len(Cat(P, i + 1)) >=
                          (IF k < i + 1 THEN 2 ELSE 0) - (IF split(i + 1) THEN 1 ELSE 0)
        OBVIOUS
    <2>1. i \in 0..(n - 1) /\ i \in 0..n /\ i + 1 \in 1..n /\ (i + 1) - 1 = i /\ k \in Nat
        BY <1>1
    <2>2. Len(Cat(Q, i)) - Len(Cat(P, i)) >=
            (IF k < i THEN 2 ELSE 0) - (IF split(i) THEN 1 ELSE 0)
        BY <1>5, <2>1
    <2>3. /\ Len(Cat(P, i + 1)) = Len(Cat(P, i)) + Len(P[i + 1])
          /\ Len(Cat(Q, i + 1)) = Len(Cat(Q, i)) + Len(Q[i + 1])
          /\ Len(Cat(P, i)) \in Nat /\ Len(Cat(Q, i)) \in Nat
        BY <1>3, <2>1
    <2>4. /\ Len(P[i + 1]) \in Nat /\ Len(Q[i + 1]) \in Nat /\ (~split(i) \/ ~split(i + 1))
          /\ split(i) => Len(Q[i + 1]) = Len(P[i + 1]) + 3
          /\ split(i + 1) => Len(Q[i + 1]) = Len(P[i + 1]) - 1
          /\ ~split(i) /\ ~split(i + 1) => Len(Q[i + 1]) = Len(P[i + 1])
        BY <1>2, <2>1
    <2>5. k = i => split(i)
        BY <1>1
    <2> DEFINE x == Len(Cat(P, i))
               y == Len(Cat(Q, i))
               u == Len(P[i + 1])
               v == Len(Q[i + 1])
    <2>6. x \in Nat /\ y \in Nat /\ u \in Nat /\ v \in Nat
        BY <2>3, <2>4
    <2> HIDE DEF x, y, u, v
    <2>7. (y + v) - (x + u) >= (IF k < i + 1 THEN 2 ELSE 0) - (IF split(i + 1) THEN 1 ELSE 0)
        <3>1. y - x >= (IF k < i THEN 2 ELSE 0) - (IF split(i) THEN 1 ELSE 0)
            BY <2>2 DEF x, y
        <3>2. CASE split(i)
            <4>1. v = u + 3 /\ ~split(i + 1)
                BY <2>4, <3>2 DEF u, v
            <4>2. y - x >= -1 /\ (k < i => y - x >= 1)
                BY ONLY <2>6, <3>1, <3>2
            <4> QED
                BY ONLY <2>1, <2>6, <4>1, <4>2
        <3>3. CASE ~split(i) /\ split(i + 1)
            <4>1. v = u - 1 /\ k # i
                BY <2>4, <2>5, <3>3 DEF u, v
            <4>2. y - x >= 0 /\ (k < i => y - x >= 2)
                BY ONLY <2>6, <3>1, <3>3
            <4>3. k < i + 1 <=> k < i
                BY <2>1, <4>1
            <4> QED
                BY ONLY <2>6, <3>3, <4>1, <4>2, <4>3
        <3>4. CASE ~split(i) /\ ~split(i + 1)
            <4>1. v = u /\ k # i
                BY <2>4, <2>5, <3>4 DEF u, v
            <4>2. y - x >= 0 /\ (k < i => y - x >= 2)
                BY ONLY <2>6, <3>1, <3>4
            <4>3. k < i + 1 <=> k < i
                BY <2>1, <4>1
            <4> QED
                BY ONLY <2>6, <3>4, <4>1, <4>2, <4>3
        <3> QED
            BY <3>2, <3>3, <3>4
    <2> QED
        BY <2>3, <2>7 DEF x, y, u, v
<1> HIDE DEF T
<1>6. n \in T
    BY <1>1, <1>4, <1>5, AllNaturals
<1>7. k < n
    BY <1>1
<1>8. QED
    BY <1>1, <1>3, <1>6, <1>7 DEF T, n, P, Q

----------------------------------------------------------------------------
\* The chunks are uploaded one after the other.

UploadStart(d) == d.start

UploadStep(d, s, rest) == Upload!UploadRange(rest, d.chunks[Greatest(s)])

Uploads == INSTANCE FiniteRecursion
               WITH Base <- UploadStart, Choice <- Greatest, Step <- UploadStep

UploadAll(start, chunks) == Upload!FoldLeft(Upload!UploadRange, start, chunks)

\* The first j chunks uploaded.
Uploaded(d, j) == Uploads!Folded(d, 1..j)

LEMMA UploadedUnfolds ==
    ASSUME NEW d
    PROVE  /\ UploadAll(d.start, d.chunks) = Uploads!Folded(d, DOMAIN d.chunks)
           /\ Uploaded(d, 0) = d.start
           /\ \A j \in Nat : Uploaded(d, j + 1) = Upload!UploadRange(Uploaded(d, j), d.chunks[j + 1])
<1>1. ASSUME NEW I, NEW n \in Nat, I = 1..n
      PROVE  Uploads!Folded(d, I) = IF I = {} THEN UploadStart(d)
                ELSE UploadStep(d, I, Uploads!Folded(d, I \ {Greatest(I)}))
    <2>1. IsFiniteSet(I)
        BY <1>1, FS_Interval
    <2>2. Uploads!Chooses(I)
        BY <1>1, GreatestNatural DEF Uploads!Chooses
    <2> QED
        BY <2>1, <2>2, Uploads!FoldedUnfolds DEF Uploads!IsFiniteSet, IsFiniteSet
<1>2. Uploaded(d, 0) = d.start
    <2>1. 1..0 = {} /\ 0 \in Nat
        OBVIOUS
    <2>2. Uploads!Folded(d, 1..0) = UploadStart(d)
        BY <1>1, <2>1
    <2> QED
        BY <2>2 DEF Uploaded, UploadStart
<1>3. ASSUME NEW j \in Nat
      PROVE  Uploaded(d, j + 1) = Upload!UploadRange(Uploaded(d, j), d.chunks[j + 1])
    <2> DEFINE I == 1..(j + 1)
    <2>1. Greatest(I) = j + 1 /\ I \ {j + 1} = 1..j /\ I # {}
        BY LastOfInterval
    <2>2. j + 1 \in Nat /\ I = 1..(j + 1)
        OBVIOUS
    <2> HIDE DEF I
    <2>3. Uploads!Folded(d, I) = UploadStep(d, I, Uploads!Folded(d, I \ {Greatest(I)}))
        BY <1>1, <2>1, <2>2
    <2> QED
        BY <2>1, <2>2, <2>3 DEF Uploaded, UploadStep
<1>4. UploadAll(d.start, d.chunks) = Uploads!Folded(d, DOMAIN d.chunks)
    BY Zenon DEF UploadAll, Upload!FoldLeft, Upload!MapThenFoldSet, Upload!Max, Uploads!Folded,
        Uploads!Recursion, Uploads!Unfolded, UploadStart, UploadStep, Greatest
<1>5. QED
    BY <1>2, <1>3, <1>4

\* An upload that has written the octets joined to a file for total of them.
Written(upload, joined, total) ==
    \E file : /\ upload = [file |-> file, offset |-> Len(joined), accepted |-> TRUE]
              /\ DOMAIN file = 1..total /\ Len(file) = total
              /\ file = [k \in 1..total |-> file[k]]
              /\ \A k \in 1..Len(joined) : file[k] = joined[k]

Failed(upload) ==
    \E file, offset : upload = [file |-> file, offset |-> offset, accepted |-> FALSE]

UploadOK(upload, joined, total) ==
    IF Len(joined) <= total THEN Written(upload, joined, total) ELSE Failed(upload)

LEMMA RangeUploaded ==
    ASSUME NEW upload, NEW joined \in Seq(Octet), NEW total \in Nat,
           UploadOK(upload, joined, total),
           NEW chunk, Upload!Encode(chunk) \in Seq(Octet)
    PROVE  UploadOK(Upload!UploadRange(upload, chunk), joined \o Upload!Encode(chunk), total)
<1> DEFINE bytes == Upload!Encode(chunk)
           next == Upload!UploadRange(upload, chunk)
           all == joined \o bytes
<1>1. Len(joined) \in Nat /\ Len(bytes) \in Nat /\ DOMAIN bytes = 1..Len(bytes)
    BY LenProperties
<1>2. Len(all) = Len(joined) + Len(bytes)
    BY ConcatProperties
<1>3. \A k \in 1..(Len(joined) + Len(bytes)) :
        all[k] = IF k <= Len(joined) THEN joined[k] ELSE bytes[k - Len(joined)]
    BY ConcatProperties
<1>4. CASE ~(Len(joined) <= total)
    <2>1. PICK file, offset : upload = [file |-> file, offset |-> offset, accepted |-> FALSE]
        BY <1>4 DEF UploadOK, Failed
    <2>2. next = [file |-> file, offset |-> offset, accepted |-> FALSE]
        BY <2>1 DEF Upload!UploadRange
    <2>3. ~(Len(all) <= total)
        BY <1>1, <1>2, <1>4
    <2> QED
        BY <2>2, <2>3 DEF UploadOK, Failed
<1>5. CASE Len(joined) <= total
    <2>1. PICK file :
            /\ upload = [file |-> file, offset |-> Len(joined), accepted |-> TRUE]
            /\ DOMAIN file = 1..total /\ Len(file) = total
            /\ \A k \in 1..Len(joined) : file[k] = joined[k]
        BY <1>5 DEF UploadOK, Written
    <2> DEFINE written == Upload!Overwrite(file, Len(joined), bytes)
    <2>2. CASE ~(Len(joined) + Len(bytes) <= total)
        <3>1. Upload!Refused(upload, bytes)
            BY <1>1, <2>1, <2>2 DEF Upload!Refused
        <3>2. next = [file |-> file, offset |-> Len(joined), accepted |-> FALSE]
            BY <2>1, <3>1 DEF Upload!UploadRange
        <3>3. ~(Len(all) <= total)
            BY <1>2, <2>2
        <3> QED
            BY <3>2, <3>3 DEF UploadOK, Failed
    <2>3. CASE Len(joined) + Len(bytes) <= total
        <3>1. ~Upload!Refused(upload, bytes)
            BY <1>1, <2>1, <2>3 DEF Upload!Refused
        <3>2. next = [file |-> written, offset |-> Len(joined) + Len(bytes), accepted |-> TRUE]
            BY <2>1, <3>1 DEF Upload!UploadRange
        <3>3. written = [k \in 1..total |-> IF k - Len(joined) \in DOMAIN bytes
                                            THEN bytes[k - Len(joined)] ELSE file[k]]
            BY <2>1 DEF Upload!Overwrite
        <3> HIDE DEF written, bytes, next, all
        <3>4. /\ DOMAIN written = 1..total /\ Len(written) = total
              /\ written = [k \in 1..total |-> written[k]]
            BY <3>3
        <3>5. ASSUME NEW k \in 1..Len(all) PROVE written[k] = all[k]
            <4>1. k \in 1..total /\ k \in 1..(Len(joined) + Len(bytes))
                BY <1>1, <1>2, <2>3
            <4>2. CASE k <= Len(joined)
                <5>1. ~(k - Len(joined) \in DOMAIN bytes) /\ k \in 1..Len(joined)
                    BY <1>1, <4>1, <4>2
                <5> QED
                    BY <1>3, <2>1, <3>3, <4>1, <4>2, <5>1
            <4>3. CASE ~(k <= Len(joined))
                <5>1. k - Len(joined) \in DOMAIN bytes
                    BY <1>1, <4>1, <4>3
                <5> QED
                    BY <1>3, <3>3, <4>1, <4>3, <5>1
            <4> QED
                BY <4>2, <4>3
        <3>6. Written(next, all, total) /\ Len(all) <= total
            BY <1>2, <2>3, <3>2, <3>4, <3>5 DEF Written
        <3> QED
            BY <3>6 DEF UploadOK, bytes, next, all
    <2> QED
        BY <2>2, <2>3
<1>6. QED
    BY <1>4, <1>5

\* What a chunk adds to the octets joined.
LEMMA ChunkJoins ==
    ASSUME NEW content \in Seq(Upload!Units), NEW s \in Nat \ {0},
           NEW j \in 1..Upload!NumChunks(content, s)
    PROVE  LET Q == CutPieces(content, s)
               bytes == Upload!Encode(Chunks(content, s)[j])
           IN  /\ bytes \in Seq(Octet)
               /\ Cat(Q, CutAt(Len(content), s, j)) =
                    Cat(Q, CutAt(Len(content), s, j - 1)) \o bytes
<1> DEFINE Q == CutPieces(content, s)
           chunk == Chunks(content, s)[j]
           n == Len(content)
           q == j - 1
           a == q * s
           l == Len(chunk)
<1>1. /\ a \in Nat /\ a = CutAt(n, s, j - 1) /\ a + l = CutAt(n, s, j)
      /\ chunk \in Seq(Upload!Units)
      /\ l \in 1..s /\ a + l <= n /\ (l = s \/ a + l = n)
      /\ Continues(content, a, chunk, l)
    BY ChunkIs DEF Continues
<1>2. q \in Nat /\ n \in Nat
    <2>1. n \in Nat
        BY LenProperties
    <2> HIDE DEF n
    <2>2. j \in Nat /\ j >= 1
        <3>1. Upload!NumChunks(content, s) \in Nat
            BY <2>1, CutsFall DEF Upload!NumChunks, NumCuts, n
        <3> QED
            BY <3>1
    <2> QED
        BY <2>1, <2>2
<1>3. \A i \in 1..n : Q[i] \in Seq(Octet)
    BY CutLengths
<1>0. a = q * s /\ s \in Nat \ {0} /\ content \in Seq(Upload!Units)
    OBVIOUS
<1> HIDE DEF Q, chunk, n, a, q, l
<1>4. Continues(Q, a, Pieces(chunk), l)
    BY ONLY <1>0, <1>1, <1>2, ChunkPieces DEF Q, l, n
<1>5. Upload!Encode(chunk) = Cat(Pieces(chunk), l)
    BY <1>1, EncodeIsCat DEF l
<1>6. Cat(Pieces(chunk), l) \in Seq(Octet)
    <2>1. l \in Nat /\ l \in 0..l /\ \A i \in 1..l : Pieces(chunk)[i] \in Seq(Octet)
        BY <1>1, PiecesType DEF l
    <2> QED
        BY <2>1, CatType
<1>7. Cat(Q, a + l) = Cat(Q, a) \o Cat(Pieces(chunk), l)
    <2>1. l \in Nat /\ AreSequences(Octet, Q, n)
        BY <1>1, <1>3 DEF AreSequences
    <2> DEFINE c == a + l
    <2>2. c = a + l /\ c <= n
        BY <1>1
    <2> HIDE DEF c
    <2>3. Cat(Q, c) = Joined(Cat(Q, a), Cat(Pieces(chunk), l))
        BY ONLY <1>1, <1>2, <1>4, <2>1, <2>2, CatJoins
    <2> QED
        BY <2>3 DEF c, Joined
<1>8. QED
    BY <1>1, <1>5, <1>6, <1>7 DEF Q, chunk, n, l

LEMMA UploadsRight ==
    ASSUME NEW content \in Seq(Upload!Units), NEW s \in Nat \ {0}
    PROVE  Upload!UploadExact(content, s)
<1> DEFINE n == Len(content)
           m == Upload!NumChunks(content, s)
           P == Pieces(content)
           Q == CutPieces(content, s)
           total == Upload!ByteLength(content)
           start == [file |-> Upload!EmptyFile(total), offset |-> 0, accepted |-> TRUE]
           d == [start |-> start, chunks |-> Chunks(content, s)]
           C(j) == CutAt(n, s, j)
           T == {j \in Nat : j <= m => UploadOK(Uploaded(d, j), Cat(Q, C(j)), total)}
<1>1. n \in Nat
    BY LenProperties
<1>2. m \in Nat /\ C(0) = 0 /\ C(m) = n /\ \A j \in 0..m : C(j) \in 0..n
    <2>1. m = NumCuts(n, s)
        BY DEF Upload!NumChunks, NumCuts
    <2> HIDE DEF m, n
    <2> QED
        BY <1>1, <2>1, CutsFall
<1>3. (\A i \in 1..n : P[i] \in Seq(Octet)) /\ (\A i \in 1..n : Q[i] \in Seq(Octet))
    BY CutLengths
<1>4. Upload!Encode(content) = Cat(P, n) /\ total = Len(Cat(P, n))
    BY EncodeIsCat DEF Upload!ByteLength
<1>5. \A j \in 1..m : /\ Upload!Encode(d.chunks[j]) \in Seq(Octet)
                      /\ Cat(Q, C(j)) = Cat(Q, C(j - 1)) \o Upload!Encode(d.chunks[j])
    BY ChunkJoins
<1>6. Upload!UploadFileInChunks(content, s) = Uploaded(d, m)
    <2>1. Upload!UploadFileInChunks(content, s) = UploadAll(start, Chunks(content, s))
        BY Zenon DEF Upload!UploadFileInChunks, UploadAll, Chunks
    <2>2. d.start = start /\ d.chunks = Chunks(content, s)
        OBVIOUS
    <2>3. DOMAIN d.chunks = 1..m
        BY <2>2 DEF Chunks, Upload!ChunkContent
    <2> HIDE DEF d, start, m
    <2> QED
        BY <2>1, <2>2, <2>3, UploadedUnfolds DEF Uploaded
<1>7. d.start = start /\ start = [file |-> Upload!EmptyFile(total), offset |-> 0, accepted |-> TRUE]
    OBVIOUS
<1> HIDE DEF n, m, P, Q, total, start, d, C
<1>8. Cat(P, n) \in Seq(Octet) /\ total \in Nat
    <2>1. n \in 0..n /\ \A i \in 1..n : P[i] \in Seq(Octet)
        BY <1>1, <1>3
    <2> QED
        BY <1>1, <1>4, <2>1, CatType
<1>9. \A j \in 0..m : Cat(Q, C(j)) \in Seq(Octet)
    <2>1. \A i \in 1..n : Q[i] \in Seq(Octet)
        BY <1>3
    <2> QED
        BY <1>1, <1>2, <2>1, CatType
<1>10. 0 \in T
    <2>1. Cat(Q, C(0)) = <<>> /\ Len(<<>>) = 0
        BY <1>2, CatUnfolds
    <2>2. Uploaded(d, 0) = start
        BY <1>7, UploadedUnfolds
    <2> DEFINE file == Upload!EmptyFile(total)
    <2>3. /\ DOMAIN file = 1..total /\ Len(file) = total
          /\ file = [k \in 1..total |-> file[k]]
        BY <1>8 DEF Upload!EmptyFile
    <2> HIDE DEF file
    <2>4. Written(start, <<>>, total)
        <3>1. start = [file |-> file, offset |-> Len(<<>>), accepted |-> TRUE]
            BY <1>7, <2>1 DEF file
        <3>2. \A k \in 1..Len(<<>>) : file[k] = <<>>[k]
            BY <2>1
        <3> QED
            BY <2>3, <3>1, <3>2 DEF Written
    <2>5. UploadOK(Uploaded(d, 0), Cat(Q, C(0)), total)
        BY <1>8, <2>1, <2>2, <2>4 DEF UploadOK
    <2> QED
        BY <2>5
<1>11. ASSUME NEW j \in Nat, j \in T PROVE j + 1 \in T
    <2> SUFFICES ASSUME j + 1 <= m
                 PROVE  UploadOK(Uploaded(d, j + 1), Cat(Q, C(j + 1)), total)
        OBVIOUS
    <2>1. j \in 0..m /\ j + 1 \in 1..m /\ (j + 1) - 1 = j /\ j <= m
        BY <1>2
    <2>2. UploadOK(Uploaded(d, j), Cat(Q, C(j)), total)
        BY <1>11, <2>1
    <2>3. /\ Upload!Encode(d.chunks[j + 1]) \in Seq(Octet)
          /\ Cat(Q, C(j + 1)) = Cat(Q, C(j)) \o Upload!Encode(d.chunks[j + 1])
        BY <1>5, <2>1
    <2>4. Uploaded(d, j + 1) = Upload!UploadRange(Uploaded(d, j), d.chunks[j + 1])
        BY UploadedUnfolds
    <2> QED
        BY <1>8, <1>9, <2>1, <2>2, <2>3, <2>4, RangeUploaded
<1> HIDE DEF T
<1>12. UploadOK(Uploaded(d, m), Cat(Q, n), total)
    <2>1. m \in T
        BY <1>2, <1>10, <1>11, AllNaturals
    <2> QED
        BY <1>2, <2>1 DEF T
<1>13. CASE Upload!SplitsPair(content, s)
    <2>1. PICK k \in 1..n : SplitAt(content, s, k)
        BY <1>13, LenProperties DEF Upload!SplitsPair, SplitAt, n
    <2>2. Len(Cat(Q, n)) > Len(Cat(P, n))
        BY <2>1, CutLonger DEF n, P, Q
    <2>3. ~(Len(Cat(Q, n)) <= total)
        <3>1. Len(Cat(Q, n)) \in Nat
            BY <1>2, <1>9, LenProperties
        <3> QED
            BY <1>4, <1>8, <2>2, <3>1
    <2>4. PICK file, offset :
            Uploaded(d, m) = [file |-> file, offset |-> offset, accepted |-> FALSE]
        BY <1>12, <2>3 DEF UploadOK, Failed
    <2>5. Upload!UploadFile(content, s) = Upload!NoFile
        BY <1>6, <2>4 DEF Upload!UploadFile
    <2> QED
        BY <1>13, <2>5 DEF Upload!UploadExact
<1>14. CASE ~Upload!SplitsPair(content, s)
    <2>1. \A i \in 1..n : ~SplitAt(content, s, i)
        BY <1>14, LenProperties DEF Upload!SplitsPair, SplitAt, n
    <2>2. ~SplitAt(content, s, 0)
        <3>1. ~(0 \in DOMAIN content)
            BY LenProperties
        <3> QED
            BY <3>1 DEF SplitAt, Upload!PairAt
    <2>3. ASSUME NEW i \in 1..n PROVE Q[i] = P[i]
        <3>1. ~SplitAt(content, s, i - 1)
            <4>1. CASE i = 1
                BY <2>2, <4>1
            <4>2. CASE i # 1
                <5>1. i - 1 \in 1..n
                    BY <1>1, <4>2
                <5> QED
                    BY <2>1, <5>1
            <4> QED
                BY <4>1, <4>2
        <3> QED
            BY <2>1, <3>1, CutLengths DEF n, P, Q
    <2>4. Cat(Q, n) = Cat(P, n)
        <3>1. n \in 0..n
            BY <1>1
        <3> QED
            BY ONLY <1>1, <2>3, <3>1, CatAgrees
    <2>5. PICK file :
            /\ Uploaded(d, m) = [file |-> file, offset |-> Len(Cat(P, n)), accepted |-> TRUE]
            /\ DOMAIN file = 1..total /\ Len(file) = total
            /\ file = [k \in 1..total |-> file[k]]
            /\ \A k \in 1..Len(Cat(P, n)) : file[k] = Cat(P, n)[k]
        BY <1>4, <1>8, <1>12, <2>4 DEF UploadOK, Written
    <2>6. Upload!UploadFile(content, s) = file
        BY <1>6, <2>5 DEF Upload!UploadFile
    <2>7. file = Cat(P, n)
        <3>1. Cat(P, n) = [k \in 1..total |-> Cat(P, n)[k]]
            BY <1>4, <1>8, LenProperties
        <3> QED
            BY <1>4, <2>5, <3>1
    <2> QED
        BY <1>4, <1>14, <2>6, <2>7 DEF Upload!UploadExact
<1>15. QED
    BY <1>13, <1>14

\* Whatever the contents and the chunk sizes, cutting a file into ranges never
\* damages it: the share holds the content's bytes, or nothing when an end of a
\* range splits a pair (azureFilesClient.ts 51-85).
THEOREM UploadsAlwaysExact == Spec => []UploadsExact
<1>1. InputOK => UploadsExact
    <2> SUFFICES ASSUME InputOK, input.kind = "upload"
                 PROVE  Upload!UploadExact(input.content, input.chunkSize)
        BY DEF UploadsExact
    <2>1. input.content \in Seq(Upload!Units) /\ input.chunkSize \in Nat \ {0}
        BY UploadsAssumption DEF InputOK
    <2> QED
        BY <2>1, UploadsRight
<1>2. QED
    BY <1>1, InputInv, PTL
=============================================================================
