----------------------------- MODULE DvaRecord -----------------------------
(***************************************************************************)
(* From a CRM row to a fixed-width DVA record: the query's filter, the     *)
(* result's schema, the conversions, and the columns of the file.  A value *)
(* is what the columns tell apart: its length, 0 for an empty one, or      *)
(* Missing.  A record that passes its schema and does not fit its columns  *)
(* makes the file's generation throw, in every invocation that fetches it. *)
(***************************************************************************)
EXTENDS Integers

Missing == -1

FAIL == 1
PASS == 2

TwoPartProducts == {"LGVMC", "LGVHPT", "PCVMC", "PCVHPT"}

SinglePartProducts ==
    {"CAR", "MOTORCYCLE", "LGVCPC", "LGVCPCC", "PCVCPC", "PCVCPCC", "TAXI"}

InstructorProducts == {"ADIP1", "ADIHPT", "ADIP1DVA", "ERS", "AMIP1"}

\* Mutant of ProductIdToTestCode: the conversion products have none.
ProductsWithoutConversions ==
    (TwoPartProducts \union SinglePartProducts) \ {"LGVCPCC", "PCVCPCC"}

\* The products that have a test code.
ProductIdToTestCode == TwoPartProducts \union SinglePartProducts

\* A text of plain characters, of characters that cleaning replaces by two, and
\* of those it removes: blanks around the text, what is left outside ASCII.
Raw(text) == text.plain + text.wide + text.blank

CleanString(text) == text.plain + 2 * text.wide

Texts == [plain : Nat, wide : Nat, blank : Nat]

Lengths == Nat \union {Missing}

Least(a, b) == IF a < b THEN a ELSE b

ZeroFill(length, width) == IF length < width THEN width ELSE length

DigitsOf(n) ==
    CASE n < 10 -> 1 [] n \in 10..99 -> 2 [] n \in 100..999 -> 3 [] OTHER -> 4

----------------------------------------------------------------------------
LearnerRow ==
    [product : STRING, status : Nat, certificate : Lengths, driverNumber : Lengths,
     firstName : Lengths, lastName : Texts, title : STRING, otherTitle : STRING]

\* Learner results.  A two-part result is sent once it has a certificate.
Queried(row) ==
    \/ row.product \in SinglePartProducts /\ row.status \in {FAIL, PASS}
    \/ /\ row.product \in TwoPartProducts
       /\ row.status = PASS /\ row.certificate # Missing

MatchesLearnerSchema(row) ==
    /\ row.product \in TwoPartProducts \union SinglePartProducts \union InstructorProducts
    /\ row.certificate # Missing => row.certificate >= 1
    /\ Raw(row.lastName) <= 43
    /\ row.driverNumber \in 8..16
    /\ row.firstName # Missing

\* CRM title, else the free text; what the DVA does not know is OTHER.
DvaTitles == {"mr", "mrs", "ms", "miss", "dr", "rev", "sister", "prof", "lady", "sir", "canon"}

ResolveTitle(title, otherTitle) ==
    LET given == IF title # "none" THEN title ELSE otherTitle
    IN  IF given \in DvaTitles THEN given ELSE "other"

TitleLength(title) ==
    CASE title \in {"mr", "ms", "dr"}            -> 2
      [] title \in {"mrs", "rev", "sir"}         -> 3
      [] title \in {"miss", "prof", "lady"}      -> 4
      [] title \in {"canon", "other"}            -> 5
      [] title = "sister"                        -> 6

\* A failed result has no certificate; nine zeros stand in for it.
ResolveCertificateNumber(status, certificate) ==
    IF status = FAIL THEN 9 ELSE certificate

LearnerRecord(row) ==
    [startChar         |-> 1,
     driverNumber      |-> row.driverNumber,
     firstInitial      |-> Least(row.firstName, 1),
     title             |-> TitleLength(ResolveTitle(row.title, row.otherTitle)),
     surname           |-> CleanString(row.lastName),
     testCode          |-> IF row.product \in ProductIdToTestCode THEN 2 ELSE Missing,
     testDate          |-> 8,
     certificateNumber |-> ResolveCertificateNumber(row.status, row.certificate),
     testResult        |-> 1]

LearnerTemplate ==
    [startChar |-> 1, driverNumber |-> 16, firstInitial |-> 1, title |-> 12, surname |-> 43,
     testCode |-> 2, testDate |-> 8, certificateNumber |-> 9, testResult |-> 1]

\* With truncate: false the parser refuses a value longer than its column.
FitsColumns(record, template) ==
    \A column \in DOMAIN template : record[column] \in 0..template[column]

----------------------------------------------------------------------------
\* Instructor results.  A score is any JSON number: a sign (minus is 1 or 0), a
\* whole part and decimals.  Printed with an exponent it is longer than three
\* characters, as it is without.
Numbers ==
    {n \in [minus : 0..1, whole : Nat, decimals : Nat] :
        n.minus = 1 => n.whole > 0 \/ n.decimals > 0}

NoNumber == [minus |-> 0, whole |-> Missing, decimals |-> 0]

NumberLength(n) ==
    n.minus + DigitsOf(n.whole) + IF n.decimals = 0 THEN 0 ELSE 1 + n.decimals

NoText == [plain |-> Missing, wide |-> 0, blank |-> 0]

InstructorRow ==
    [driverNumber : Lengths, lastName : Texts, addressLine : [1..5 -> Texts \union {NoText}],
     postCode : Texts \union {NoText}, paymentReferenceNumber : Lengths,
     bandScore : [1..4 -> Numbers], overallScore : Numbers,
     hptScore : Numbers \union {NoNumber}]

\* The first address line and the post code are required; the band scores and the
\* overall score are, and the code has set them.  Only hptScore may be negative.
MatchesInstructorSchema(row) ==
    /\ Raw(row.lastName) <= 43
    /\ row.driverNumber \in 8..16
    /\ row.addressLine[1] # NoText
    /\ \A i \in 1..5 : row.addressLine[i] # NoText => Raw(row.addressLine[i]) <= 30
    /\ row.postCode # NoText /\ Raw(row.postCode) <= 10
    /\ row.paymentReferenceNumber # Missing /\ row.paymentReferenceNumber <= 16
    /\ \A i \in 1..4 : row.bandScore[i].minus = 0
    /\ row.overallScore.minus = 0
    /\ row.hptScore # NoNumber

\* Mutant of PaymentReceiptNumber: padded beyond its column.
PaymentReceiptNumberOf18(row) == ZeroFill(row.paymentReferenceNumber, 18)

PaymentReceiptNumber(row) == ZeroFill(row.paymentReferenceNumber, 16)

\* A missing line is an empty one.
AddressLine(line) == IF line = NoText THEN 0 ELSE CleanString(line)

Score(n) == ZeroFill(NumberLength(n), 3)

InstructorRecord(row) ==
    [startChar            |-> 1,
     driverNumber         |-> row.driverNumber,
     paymentReceiptNumber |-> PaymentReceiptNumber(row),
     surname              |-> CleanString(row.lastName),
     addressLine1         |-> AddressLine(row.addressLine[1]),
     addressLine2         |-> AddressLine(row.addressLine[2]),
     addressLine3         |-> AddressLine(row.addressLine[3]),
     addressLine4         |-> AddressLine(row.addressLine[4]),
     addressLine5         |-> AddressLine(row.addressLine[5]),
     postCode             |-> CleanString(row.postCode),
     testDate             |-> 8,
     testResult           |-> 1,
     bandScore1           |-> Score(row.bandScore[1]),
     bandScore2           |-> Score(row.bandScore[2]),
     bandScore3           |-> Score(row.bandScore[3]),
     bandScore4           |-> Score(row.bandScore[4]),
     overallScore         |-> Score(row.overallScore),
     hptScore             |-> Score(row.hptScore)]

InstructorTemplate ==
    [startChar |-> 1, driverNumber |-> 16, paymentReceiptNumber |-> 16, surname |-> 43,
     addressLine1 |-> 30, addressLine2 |-> 30, addressLine3 |-> 30, addressLine4 |-> 30,
     addressLine5 |-> 30, postCode |-> 10, testDate |-> 8, testResult |-> 1,
     bandScore1 |-> 3, bandScore2 |-> 3, bandScore3 |-> 3, bandScore4 |-> 3,
     overallScore |-> 3, hptScore |-> 3]

----------------------------------------------------------------------------
\* Filter, schema, conversions and columns, kept in four files, agree: a learner
\* result that is fetched and passes its schema fits its columns, except where
\* cleaning makes the surname too long, or a passed result has no certificate
\* or one of ten digits or more.  Those are the records that stop every file.
LearnerRecordsFit(row) ==
    Queried(row) /\ MatchesLearnerSchema(row) =>
        (FitsColumns(LearnerRecord(row), LearnerTemplate) <=>
            /\ CleanString(row.lastName) <= 43
            /\ row.status = PASS => row.certificate \in 1..9)

\* Scores of three characters: whole numbers of up to three digits, with a sign of
\* up to two, and one digit with one decimal.
ShortScore(n) ==
    \/ n.decimals = 0 /\ n.whole <= (IF n.minus = 1 THEN 99 ELSE 999)
    \/ n.decimals = 1 /\ n.whole <= 9 /\ n.minus = 0

\* The same for instructors: what does not fit is a surname, an address line or a
\* post code that cleaning makes too long, or a score that is not a short one.
InstructorRecordsFit(row) ==
    MatchesInstructorSchema(row) =>
        (FitsColumns(InstructorRecord(row), InstructorTemplate) <=>
            /\ CleanString(row.lastName) <= 43
            /\ \A i \in 1..5 : row.addressLine[i] # NoText => CleanString(row.addressLine[i]) <= 30
            /\ CleanString(row.postCode) <= 10
            /\ \A i \in 1..4 : ShortScore(row.bandScore[i])
            /\ ShortScore(row.overallScore) /\ ShortScore(row.hptScore))
=============================================================================
