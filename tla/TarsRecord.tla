----------------------------- MODULE TarsRecord -----------------------------
(***************************************************************************)
(* From a CRM row to a TARS candidate: title and gender are worked out,    *)
(* the record is checked against its own schema, and the candidate made of *)
(* it against the schema of the whole file.  A record that fails the first *)
(* is given up alone; one that passes it and fails the second makes every  *)
(* invocation throw.  Rows have a title code, a gender code, a driver      *)
(* number (its length and seventh character), a booking reference, a test  *)
(* status and a language; columns that are only copied are left out.       *)
(***************************************************************************)
EXTENDS Integers, Sequences, FiniteSets, Filtering

None == "none"

Titles == <<"Mr", "Ms", "Mx", "Mrs", "Miss", "Dr">>

Genders == {"M", "F"}

Digits == {"0", "1", "2", "3", "4", "5", "6", "7", "8", "9"}

CrmTitleBase == 675030000

\* The CRM's option values; any other value is no title.
CrmTitleToTitle(code) ==
    IF code - CrmTitleBase + 1 \in DOMAIN Titles
    THEN Titles[code - CrmTitleBase + 1] ELSE None

CrmGenderCodeToGender(code) ==
    CASE code = 1 -> "M" [] code = 2 -> "F" [] OTHER -> None

TestStatusToString(status) ==
    CASE status = 1 -> "Fail" [] status = 2 -> "Pass" [] status = 3 -> "Not started"
      [] status = 4 -> "Incomplete" [] OTHER -> "Negated"

TextLanguageToString(language) ==
    CASE language = 1 -> "English" [] language = 2 -> "Cymraeg (Welsh)" [] OTHER -> None

\* The columns the candidate depends on.
Row ==
    [title : Int, gendercode : Int, licence : [length : Nat, seventh : STRING],
     reference : Seq(STRING), teststatus : Int, textlanguage : Int]

TarsTestResultModel(row) ==
    [title            |-> CrmTitleToTitle(row.title),
     genderCode       |-> CrmGenderCodeToGender(row.gendercode),
     driverNumber     |-> row.licence,
     bookingReference |-> row.reference,
     testStatus       |-> TestStatusToString(row.teststatus),
     textLanguage     |-> TextLanguageToString(row.textlanguage)]

----------------------------------------------------------------------------
ResolveTitle(title, genderCode) ==
    CASE title # None                       -> title
      [] title = None /\ genderCode = "M"   -> "Mr"
      [] title = None /\ genderCode = "F"   -> "Ms"
      [] OTHER                              -> None

GenderOfLicence(driverNumber) ==
    CASE driverNumber.seventh \in {"5", "6"} -> "F"
      [] driverNumber.seventh \in {"0", "1"} -> "M"
      [] OTHER                               -> None

\* Mutant of GenderOfTitle: one of the women's titles is left out.
GenderOfTitleWithoutMiss(title) ==
    CASE title = "Mr"  -> "M"
      [] title = "Mrs" -> "F"
      [] OTHER         -> None

GenderOfTitle(title) ==
    CASE title = "Mr"              -> "M"
      [] title \in {"Mrs", "Miss"} -> "F"
      [] OTHER                     -> None

\* A licence of 16 characters tells by its seventh; one of 8 does not, the title may.
ResolveGender(title, genderCode, driverNumber) ==
    CASE genderCode # None -> genderCode
      [] genderCode = None /\ driverNumber.length = 16 -> GenderOfLicence(driverNumber)
      [] genderCode = None /\ driverNumber.length = 8  -> GenderOfTitle(title)
      [] OTHER -> None

\* The loop's work on one record: the title first, then the gender from it.
Resolve(record) ==
    LET title == ResolveTitle(record.title, record.genderCode)
    IN  [record EXCEPT !.title = title,
                       !.genderCode = ResolveGender(title, @, record.driverNumber)]

----------------------------------------------------------------------------
\* ^.(?:-?\d){9,} : any character, then nine digits or more, each with at most
\* one hyphen before it; what follows does not matter.
DigitGroups(text) ==
    \A i \in DOMAIN text :
        \/ text[i] \in Digits
        \/ text[i] = "-" /\ i < Len(text) /\ text[i + 1] \in Digits

IsBookingReference(reference) ==
    \E n \in 1..Len(reference) :
        LET groups == SubSeq(reference, 2, n)
        IN  /\ DigitGroups(groups)
            /\ Cardinality({i \in DOMAIN groups : groups[i] \in Digits}) >= 9

MatchesRecordSchema(record) ==
    /\ record.title # None
    /\ record.genderCode # None
    /\ record.driverNumber.length >= 1
    /\ IsBookingReference(record.bookingReference)
    /\ record.textLanguage # None

\* Mutant of CreateSessionPaperId: the first character is kept.
SessionPaperIdFromStart(reference) ==
    SubSeq(Filter(reference, LAMBDA c : c # "-"), 1, 9)

CreateSessionPaperId(reference) ==
    LET digits == Filter(reference, LAMBDA c : c # "-")
    IN  SubSeq(digits, 2, IF Len(digits) < 10 THEN Len(digits) ELSE 10)

ResolveLanguageId(language) == IF language = "Cymraeg (Welsh)" THEN "WEL" ELSE "ENG"

ResolveTestResult(testStatus) == IF testStatus = "Fail" THEN "F" ELSE "P"

Candidate(record) ==
    [Gender         |-> record.genderCode,
     Title          |-> record.title,
     SessionPaperID |-> CreateSessionPaperId(record.bookingReference),
     LanguageID     |-> ResolveLanguageId(record.textLanguage),
     TestResult     |-> ResolveTestResult(record.testStatus)]

\* The gender may be missing in the file's schema.
MatchesFileSchema(candidate) ==
    /\ \E i \in DOMAIN Titles : candidate.Title = Titles[i]
    /\ candidate.Gender \in Genders \union {None}
    /\ Len(candidate.SessionPaperID) = 9
    /\ \A i \in DOMAIN candidate.SessionPaperID : candidate.SessionPaperID[i] \in Digits
    /\ candidate.LanguageID \in {"ENG", "WEL"}
    /\ candidate.TestResult \in {"P", "F"}

----------------------------------------------------------------------------
\* What a row says of a gender and of a title, in whatever order one asks: the
\* gender code, a long licence, or a title beside a short one tell the gender, and
\* whatever tells the gender tells a title.
TellsGender(record) ==
    \/ record.genderCode # None
    \/ /\ record.driverNumber.length = 16
       /\ record.driverNumber.seventh \in {"0", "1", "5", "6"}
    \/ record.driverNumber.length = 8 /\ record.title \in {"Mr", "Mrs", "Miss"}

TellsTitle(record) == record.title # None \/ TellsGender(record)

Told(record) == TellsTitle(record) /\ TellsGender(record)

\* A row that has its licence only.
LicenceAlone(record) == record.title = None /\ record.genderCode = None

\* A row gets a title and a gender exactly if it tells both and not by the licence
\* alone: the code asks for the title first, before the licence has given a gender,
\* and gives such a row up although the licence would have told both.  What the
\* CRM said is kept.
ResolvedIfTold(row) ==
    LET record   == TarsTestResultModel(row)
        resolved == Resolve(record)
    IN  /\ resolved.title # None /\ resolved.genderCode # None
              <=> Told(record) /\ ~LicenceAlone(record)
        /\ record.title # None => resolved.title = record.title
        /\ record.genderCode # None => resolved.genderCode = record.genderCode

\* The two schemas agree: a record that passes its own makes a candidate that
\* passes the file's, with the first nine digits of the booking reference as
\* session paper id.  References that begin with a hyphen are excluded: the
\* record's schema takes the hyphen as the first character, the removal of
\* hyphens then loses a digit.
SchemasAgree(row) ==
    LET record == Resolve(TarsTestResultModel(row))
        id     == Candidate(record).SessionPaperID
        digits == {i \in 2..Len(record.bookingReference) : record.bookingReference[i] \in Digits}
    IN  MatchesRecordSchema(record) /\ record.bookingReference[1] # "-" =>
            /\ MatchesFileSchema(Candidate(record))
            /\ \A k \in 1..9 : \E i \in digits :
                  Place(digits, i) = k /\ id[k] = record.bookingReference[i]
=============================================================================
