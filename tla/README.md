# A formal model of the FTTS results dispatcher

The results dispatcher sends theory test results from a CRM (Dynamics) to two
consumers: TARS, as XML files on an Azure file share, and the DVA, as
fixed-width text files on an SFTP server.  It is a set of timer-triggered Azure
functions without a database of its own: what it knows of earlier runs is in the
CRM's export status, in metadata blobs and in the files themselves.  Between any
two remote calls the host may stop (`src/host.json` ends a function after ten
minutes), a call may fail, the clock may pass midnight and a consumer may take a
file.  These modules model that, TLC checks them, and TLAPS proves what matters
most about both dispatchers, about the composition with housekeeping, and about
the records' path into a file.

Source paths below are relative to `src/src/` of the repository.

## 1. Inventory

| component | state it keeps | operations | what makes it hard |
|---|---|---|---|
| TARS dispatcher `tarsResultsDispatcher/` | locals of one invocation | fetch, resolve, validate, number, write, verify, mark; first results, then negated results | any call fails; results change while held; the loop removes from the array it iterates |
| TARS metadata `metadata/tars*.ts` | one blob per sequence number, name `<seq>-…` | latest blob, does its file exist and match, next number and daily number | numbers of failed files are reused; files get renamed between two checks |
| Azure Files client `azureFiles/` | the TARS share | create, upload ranges, download, exists, list, delete | an upload is a creation and many ranges; pieces are cut by UTF-16 units, offsets count bytes |
| Azure Blob client `azureBlob/` | the metadata container | upload (replaces), list, download, delete | – |
| TARS file generation `tars/` | – | file name, XML, title and gender | a record the first schema accepts and the second refuses |
| CRM client and queries `crm/` | test histories (external) | five bounded queries, batch updates | windows, partly applied batches |
| DVA dispatcher `dva/dvaResultsDispatcher.ts` | locals of one invocation | as TARS, for LEARNER, ADI and AMI | number stored after the file; malformed first |
| DVA metadata `metadata/dva*.ts` | one blob per test type with the last number | next number, store number | missing blob |
| DVA file generation `dva/*.ts` | – | name (learner: increment of yesterday's highest), records, columns | names are compared as strings; a record that passes its schema and not its columns stops the file |
| SFTP clients `dva/sftp/` | the DVA's server | put, get, list, delete, verification | partial files, failing close |
| Band scores `crm/testResults/dvaInstructorBandScore.ts` | – | join scores to instructor results | truncated query, several rows per result, spellings |
| File housekeeping `fileHousekeeping/` | – | delete all but the last processed file, all but the last blob | works from stale listings beside the dispatcher |
| Error handling `error/` | – | log an event for an error, rethrow | chain of causes, errors that replace errors |
| Validation `validation/`, healthcheck `healthcheck/`, observability, config, egress, utils | – | stateless | – |

How they interact: the TARS dispatcher writes the blob `metadata`, then the file
it announces, then reads the file back, and only then marks the results in the
CRM.  The next invocation decides from the latest blob, and from whether the
file it names (plain or with the `processed-` prefix TARS gives it) exists with
the blob's checksum, whether the number was used.  Housekeeping deletes old
files and blobs, so it decides what that invocation finds.  The DVA dispatcher
puts the file first, verifies it, stores the number and marks the results.

What is correct, per component:

- dispatchers: a result marked Processed is in a correct, delivered file; without
  a failure nothing is sent twice; every ready result is sent in the end; only
  malformed records are given up;
- numbering: unique, gapless, in the order of the file names;
- both dispatchers, seen from outside: one log of numbered files and one mark per
  record (`ResultsLog`);
- housekeeping: what the numbering depends on survives it;
- records: what one schema lets through the next one, or the columns of the file,
  take; a row is given up for its title or gender only if nothing in it tells them;
- uploads and scores: cutting damages no file, wrong scores are warned about;
- errors: wrapping an error, or closing a connection, loses no report (the second
  does not hold, see 4).

## 2. Modules

| module | models | how state and actions correspond |
|---|---|---|
| `BoundedRequests` | fetch counts and batches | `FillsUpTo(S, U, n)`: S is all of U or as much as n rows hold |
| `TarsDispatch` | dispatcher, metadata service and client, as seen through the file share and the CRM | `pc` is the awaited call the invocation stands at; `results`, `malformed`, `latest`, `basic` are the variables of `processResults` and `prepareNewBasicMetadata`; `metadata` and `files` are the stores |
| `DvaDispatch` | the DVA dispatcher for one test type, with metadata, naming and SFTP | constant `Learner` chooses the branch; `recorded` remembers files whose number was stored |
| `ResultsLog` | nothing in the code by itself: what either dispatcher promises, without invocations, storage or failures | `log` is the set of correct files (number, rows), `mark` the export status |
| `FileHousekeeping` | the housekeeping function | `step` and `old` are its loop |
| `TarsSystem` | `TarsDispatch` and an instance of `FileHousekeeping` on the same two stores | steps interleave |
| `ChunkedUpload` | the Azure Files client's cutting of a content into ranges | a content is a sequence of UTF-16 units, a file a sequence of bytes |
| `TarsRecord` | CRM row to TARS candidate, between its two schemas | operators named as the functions |
| `DvaRecord` | CRM row to fixed-width record: filter, schema, conversion, columns | a value is its length, a text how much of it cleaning widens or removes, a score its sign, whole part and decimals |
| `BandScores` | the scores of an instructor result, from a truncated answer | rows in any order |
| `ErrorEvents` | the event an error is reported by; the errors of an SFTP call | an error is its chain of causes |
| `MCTarsDispatch`, `MCDvaDispatch`, `MCTarsSystem` | small instances | model values, the bound on idle runs, one search constraint |
| `Filtering` | `Array.filter` and the dropping of hyphens, used by `TarsRecord` and `BandScores` | by the place each kept element comes to; `SelectSeq` is recursive, and the provers know nothing of it |
| `Records` | the five stateless modules over any inputs | a state is an input; the inputs are constants |
| `MCRecords` | the inputs within bounds | |
| `TarsDispatch_proofs`, `TarsLog_proofs`, `DvaDispatch_proofs`, `TarsSystem_proofs`, `ResultsLog_proofs`, `Records_proofs` | the proofs | see 5 |
| `NaturalLemmas`, `FiniteRecursion` | nothing in the code: lemmas about sets of naturals, places, multiples and folds | see 5 |

`TarsDispatch` and `DvaDispatch` each have an instance `Log` of `ResultsLog` and
state `ImplementsLog == Log!Spec`.  The TARS mapping takes the correct files that
are on the share or were taken, the DVA mapping the files whose number was
stored, for only then is the number used.  A host that stops between file and
metadata, a failed verification and a half-done marking are stuttering steps,
`Append`, `Withdraw` or `Confirm` of the log.  What the log does not allow is
a number given twice, a file taken back with a marked record in it, or a record
marked that is not in the last file.

Every remote call is one action; what happens between two awaits is part of the
action before or after it.  A call that fails without effect and a stopped host
look the same to what remains, so both are `Abort` (`HousekeepingStops` in
`FileHousekeeping`).  Calls that can fail *with* an effect have actions of their
own: `UploadFails`, `UpdateChunkFails`, `PutFails`, `DeleteInvalid`, `FilesFail`.
In `TarsDispatch` a lost answer of `UploadMetadata` or `CreateFile` is the action
followed by `Abort`.

Abstractions:

- A record is a model value.  `Malformed` fails its schema, `Incomplete` fails
  it until title and gender are resolved, `Linked` is one part of a two-part
  (LGV, PCV) test.
- A file is what it was written for plus whether its bytes are intact.  The
  checksum comparison is equality of those.
- Days are counted.  A TARS name is (day, daily number, type), a DVA name is
  (day, number).  The order of strings is kept where it differs from that of
  numbers (`StringLess`) or decides something (`NameLess`).
- A query returns its rows in no stated order, so any subset of the right size.
- The array of the resolving loop is a set with an unknown order: removing the
  current element skips *some* element that is still pending, or none at the end.
- `ChunkedUpload` knows characters of one, two and three bytes and surrogate
  halves.  A lone half is encoded as U+FFFD (three bytes), as `Buffer` does.
- `TarsRecord` and `DvaRecord` leave out columns that are only copied.  A text is
  its length and how many of its characters cleaning replaces by two; a booking
  reference is kept as a sequence of characters, for its pattern and the session
  paper id tell them apart.
- `ErrorEvents` has one table of HTTP statuses: those of TARS and the DVA differ
  only in the names of the events.
- `status` "Pass" stands for any final status the results query accepts, pass
  or fail: nothing in the dispatcher depends on which.

Bounds, each named in its module: `MaxFailures` (invocations that end in an
error or a stop), `MaxDay`, `MaxIdle` (DVA invocations with nothing to send: each
sends a header and would count numbers up without end), `MaxHousekeepingFailures`.
The TARS consumer renaming, or the DVA removing, the file of a *running*
invocation makes that invocation fail and is charged to `MaxFailures`.

## 3. Runs

| run | checks | bounds and why they are enough |
|---|---|---|
| `tars_failures` | `TypeOK`, `SequenceUnique`, `SequenceContiguous`, `NamesInSequence`, `ImplementsLog` | one result gives two files (pass, then negation); three failures allow a failure on a reused number of a reused number, two days put midnight anywhere |
| `tars_window` | `OnceWithoutFailure`, `EventuallyDispatched` | window of two, three records, of which one malformed and one stuck; batches of one leave half-marked files |
| `tars_recovery` | `ProcessedDelivered`, `OnlyMalformedFail`, `EventuallyDispatched` | two records, one of them two-part, marked one at a time; one failure anywhere, then the timer goes on |
| `tars_gender` | violates `OnlyMalformedFail` | finding 1 |
| `dva_learner` | `TypeOK`, `DeliveredBelowHundred`, `RecordedInSequence`, `OnceWithoutFailure`, `LinkedResultsResolved`, `ImplementsLog` | two results, one two-part, one failure, one idle run, two days; file 98 is there from the start, so that the names run from 99 to 100 and beyond midnight from 1 |
| `dva_instructor` | `ProcessedDelivered`, `RecordedInSequence`, `ImplementsLog`, `EventuallyDispatched` | blob provided by hand, two failures, two days |
| `dva_poison` | `MalformedRecordsMarked` | one malformed beside one that makes each invocation throw |
| `dva_increment` | violates `ProcessedDelivered` | finding 3 |
| `dva_test_date` | violates `LinkedResultsResolved` | finding 2 |
| `system_numbers` | `SystemTypeOK`, `PlaceKept`, `NumbersKept`, `LogKept` | two results, the first a pass and the second then a negation (`OneOfEachKind`), so that there is an old file and a new one; a failure of each function, two days |
| `system_kept_file` | violates `LatestFileKept` | finding 4; `KeptFileSearch` narrows the search for the counterexample |
| `records` | the eight properties below | every input within the bounds, some 120,000 |

The run `records` evaluates the stateless modules:

| property | says | inputs |
|---|---|---|
| `UploadsExact` | an upload leaves the content's bytes on the share, or nothing if a piece ends inside a surrogate pair: never a damaged file | contents of up to five units, chunks of up to three: every alignment of a pair to a boundary, the first, an inner and the last |
| `TarsResolvedIfTold` | title and gender are found exactly if the row tells both and not by its licence alone: a row with neither title nor gender code is given up although a long licence tells its gender and so a title, because line 52 asks for the title before line 53 has a gender | all title codes and one unknown, both genders and unknown, licences of 0, 8, 16 |
| `TarsSchemasAgree` | what passes the record's schema passes the file's, with the right session paper id; references that begin with a hyphen excluded | 7 to 11 digits, hyphens at four places, three tails |
| `LearnerRecordsFit`, `InstructorRecordsFit` | exactly which records that pass their schema do not fit the columns; for instructors a surname, an address line or a post code that cleaning makes too long, or one of the six scores with a printed form of more than three characters | every product and status, lengths next to a limit in each of the texts, scores of one to four digits with and without a sign, none, one or two decimals, two of them varied beside each other |
| `ScoresRightOrWarned` | scores that go out wrong were warned about, unless the answer has no row of the result | two spellings of a band, another band, a foreign topic, a second result; any part of the rows in any order |
| `NearestEventReported` | the event logged is the nearest one in the chain, within the depth | chains of up to four errors, depths 0 (the default of 50) to 2 |
| `SftpFailureReported` | a failed SFTP call is reported by the step that failed, unless closing failed too | every call, every set of failing steps |

Deadlock is checked in every run.  The TARS timer always fires again; the DVA
runs have the step `IdleBoundReached` for the one place where the bound, not the
code, ends a behaviour.

Each property of a passing run comes with a mutant of one definition, a
plausible bug (a checksum not compared, a number not reused, one chunk instead
of all) under which TLC finds the property violated.

`PlaceKept` and `NumbersKept` assume `TakenCorrect`: TARS renamed only correct
files.  The share gives TARS no sign of when a file is complete, and without the
assumption `LatestFileKept` fails (finding 4), so the premise is what separates
the two.

### Fairness

`FairSpec` (`MCFairSpec` in the DVA runs) is the specification with weak
fairness of `Dispatcher`, the invocation's own steps including its start.
The timer starts the function again after every run and the code
has no wait of its own, so a dispatcher that can go on does go on.  Nothing is
assumed of the consumers, of the CRM's users, of the clock, or of failures, which
the bound makes finite: liveness says that leftovers of finitely many failures
never block the following invocations.  Housekeeping has no liveness property.

## 4. Findings

1. `tars_gender`: `tarsResultsDispatcher.ts:127` removes an element from the
   array that line 50 iterates.  The next record keeps an unresolved gender, fails
   the schema and is marked Failed Validation for good.
2. `dva_test_date`: `dvaResultsDispatcher.ts:87` does the same, and the record
   is sent with its own date rather than that of its other part.
3. `dva_increment`: `fixedWidthTextFileGenerator.ts:79` sorts `99.txt` above
   `100.txt`, so every learner file after number 100 of a day is named 100 and
   replaces the one before.  It takes a hundred starts in a day.
4. `system_kept_file`: `fileHousekeeping.ts:78` keeps the processed file whose
   *name* is last.  An incomplete negated file left by a stopped host, whose
   number was reused by a results file, sorts after it: once TARS has renamed
   both, the correct file of the latest blob is deleted and its number is
   given out again.

Met on the way and not violations of anything the repository states:

- An upload whose piece ends inside a surrogate pair is refused, on every try
  (`azureFilesClient.ts:82`); no file is damaged by it (`UploadsExact`).
- `DvaRecord` names the rows that pass their schema and stop every file
  (`fixedWidthTextFileGenerator.ts:41`); a booking reference that begins with a
  hyphen does the same to TARS (`tarsFile.schema.json:463`).
- A TARS row with neither title nor gender code is given up as failed validation
  although its 16-character licence tells the gender, and the gender a title: the
  title is asked for first (`tarsResultsDispatcher.ts:52`, `TarsResolvedIfTold`).
- `fixedWidthTextFileGenerator.ts:44` passes the properties with the event where
  `FileGenerationError` takes the cause, so that event is never logged.
- An error of `closeConnection` has no event and replaces the one of the
  operation, or the success of it (`baseSftpClient.ts:109`).
- A result none of whose band scores is in a truncated answer goes out with zeros
  and no warning, for the overall score defaults to zero as well.

One more behaviour is modelled and not counted as a violation: a result negated
while an invocation holds it is marked Processed although its negation was
not sent.  `raced` names such results, and `ProcessedDelivered` asks of them only
that they are in a delivered file.

## 5. Proofs

All theorems hold for every value of the constants that the named assumptions of
the modules allow (`ConstantsAssumption`, `HousekeepingAssumption`): every set of
results, window, batch size, number of failures and last day.

| theorem | states |
|---|---|
| `TarsDispatch_proofs`: `TypeCorrect` | `TypeOK` always |
| `Safety` | the inductive invariant `SafetyInv` always |
| `ProcessedAreDelivered` | a Processed result is in a correct file, delivered or still there, of its kind |
| `SequenceNumbersUnique`, `NamesFollowNumbers`, `NoGaps` | numbers of correct files are unique, sort as names do, have no gap |
| `TarsLog_proofs`: `ImplementsResultsLog` | `Spec => Log!Spec` |
| `NothingTwice` | `OnceWithoutFailure` |
| `DvaDispatch_proofs`: `TypeCorrect`, `StoredInSequence` | `TypeOK`, `RecordedInSequence` |
| `ImplementsResultsLog`, `NothingTwice` | as for TARS |
| `InstructorResultsDelivered` | `ProcessedDelivered`, assuming `~Learner` |
| `ResultsDeliveredBelowHundred` | `DeliveredBelowHundred`, learners included |
| `StuckAtHundred` | with file 99 still listed, and any other numbers up to 989, the next file is number 100: why the bound is a hundred (with file 100 alone it would be 101) |
| `SingleLinkedResolved` | `LinkedResultsResolved`, assuming at most one two-part result |
| `MalformedAloneFail` | `OnlyMalformedFail`, assuming that no two-part result and no *other* record with an open title or gender are about together |
| `TarsSystem_proofs`: `SystemTypeCorrect`, `PlaceIsKept`, `NumbersAreKept`, `LogIsKept` | `SystemTypeOK`, `PlaceKept`, `NumbersKept`, `LogKept` |
| `ResultsLog_proofs`: `LogCorrect` | a Processed record is in a file of the log, numbers are unique and gapless (assuming `First \in Nat`) |
| `Records_proofs`: `TarsAlwaysResolvedIfTold`, `TarsSchemasAlwaysAgree` | `TarsResolvedIfTold`, `TarsSchemasAgree`, for any option values, licence and reference |
| `LearnerRecordsAlwaysFit`, `InstructorRecordsAlwaysFit` | `LearnerRecordsFit`, `InstructorRecordsFit`, for texts of any lengths and scores of any size, sign and decimals |
| `ScoresAlwaysRightOrWarned` | `ScoresRightOrWarned`, for any finite tests and any part of their rows in any order |
| `UploadsAlwaysExact` | `UploadsExact`, for contents and chunks of any length |
| `NearestEventAlwaysReported`, `SftpFailureAlwaysReported` | `NearestEventReported`, `SftpFailureReported`, for chains of causes and depths of any length |

**TARS.**  None of the four numbering properties is inductive by itself.  That a
number is not given out twice rests on what `prepareNewBasicMetadata` sees: it
increments only if the file of the latest blob is found correct.  So the invariant
has to say where the files stand relative to the *latest blob*, at every step of
an invocation:

- `Frontier`: every correct file is either the file of the latest blob or has
  an earlier number and name.  A number may be reused exactly because of that.
- `LatestKept`: the correct file of the latest blob, once taken, is found under its
  processed name and not under the plain one; hence the two existence checks,
  with a rename between them, cannot both miss it (`Examining`).
- `Numbered`: when the number has been chosen, all correct files lie before it and
  no blob lies beyond.
- `Written`: while a file is written its blob is the latest, it is not yet
  a correct file, and every result already marked is in some *other* file, so a
  partial upload, a failed verification and the deletes harm none.

The proof goes through the ways in which storage changes (a rename, a write, a
delete, a new blob: `StorageRename`, `StorageWrite`, `StorageDelete`,
`StorageNumber`), shows that each keeps the storage part, and then goes through
the invocation's steps.

**The refinement** needs two facts more (`DispatchInv`): numbers start at the
default, and what an invocation holds is unmarked until the invocation itself
marks it.  Each action is then mapped to the log's action or to a stutter: the
completed upload (for the DVA, the storing of the number) to `Append`, the deletes
to `Withdraw`, the batches to `Confirm` and `Reject`, the CRM's negation to `Reopen`.  `LogCorrect`
says what that buys.

**Nothing twice.**  `OnceInv` says that the results of *older* files are settled
(marked, or negated since), so that no later query of the same kind returns one.

**DVA.**  `SequenceInv` ties the blob to the files whose number was stored: they
are exactly the numbers from the first to the blob's.  For instructors the name
is the number, so a put overwrites only the unrecorded file of a failed try
(`DeliveredInv`).  For learners the name is an increment of what was listed, and
`ProcessedDelivered` is false (finding 3): hence the assumption `~Learner`.  What
holds for them is `DeliveredBelowHundred`.  Its invariant (`NamingInv`) follows
a listing through midnight: until the listing is used, every file dated today is in
it (`ListingComplete`; after midnight there is none), so an increment of the highest
listed name is not the name of a recorded file below a hundred (`NameFresh`).
`StuckAtHundred` shows that nothing better can be said.

**The system.**  Housekeeping deletes the files and blobs that the dispatcher's
invariant speaks of.  `SystemInv` adds that whatever it still has to delete is
*superseded*: a file on its list is followed by a delivered one
(`FilesSuperseded`), a blob by a later blob (`BlobsSuperseded`).  That stays true
however the dispatcher and TARS go on, and `SafetyInv` survives the removal of what
is superseded.  It holds as long as TARS took only correct files (`TakenCorrect`);
`system_kept_file` shows that the premise is needed.

That the composition still *is* a log (`LoggedInv`, `LogIsKept`) takes the
refinement's invariant through housekeeping: a delete is a stutter of the log,
for a taken file stays in the log, and the dispatcher's next append still carries
the log's next number.

**Loops that remove from what they iterate.**  Findings 1 and 2 are theorems
turned round: `MalformedAloneFail` and `SingleLinkedResolved` say that removing a
record in front of another is the *only* way the loops go wrong.  The invariants
say that what the loop has left behind is resolved, or was skipped.

**Records.**  A state of `Records` is one input, so the invariant is only that
inputs are what the constants and their assumptions allow (`InputOK`); the work is
in the lemmas about the operators.  Three things about the model make those
provable:

- `Filter` says where each kept element comes to (`Place`).  `KeptPlaces` then
  gives what a proof about a filtered sequence needs: each place is
  that of one element.  `TarsSchemasAgree` is that argument twice, for the digits
  and for what is left without hyphens: the k-th digit of a reference that does not
  begin with a hyphen is element k + 1.
- A fold of the community modules is a recursive function over subsets.
  `FiniteRecursion` shows, for parameters `Base`, `Choice` and `Step`, that this
  function exists and unfolds.  An instance of the module with the fold's operators
  takes the place of an induction theorem with operator parameters, which the
  provers cannot use.  `SumUnfolds` gets the sum of band scores from it,
  `CatUnfolds` the joining of octets, `UploadedUnfolds` the upload of one chunk after another.
- Induction is over a *set* of naturals (`AllNaturals`), not over a predicate.

`ScoresRightOrWarned` then comes down to one inequality: each band's score is at
most the sum of its topics, so if the four scores add up to the total, each is that sum
and no topic is without a band.

`UploadsExact` compares two ways of writing a content: the octets of its units joined
(`Pieces`, `EncodeIsCat`), and those that the chunks add up to (`CutPieces`,
`ChunkJoins`), which differ only where a chunk ends inside a pair (`ChunkPieces`).
After each chunk the upload has either written exactly what was joined so far, or
it was refused because that is longer than the whole file (`UploadOK`,
`RangeUploaded`).  So all turns on one count: a split pair of four octets is written
as two replacements of three, hence with any split the sum is longer than the file
(`CutLonger`), whatever else follows, and without one it is the file.  The proof does not
use that halves come in pairs: a lone half is a replacement in both ways of writing.

Only model-checked: all liveness (`EventuallyDispatched`, `MalformedRecordsMarked`),
which with fairness and ENABLED is out of the proof system's reach, and
`ProcessedDelivered` for learners, which is false.  Every other property of a passing
run is a theorem, some under the assumption named above.

## 6. Not modelled, and why

- Layout of XML and fixed-width records, columns that are copied, dates and
  logging: data that no property tells apart.  With the dates goes a birth date
  that is no date: any string passes the record's schema, and
  `candPersonalDetails.ts:30` throws on it.
- That the XML declares iso-8859-1 and is written as UTF-8
  (`xmlTestResultsFileGenerator.ts:101`): what a reader makes of it is outside.
- Healthcheck: stateless, three probes and a status of 200, 503 or 500.
- The blob stand-in for the SFTP server in development, observability,
  configuration, egress filter.
- Two overlapping invocations of one function (a manual start during the
  timer's): a singleton timer does not do it; listed as a hazard.
- A query window full of two-part results whose other part never passes: the
  rest then waits, by design of the query.
- The retry proxy around the CRM calls: a batch applied twice is the same as
  once; a batch that fails after a partial effect is modelled.  What the library
  sends on a retry is its own affair.
- The outer join on licences may return one result as two rows; a result is taken
  to be one row.
- Sequence numbers of eight digits, daily numbers from 1000 on.

## 7. What is left

The order of the work was: `TarsDispatch` with its proofs, for numbering and
delivery are what the program is for; `DvaDispatch`; `FileHousekeeping` and
`TarsSystem`; the abstract `ResultsLog` and both refinements; the proofs about
the DVA dispatcher and the composed system; the stateless modules.

Left, in order of worth:

1. A system with two overlapping invocations of one function, to say what the
   singleton timer is needed for.
2. A result returned as two rows by the join on licences.
