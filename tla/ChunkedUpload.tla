--------------------------- MODULE ChunkedUpload ---------------------------
(***************************************************************************)
(* How the Azure Files client writes a results file: it creates a file of  *)
(* the content's UTF-8 length, cuts the content by UTF-16 units and        *)
(* uploads each piece at the offset that the bytes before it add up to.    *)
(* Content is a sequence of units: characters of one, two and three bytes, *)
(* and the halves of a surrogate pair.                                     *)
(***************************************************************************)
EXTENDS Integers, Sequences, SequencesExt

Bytes == [ascii |-> 1, latin |-> 2, other |-> 3, pair |-> 4, replacement |-> 3]

NoFile == <<"no file">>

Surrogates == {"high", "low"}

Units == {"ascii", "latin", "other"} \union Surrogates

\* Units i and i + 1 are one character.
PairAt(content, i) ==
    {i, i + 1} \subseteq DOMAIN content /\ content[i] = "high" /\ content[i + 1] = "low"

\* The character a unit begins.  A lone half is written as U+FFFD.
Character(content, i) ==
    CASE PairAt(content, i)         -> "pair"
      [] content[i] \notin Surrogates -> content[i]
      [] OTHER                      -> "replacement"

\* UTF-8; the second half of a pair adds nothing.
Encode(content) ==
    FlattenSeq([i \in DOMAIN content |->
        IF PairAt(content, i - 1) THEN <<>>
        ELSE [k \in 1..Bytes[Character(content, i)] |-> <<Character(content, i), k>>]])

ByteLength(content) == Len(Encode(content))

NumChunks(content, chunkSize) == (Len(content) + chunkSize - 1) \div chunkSize

ChunkContent(content, chunkSize) ==
    [i \in 1..NumChunks(content, chunkSize) |->
        SubSeq(content, (i - 1) * chunkSize + 1,
               IF i * chunkSize < Len(content) THEN i * chunkSize ELSE Len(content))]

\* The service fills a new file with zeros and refuses a range beyond its end;
\* after a refusal the client sends no more.
EmptyFile(length) == [k \in 1..length |-> <<"zero", 0>>]

Refused(upload, bytes) == upload.offset + Len(bytes) > Len(upload.file)

Overwrite(file, offset, bytes) ==
    [k \in DOMAIN file |->
        IF k - offset \in DOMAIN bytes THEN bytes[k - offset] ELSE file[k]]

\* Mutant of UploadRange: offsets counted in units, as the chunks are.
UploadRangeByUnits(upload, chunk) ==
    LET bytes == Encode(chunk)
    IN  IF ~upload.accepted \/ Refused(upload, bytes)
        THEN [upload EXCEPT !.accepted = FALSE]
        ELSE [upload EXCEPT !.file = Overwrite(@, upload.offset, bytes),
                            !.offset = @ + Len(chunk)]

UploadRange(upload, chunk) ==
    LET bytes == Encode(chunk)
    IN  IF ~upload.accepted \/ Refused(upload, bytes)
        THEN [upload EXCEPT !.accepted = FALSE]
        ELSE [upload EXCEPT !.file = Overwrite(@, upload.offset, bytes),
                            !.offset = @ + Len(bytes)]

UploadFileInChunks(content, chunkSize) ==
    FoldLeft(UploadRange,
             [file |-> EmptyFile(ByteLength(content)), offset |-> 0, accepted |-> TRUE],
             ChunkContent(content, chunkSize))

\* What the share holds after uploadFile: an upload that fails is deleted.
UploadFile(content, chunkSize) ==
    LET upload == UploadFileInChunks(content, chunkSize)
    IN  IF upload.accepted THEN upload.file ELSE NoFile

----------------------------------------------------------------------------
\* Text that the CRM can hold: every half of a pair has its other half.
WellFormed(content) ==
    \A i \in DOMAIN content : content[i] \in Surrogates =>
        PairAt(content, i) \/ PairAt(content, i - 1)

SplitsPair(content, chunkSize) ==
    \E i \in DOMAIN content : PairAt(content, i) /\ i % chunkSize = 0

\* The cutting never damages a file: either no piece ends inside a pair, and the
\* share holds the content's bytes without a gap or an overlap, or some piece
\* does, the ranges come out longer than the file and nothing is left of it.
UploadExact(content, chunkSize) ==
    UploadFile(content, chunkSize) =
        IF SplitsPair(content, chunkSize) THEN NoFile ELSE Encode(content)
=============================================================================
