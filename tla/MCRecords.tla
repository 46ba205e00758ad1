----------------------------- MODULE MCRecords -----------------------------
(* Bounded inputs of Records for TLC.                                        *)
EXTENDS Records

CONSTANTS
    MaxUnits,       \* bound: UTF-16 units of an uploaded content
    MaxCauses,      \* bound: errors in a chain of causes
    MaxScore        \* bound: score of one topic

MCContents == {content \in BoundedSeq(Upload!Units, MaxUnits) : Upload!WellFormed(content)}

\* Titles the CRM has, and a code it does not; genders, one of them unknown; no
\* licence, a short one, a long one.
PersonRows ==
    [title : {0} \union Tars!CrmTitleBase..(Tars!CrmTitleBase + 6), gendercode : 1..3,
     licence : [length : {0, 8, 16}, seventh : {"0", "1", "2", "5", "6"}],
     reference : {<<"B", "1", "2", "3", "4", "5", "6", "7", "8", "9">>},
     teststatus : {1, 2, 5}, textlanguage : {0, 1, 2}]

\* A first character, then n digits with hyphens before some of them, then a tail.
Reference(first, n, hyphens, tail) ==
    <<first>> \o FlattenSeq([k \in 1..n |->
        (IF k \in hyphens THEN <<"-">> ELSE <<>>) \o <<ToString(k % 10)>>]) \o tail

ReferenceRows ==
    [title : {Tars!CrmTitleBase}, gendercode : {1},
     licence : {[length |-> 16, seventh |-> "0"]},
     reference : {Reference(first, n, hyphens, tail) :
                     first \in {"B", "-", "1"}, n \in 7..11,
                     hyphens \in SUBSET {1, 2, 4, 9}, tail \in {<<>>, <<"-">>, <<"B">>}},
     teststatus : {2}, textlanguage : {1}]

MCTarsRows == PersonRows \union ReferenceRows

Names == [plain : {0, 1, 41, 42, 43, 44}, wide : 0..2, blank : 0..1]

MCLearnerRows ==
    [product : Dva!TwoPartProducts \union Dva!SinglePartProducts \union Dva!InstructorProducts,
     status : 1..5, certificate : {Dva!Missing, 1, 9, 10}, driverNumber : {8, 16},
     firstName : {0, 1, 2}, lastName : {[plain |-> 5, wide |-> 0, blank |-> 0]},
     title : {"none"}, otherTitle : {"none", "sister"}]
    \union
    [product : {"CAR"}, status : {2}, certificate : {9}, driverNumber : {Dva!Missing, 7, 16, 17},
     firstName : {Dva!Missing, 1}, lastName : Names,
     title : {"mr", "mx"}, otherTitle : {"none"}]

Short == [plain |-> 5, wide |-> 0, blank |-> 0]

\* Numbers next to the limits of a column of three.
MCNumbers ==
    {n \in [minus : 0..1, whole : {0, 1, 9, 10, 99, 100, 999, 1000}, decimals : 0..2] :
        n.minus = 1 => n.whole > 0 \/ n.decimals > 0}

Seventy == [minus |-> 0, whole |-> 70, decimals |-> 0]

Bands(numbers) == {[[k \in 1..4 |-> Seventy] EXCEPT ![i] = n] : i \in 1..4, n \in numbers}

Lines(texts) ==
    {[[k \in 1..5 |-> Dva!NoText] EXCEPT ![1] = Short, ![i] = text] : i \in 1..5, text \in texts}

MCLines == [plain : {0, 28, 29, 30, 31}, wide : 0..2, blank : 0..1] \union {Dva!NoText}

MCPostCodes == [plain : {0, 8, 9, 10, 11}, wide : 0..2, blank : 0..1] \union {Dva!NoText}

\* The values that may not fit, varied beside one another.
MCInstructorRows ==
    [driverNumber : {Dva!Missing, 7, 8, 16, 17}, lastName : Names, addressLine : Lines({Short}),
     postCode : {Short}, paymentReferenceNumber : {Dva!Missing, 0, 1, 16, 17},
     bandScore : Bands({Seventy}), overallScore : {Seventy}, hptScore : {Seventy}]
    \union
    [driverNumber : {16}, lastName : {Short}, addressLine : Lines(MCLines),
     postCode : MCPostCodes, paymentReferenceNumber : {12},
     bandScore : Bands({Seventy}), overallScore : {Seventy}, hptScore : {Seventy}]
    \union
    [driverNumber : {16}, lastName : {Short}, addressLine : Lines({Short}),
     postCode : {Short}, paymentReferenceNumber : {12},
     bandScore : Bands(MCNumbers), overallScore : {Seventy},
     hptScore : MCNumbers \union {Dva!NoNumber}]
    \union
    [driverNumber : {16}, lastName : {Short}, addressLine : Lines({Short}),
     postCode : {Short}, paymentReferenceNumber : {12},
     bandScore : Bands({Seventy}), overallScore : MCNumbers, hptScore : MCNumbers]

\* Two spellings of one band, another band, and a topic of no band.
Topics == {[band |-> 1, spelling |-> 1], [band |-> 1, spelling |-> 2],
           [band |-> 2, spelling |-> 2], [band |-> 0, spelling |-> 1]}

MCTests == UNION {[topics -> 0..MaxScore] : topics \in SUBSET Topics}

MCOtherRows == Scores!ScoreRows("r2", [topic \in {[band |-> 2, spelling |-> 1]} |-> 1])

MCLinks ==
    {Errors!Link(class, event, 0) :
        class \in {"CrmError", "CustomError"}, event \in {Errors!None, "event 1", "event 2"}}
    \union {Errors!Link("Error", Errors!None, status) : status \in {0, 400, 401, 403, 404, 429, 500}}
    \union {Errors!Link("Error", "event 2", 0)}

MCChains ==
    UNION {[1..n -> MCLinks] : n \in 1..2}
    \union {chain \in UNION {[1..n -> {link \in MCLinks : link.status = 0}] : n \in 3..MaxCauses} :
               chain[1].class # "Error"}
=============================================================================
