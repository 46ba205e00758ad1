----------------------------- MODULE BandScores -----------------------------
(***************************************************************************)
(* The scores of an instructor result.  They come from a query of their    *)
(* own, with one row for each result and topic, cut off at the fetch count *)
(* like any other and in no stated order.  Each row also has the total of  *)
(* its result.  A topic is a band and a spelling; what none of the four    *)
(* configured topics names is of band 0.                                   *)
(***************************************************************************)
EXTENDS Integers, Sequences, FiniteSets, SequencesExt, Filtering

Bands == 1..4

\* A test is the score of each topic that occurs in it.
IsTest(test) ==
    /\ IsFiniteSet(DOMAIN test)
    /\ \A topic \in DOMAIN test : topic \in [band : Nat, spelling : Nat] /\ test[topic] \in Nat

Total(test) == SumFunction(test)

TrueScore(test, band) ==
    SumFunctionOnSet(test, {topic \in DOMAIN test : topic.band = band})

Row(id, test, topic) ==
    [id |-> id, topic |-> topic, score |-> test[topic], total |-> Total(test)]

ScoreRows(id, test) == {Row(id, test, topic) : topic \in DOMAIN test}

----------------------------------------------------------------------------
\* Mutant of GetBandScoreByTopic: spellings are compared as they are.
GetBandScoreByExactTopic(band, rows) ==
    LET found == SelectInSeq(rows, LAMBDA row : row.topic = [band |-> band, spelling |-> 1])
    IN  IF found = 0 THEN 0 ELSE rows[found].score

\* The first row whose topic is the band's when case and punctuation are dropped.
GetBandScoreByTopic(band, rows) ==
    LET found == SelectInSeq(rows, LAMBDA row : row.topic.band = band)
    IN  IF found = 0 THEN 0 ELSE rows[found].score

\* Whether checkBandScoresEqualOverallScore logs a warning.
Mismatch(bandScores, overallScore) == SumFunction(bandScores) # overallScore

PopulateBandScores(id, answer) ==
    LET rows         == Filter(answer, LAMBDA row : row.id = id)
        bandScores   == [band \in Bands |-> GetBandScoreByTopic(band, rows)]
        overallScore == IF rows = <<>> THEN 0 ELSE rows[1].total
    IN  [bandScores   |-> bandScores,
         overallScore |-> overallScore,
         warned       |-> Mismatch(bandScores, overallScore)]

----------------------------------------------------------------------------
\* However the answer is cut off and ordered, and whatever belongs to other
\* results in it: a result whose scores go out wrong was warned about, except one
\* of which the answer has no row at all and which goes out with zeros; and with
\* all its rows, each band spelled once, the scores are right and nothing is
\* warned about.
ScoresRightOrWarned(id, test, answer) ==
    LET sent     == PopulateBandScores(id, answer)
        right    == /\ \A band \in Bands : sent.bandScores[band] = TrueScore(test, band)
                    /\ sent.overallScore = Total(test)
        returned == ScoreRows(id, test) \intersect ToSet(answer)
    IN  /\ ~right => sent.warned \/ returned = {}
        /\ /\ returned = ScoreRows(id, test)
           /\ \A topic \in DOMAIN test : topic.band \in Bands
           /\ \A s, t \in DOMAIN test : s.band = t.band => s = t
           => right /\ ~sent.warned
=============================================================================
