--------------------------- MODULE QualityPipeline ---------------------------
(***************************************************************************)
(* QualityPipeline.process_transcript (quality/pipeline.py): contracts on  *)
(* the transcript and on the analyses, uncertainty, golden fixtures, flags *)
(* for risk, drift.  Every step may flag a sentence for review; what the   *)
(* queue does with a flag is ReviewQueue's: it keeps the first one.        *)
(***************************************************************************)
EXTENDS QualityScores

CONSTANTS
    Results,        \* what the analyses of a transcript may be
    Replies,        \* what a mocked backend may reply
    MaxResults      \* bound: analyses of one transcript

(* An analysis: its sentence, or NoId; its risk score, 0 to 10, Missing or *)
(* NoNumber; its risk level; whether it carries a grave anomaly; whether it  *)
(* has columns the contract does not know, panel_id among them; and what   *)
(* it has in common with the fixture of its sentence, or NoFixture.        *)
NoId == "none"
NoFixture == [fields |-> 0]
NoNumber == -2

\* No sentence has the name of a fixture or one that a sentence without id gets.
ASSUME ResultsAssumption == \A r \in Results : r.id \notin {"generated", "fixture"}

VARIABLE transcript     \* one call: its results and how far it is

quality == <<transcript>>

QualityInit ==
    /\ \E n \in 0..MaxResults : \E results \in [1..n -> Results] :
          transcript = [at |-> "input", results |-> results, next |-> 1, verdicts |-> <<>>, calls |-> <<>>,
                        reports |-> <<>>, issues |-> 0, valid |-> TRUE, errors |-> {}]

-----------------------------------------------------------------------------
\* Text compared with 7 is a TypeError.
Grave(r) ==
    (IF r.risk \in 7..10 THEN {"HIGH_RISK"} ELSE {})
    \cup (IF r.level \in {"high", "critical"} THEN {"CRITICAL_RISK"} ELSE {})
    \cup (IF r.anomaly THEN {"CRITICAL_ANOMALY"} ELSE {})

Priority == <<"CRITICAL_RISK", "CRITICAL_ANOMALY", "HIGH_RISK", "QUALITY_FAILURE", "LOW_UNCERTAINTY">>

First(order, triggers) ==
    IF triggers = {} THEN "none" ELSE order[Min({i \in DOMAIN order : order[i] \in triggers})]

\* Mutant: the trigger of the step at hand comes first.
GravestLast(triggers) == First(Reverse(Priority), triggers)

\* should_flag_for_review returns one trigger of those that apply.
Gravest(triggers) == First(Priority, triggers)

NoOutput == [id |-> NoId, risk |-> Missing, level |-> "none", anomaly |-> FALSE,
             extra |-> FALSE, fixture |-> NoFixture]

\* next(r for r in results if r.get("sent_id") == id), or {}.
OutputOf(id) ==
    LET found == {i \in DOMAIN transcript.results : transcript.results[i].id = id /\ id # NoId}
    IN IF found = {} THEN NoOutput ELSE transcript.results[Min(found)]

\* One flag_sentence, when there is a reason.
Flagged(t, id, trigger) == IF trigger = "none" THEN t ELSE [t EXCEPT !.calls = Append(@, [id |-> id, trigger |-> trigger])]

PipelineError(t) == [t EXCEPT !.at = "done", !.errors = @ \cup {"pipeline"}]
Next1(t) == [t EXCEPT !.next = @ + 1]
Step(at, t) == [t EXCEPT !.at = at, !.next = 1]

-----------------------------------------------------------------------------
\* A transcript too short, of too few lines, without a speaker, or too large.
InputRefused ==
    /\ transcript.at = "input"
    /\ transcript' = [transcript EXCEPT !.at = "done", !.valid = FALSE, !.errors = {"input"}]

\* The schema is strict: a column it does not name fails, and so does a missing
\* one.  What fails is noted and used all the same.
Conforms(results) == results # <<>> /\ \A i \in DOMAIN results : ~results[i].extra /\ results[i].id # NoId

ValidateOutput ==
    /\ transcript.at = "input"
    /\ transcript' = Step("scoring",
          IF Conforms(transcript.results) THEN transcript
          ELSE [transcript EXCEPT !.valid = FALSE, !.errors = {"output"}])

\* score_batch: five at a time, the scores in the order of the sentences.
ScoreBatch ==
    /\ transcript.at = "scoring" /\ transcript.next \in DOMAIN transcript.results
    /\ \E replies \in {<<Canned[1], Canned[2], Canned[3]>>} \cup [1..3 -> Replies] :
          transcript' = Next1([transcript EXCEPT !.verdicts = Append(@, ScoreSentence(replies))])

EndScoring ==
    /\ transcript.at = "scoring" /\ transcript.next \notin DOMAIN transcript.results
    /\ transcript' = Step("uncertain", transcript)

\* A sentence without id got one of its own, under which nothing is found.
FlagUncertain ==
    /\ transcript.at = "uncertain" /\ transcript.next \in DOMAIN transcript.results
    /\ LET id == transcript.results[transcript.next].id
           output == OutputOf(id)
           verdict == transcript.verdicts[transcript.next]
           low == IF verdict.confidence < 50 THEN {"LOW_UNCERTAINTY"} ELSE {}
       IN \/ /\ verdict.recommendation = "ACCEPT"
             /\ transcript' = Next1(transcript)
          \/ /\ verdict.recommendation # "ACCEPT" /\ output.risk = NoNumber
             /\ transcript' = PipelineError(transcript)
          \/ /\ verdict.recommendation # "ACCEPT" /\ output.risk # NoNumber
             /\ transcript' = Next1(Flagged(transcript, IF id = NoId THEN "generated" ELSE id,
                                           Gravest(Grave(output) \cup low)))

\* The dataset is read and validated, which may raise.
LoadFixtures ==
    /\ transcript.at = "uncertain" /\ transcript.next \notin DOMAIN transcript.results
    /\ \/ transcript' = Step("evaluating", transcript)
       \/ transcript' = PipelineError(transcript)

Matched == {i \in DOMAIN transcript.results : transcript.results[i].fixture # NoFixture}

DeepEval == {<<Metric(100, 70), Metric(100, 70), Metric(100, 70)>>, <<Metric(0, 70), Metric(0, 70), Metric(0, 70)>>}

EvaluateBatch ==
    /\ transcript.at = "evaluating"
    /\ \E deepeval \in DeepEval :
          transcript' = Step("failing", [transcript EXCEPT !.reports =
              [i \in Matched |-> Evaluate(transcript.results[i].fixture, deepeval)]])

\* The output is looked up under the name of the fixture and not found, so only
\* the failure is a reason, and the flag goes to a sentence of that name.
FlagFailing ==
    /\ transcript.at = "failing" /\ transcript.next \in DOMAIN transcript.results
    /\ transcript' =
          IF transcript.next \in Matched /\ ~transcript.reports[transcript.next].passed
          THEN Next1(Flagged([transcript EXCEPT !.issues = @ + 1], "fixture", Gravest({"QUALITY_FAILURE"})))
          ELSE Next1(transcript)

EndFailing ==
    /\ transcript.at = "failing" /\ transcript.next \notin DOMAIN transcript.results
    /\ transcript' = Step("auto", transcript)

AutoFlag ==
    /\ transcript.at = "auto" /\ transcript.next \in DOMAIN transcript.results
    /\ LET r == transcript.results[transcript.next]
       IN transcript' = IF r.risk = NoNumber THEN PipelineError(transcript)
                        ELSE Next1(Flagged(transcript, r.id, Gravest(Grave(r))))

\* Only for a panel, which the contract does not know; it may fail on its own.
Temporal ==
    /\ transcript.at = "auto" /\ transcript.next \notin DOMAIN transcript.results
    /\ \/ transcript' = Step("done", transcript)
       \/ /\ transcript.results # <<>> /\ transcript.results[1].extra
          /\ transcript' = Step("done", [transcript EXCEPT !.errors = @ \cup {"temporal"}])

QualityNext ==
    \/ InputRefused \/ ValidateOutput \/ ScoreBatch \/ EndScoring \/ FlagUncertain \/ LoadFixtures
    \/ EvaluateBatch \/ FlagFailing \/ EndFailing \/ AutoFlag \/ Temporal

-----------------------------------------------------------------------------
\* Unless the transcript is refused or the pipeline breaks off, every grave
\* sentence that can be told from the others is flagged, and the first flag it
\* gets, which is the one the queue keeps, names the gravest of its reasons:
\* no earlier step (low confidence) takes the place of a later one (risk).
GraveAreFlagged ==
    transcript.at = "done" /\ transcript.errors \cap {"input", "pipeline"} = {} =>
        \A i \in DOMAIN transcript.results :
            LET r == transcript.results[i]
                mine == {k \in DOMAIN transcript.calls : transcript.calls[k].id = r.id}
            IN /\ r.id # NoId /\ Grave(r) # {}
               /\ \A j \in DOMAIN transcript.results \ {i} : transcript.results[j].id # r.id
               => mine # {} /\ transcript.calls[Min(mine)].trigger = First(Priority, Grave(r))

\* An output that is its fixture passes when the metrics of deepeval do
\* (tests/quality/test_quality_evaluator.py:80).
PerfectPasses ==
    \A i \in DOMAIN transcript.reports :
        /\ transcript.results[i].fixture.sentiment = 0 /\ transcript.results[i].fixture.risk = 0
        /\ transcript.results[i].fixture.levels = "same" /\ transcript.results[i].fixture.topic = "same"
        /\ transcript.reports[i].overall >= 80
        => transcript.reports[i].passed
=============================================================================
