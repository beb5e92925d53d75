--------------------------- MODULE QualityScores ---------------------------
(***************************************************************************)
(* The two ways the quality package scores a sentence, in percent.         *)
(* UncertaintyScorer (uncertainty.py, with consistency.py) asks a backend  *)
(* three times and measures how far the replies agree; QualityEvaluator    *)
(* (evaluator.py, with metrics/custom) holds an output against the fixture *)
(* of the golden dataset.  A reply is a function from its fields; a text   *)
(* is one word.                                                            *)
(***************************************************************************)
EXTENDS Integers, Sequences, FiniteSetsExt, SequencesExt

Total(s) == FoldSeq(+, 0, s)
Least(S) == Min(S)

-----------------------------------------------------------------------------
(* ConsistencyCalculator.                                                  *)

\* The root of n, or 100 when that is less.
Root(n) == IF n >= 10000 THEN 100 ELSE CHOOSE r \in 0..99 : r * r <= n /\ n < (r + 1) * (r + 1)

\* 1 less the coefficient of variation, n values of sum s.
NumericConsistency(values) ==
    LET n == Len(values)
        s == Total(values)
        spread == n * Total([i \in 1..n |-> values[i] * values[i]]) - s * s
    IN CASE n < 2 -> 0
         [] n >= 2 /\ s = 0 -> IF spread = 0 THEN 100 ELSE 0
         [] OTHER -> 100 - Root((10000 * spread) \div (s * s))

CategoricalConsensus(values) ==
    LET times(v) == Len(SelectSeq(values, LAMBDA x : x = v))
    IN (100 * Max({times(values[i]) : i \in DOMAIN values})) \div Len(values)

\* The mean similarity of the pairs: 1 for the same word, 0 for two.
TextualConsistency(values) ==
    LET pairs == {p \in (DOMAIN values) \X (DOMAIN values) : p[1] < p[2]}
    IN (100 * Cardinality({p \in pairs : values[p[1]] = values[p[2]]})) \div Cardinality(pairs)

-----------------------------------------------------------------------------
(* UncertaintyScorer.                                                      *)

\* The manipulation score has another name in the list of numeric fields than
\* in the replies, so it is compared as a text.
NumericFields == {"sentiment", "risk"}
CategoricalFields == {"potential", "tone"}

Weight(f) ==
    CASE f = "risk" -> 30 [] f = "sentiment" -> 20
      [] f \in {"framing", "tone"} -> 15
      [] f = "potential" -> 5
      [] OTHER -> 10

\* What is no JSON is not used.
Unusable == [f \in {} |-> 0]

FieldScore(outputs, f) ==
    LET values == [i \in DOMAIN SelectSeq(outputs, LAMBDA o : f \in DOMAIN o) |->
                      SelectSeq(outputs, LAMBDA o : f \in DOMAIN o)[i][f]]
    IN CASE Len(values) < 2 -> 0
         [] Len(values) >= 2 /\ f \in NumericFields -> NumericConsistency(values)
         [] Len(values) >= 2 /\ f \in CategoricalFields -> CategoricalConsensus(values)
         [] OTHER -> TextualConsistency(values)

FieldScores(outputs) ==
    [f \in UNION {DOMAIN outputs[i] : i \in DOMAIN outputs} |-> FieldScore(outputs, f)]

Confidence(scores) ==
    LET weighted == MapThenSumSet(LAMBDA f : scores[f] * Weight(f), DOMAIN scores)
        weights == MapThenSumSet(Weight, DOMAIN scores)
    IN IF weights = 0 THEN 0 ELSE weighted \div weights

Recommendation(confidence, scores) ==
    LET present == {"risk", "sentiment"} \cap DOMAIN scores
        critical == IF present = {} THEN confidence ELSE Least({scores[f] : f \in present})
    IN CASE confidence >= 80 /\ critical >= 70 -> "ACCEPT"
         [] confidence >= 60 /\ critical >= 50 /\ ~(confidence >= 80 /\ critical >= 70) -> "REVIEW"
         [] OTHER -> "REJECT"

\* score_sentence: three replies, of which two must be usable.
ScoreSentence(replies) ==
    LET outputs == SelectSeq(replies, LAMBDA r : r # Unusable)
        scores == FieldScores(outputs)
    IN IF Len(outputs) < 2 THEN [confidence |-> 0, recommendation |-> "REJECT"]
       ELSE [confidence |-> Confidence(scores),
             recommendation |-> Recommendation(Confidence(scores), scores)]

\* _call_ai_with_temperature: no backend is asked, but for the mocks of the
\* tests; these are the replies at 0.3, 0.5 and 0.7.
Canned == [i \in 1..3 |->
    [sentiment |-> <<-17, -15, -13>>[i], risk |-> <<5, 6, 6>>[i],
     potential |-> <<"medium", "medium", "high">>[i], tone |-> <<"defensive", "assertive", "assertive">>[i],
     manipulation |-> <<"0.33", "0.35", "0.37">>[i], framing |-> "security_frame", topic |-> "security"]]

-----------------------------------------------------------------------------
(* QualityEvaluator.  What an output and its fixture have in common: the   *)
(* differences of their scores, or Missing, how their risk levels and      *)
(* topics relate, and the number of fields of the output.                  *)

Missing == -1

Metric(score, threshold) == [score |-> score, passed |-> score >= threshold]

\* Every further 30 hundredths halve the score; straight in between.
SentimentAgreement(diff) ==
    LET beyond == diff - 30
        start == 80 \div 2^(beyond \div 30)
    IN CASE diff = Missing -> Metric(0, 80)
         [] diff \in 0..30 -> Metric(100 - (2 * diff) \div 3, 80)
         [] OTHER -> Metric(start - (start * (beyond % 30)) \div 60, 80)

\* 0.7 * 0.8^((diff - 2) / 2) for a difference of 3 to 10.
FarRisk == <<62, 56, 50, 44, 40, 35, 32, 28>>

RiskCalibration(diff, levels) ==
    LET near == IF diff <= 2 THEN 100 - 15 * diff ELSE FarRisk[diff - 2]
        bonus == CASE levels = "same" -> 10 [] levels = "adjacent" -> 5 [] OTHER -> 0
    IN IF diff = Missing THEN Metric(0, 70) ELSE Metric(Min({100, near + bonus}), 70)

TopicAccuracy(topic) ==
    Metric(CASE topic = "same" -> 100 [] topic = "group" -> 80 [] topic = "words" -> 60
             [] topic = "part" -> 50 [] topic = "apart" -> 20 [] topic = "missing" -> 0, 85)

(* TopicCoherenceEvaluator.measure takes keywords and a corpus, and is     *)
(* given the output and the fixture: it looks for the names of the fields, *)
(* in capitals, in the names of the fixture's fields in lower case.        *)
TopicCoherence(fields) == IF fields < 2 THEN Metric(100, 50) ELSE Metric(0, 50)

MetricWeights == <<25, 20, 15, 10, 15, 10, 10>>

\* The three metrics of deepeval are the last ones.
Evaluate(output, deepeval) ==
    LET metrics == <<SentimentAgreement(output.sentiment), RiskCalibration(output.risk, output.levels),
                     TopicAccuracy(output.topic), TopicCoherence(output.fields)>> \o deepeval
        overall == Total([i \in 1..7 |-> metrics[i].score * MetricWeights[i]]) \div Total(MetricWeights)
    IN [overall |-> overall, passed |-> overall >= 80 /\ \A i \in 1..7 : metrics[i].passed]
=============================================================================
