--------------------------- MODULE AnomalyScoring ---------------------------
(***************************************************************************)
(* CrossAnomalyService.detect (domain/services/cross_anomaly_service.py):  *)
(* five rules add to a score, and score and risk make the risk level, with *)
(* an escalation.  And the contradiction measure that the container offers *)
(* on its own (infrastructure/nlp/cross_anomaly_service_impl.py).  Scores  *)
(* are in percent; the polarity of a sentence is VADER's, and an input.    *)
(***************************************************************************)
EXTENDS Integers, Sequences, FiniteSetsExt, SequencesExt

CONSTANTS
    Sentiments, RiskScores,  \* what the AI may say, NoScore among them
    Polarities,         \* polarities of the sentences of an analysis
    Cues,               \* its negation cues
    Powers,             \* power indices with the key of each, as inserted
    Signals             \* its risk signals

VARIABLE detection      \* one call of detect

scoring == <<detection>>

NoScore == -1000

\* The ranges of the fields of Analysis and PowerIndex.
ASSUME ScoringAssumption ==
    /\ Sentiments \subseteq (-100..100) \cup {NoScore}
    /\ RiskScores \subseteq (0..100) \cup {NoScore}
    /\ Polarities \subseteq Seq(-100..100)
    /\ Cues \subseteq Seq([type : STRING, confident : BOOLEAN, scoped : BOOLEAN])
    /\ Powers \subseteq Seq([of : STRING, index : Nat])

Analyses == [sentiment : Sentiments, risk : RiskScores, polarities : Polarities,
             cues : Cues, powers : Powers, signals : Signals]

Effective(score) == IF score = NoScore THEN 0 ELSE score
HasAiOutput(a) == a.sentiment # NoScore \/ a.risk # NoScore

SumOf(s) == FoldSeq(+, 0, s)
Distance(x, y) == IF x < y THEN y - x ELSE x - y
AtMost(x, bound) == IF x > bound THEN bound ELSE x
Nothing == 0

-----------------------------------------------------------------------------
(* The contradiction measure of Tsytsarau with theta 0.1 and a window of   *)
(* all n sentences: (n m2 - m1^2) / ((0.1 n^2 + m1^2) n).                  *)
Contradiction(p) ==
    LET n == Len(p)
        s == SumOf(p)
        q == SumOf([i \in 1..n |-> p[i] * p[i]])
    IN (100 * (q * n * n - s * s)) \div ((1000 * n * n * n * n + s * s) * n)

\* How much of a contradiction a negation explains.
Explains(cue) ==
    CASE cue.type = "semantic" /\ cue.confident -> 35
      [] cue.type = "surface" /\ ~cue.scoped -> 25
      [] cue.type = "syntactic" /\ cue.scoped -> 20
      [] cue.type = "scope_wide" -> 10
      [] OTHER -> 0

NegationAdjustment(cues, n) ==
    AtMost(SumOf([i \in DOMAIN cues |-> Explains(cues[i])]) \div n, 100)

Adjusted(p, cues) ==
    LET c == Contradiction(p) - NegationAdjustment(cues, Len(p)) IN IF c < 0 THEN 0 ELSE c

\* The service of the container; no polarities are a ValueError.
DetectsDivergence(p, cues) == p # <<>> /\ Adjusted(p, cues) > 50

-----------------------------------------------------------------------------
(* What a rule adds to the score.                                          *)

SentimentRiskDivergence(a) ==
    IF a.polarities # <<>> /\ Adjusted(a.polarities, a.cues) > 10
    THEN Adjusted(a.polarities, a.cues) ELSE Nothing

HighRisk(a) == IF Effective(a.risk) >= 80 THEN (Effective(a.risk) * 60) \div 100 ELSE Nothing

NegativeSentiment(a) ==
    IF Effective(a.sentiment) <= -70 THEN AtMost((-Effective(a.sentiment) * 30) \div 100, 30) ELSE Nothing

\* The first two indices count, whichever they are.
PowerAsymmetry(a) ==
    LET first == a.powers[1].index
        second == a.powers[2].index
        greater == IF first < second THEN second ELSE first
        asymmetry == IF greater > 0 THEN (100 * Distance(first, second)) \div greater ELSE 0
    IN IF Len(a.powers) >= 2 /\ asymmetry > 50 /\ Effective(a.sentiment) < -30
       THEN asymmetry \div 2 ELSE Nothing

CheapTalk(a) ==
    LET own == SelectSeq(a.powers, LAMBDA p : p.of = "speaker")
        power == IF own = <<>> THEN 100 ELSE own[1].index
        multiplier == Max({a.signals[i].multiplier : i \in DOMAIN a.signals})
        costly == Len(SelectSeq(a.signals, LAMBDA s : s.costly))
    IN IF a.signals # <<>> /\ power * multiplier > 1000 /\ 100 * costly < 40 * Len(a.signals)
       THEN 40 ELSE Nothing

\* Without the AI's scores no rule is asked.
AnomalyScore(a) ==
    IF HasAiOutput(a)
    THEN AtMost(SentimentRiskDivergence(a) + HighRisk(a) + NegativeSentiment(a) + PowerAsymmetry(a) + CheapTalk(a), 100)
    ELSE 0

-----------------------------------------------------------------------------
Levels == <<"LOW", "MEDIUM", "HIGH", "CRITICAL">>

\* Mutant: a grave anomaly is always critical.
EscalatedToCritical(composite, anomaly) == IF anomaly >= 80 /\ composite < 6000 THEN 8500 ELSE composite

\* A grave anomaly makes a low risk a high one.
Escalated(composite, anomaly) == IF anomaly >= 80 /\ composite < 6000 THEN 6500 ELSE composite

Reached(composite, thresholds) == Levels[1 + Cardinality({i \in DOMAIN thresholds : composite >= thresholds[i]})]

(* With the AI's scores the composite is 0.6 risk and 0.4 anomaly; without *)
(* them it is the anomaly alone, which is then 0.                          *)
RiskLevel(a) ==
    IF HasAiOutput(a)
    THEN Reached(Escalated(60 * Effective(a.risk) + 40 * AnomalyScore(a), AnomalyScore(a)), <<3000, 6000, 8000>>)
    ELSE Reached(100 * AnomalyScore(a), <<1, 4000, 7000>>)

ScoringInit == \E a \in Analyses : detection = [at |-> "called", analysis |-> a]

Detect ==
    /\ detection.at = "called"
    /\ detection' = [at |-> "detected", analysis |-> detection.analysis,
                     score |-> AnomalyScore(detection.analysis), level |-> RiskLevel(detection.analysis)]

DetectDivergence ==
    /\ detection.at = "called"
    /\ detection' = [at |-> "measured", analysis |-> detection.analysis,
                     anomaly |-> DetectsDivergence(detection.analysis.polarities, detection.analysis.cues)]

ScoringNext == Detect \/ DetectDivergence

-----------------------------------------------------------------------------
\* A higher risk never makes the level lower, all else being the same: the
\* rules it sets off, the cap on their sum and the escalation of low risks,
\* which ends where the composite itself is high, all point the same way.
RankOf(level) == CHOOSE i \in DOMAIN Levels : Levels[i] = level

RiskMonotone ==
    detection.at = "detected" =>
        \A r \in RiskScores :
            r >= Effective(detection.analysis.risk) =>
                RankOf(detection.level) <= RankOf(RiskLevel([detection.analysis EXCEPT !.risk = r]))
=============================================================================
