----------------------------- MODULE FailCheck ------------------------------
(***************************************************************************)
(* AIFailCheck (infrastructure/ai/fail_check.py): the answer of a model is *)
(* held against what the formulas say of the same sentence.  A response is *)
(* a function from the fields it has; scores are in hundredths.  A null or *)
(* a text in place of a score raises in the first subtraction and is left  *)
(* out, and so are the explanations and recommendations in words.          *)
(***************************************************************************)
EXTENDS Integers, Sequences, FiniteSetsExt, Functions, SequencesExt

CONSTANTS
    Scores, Risks,  \* scores the formulas give, of sentiment and the like and of risk
    Beyond,         \* a score no field may have
    MaxChanges      \* bound: fields in which the two responses are not plain

\* The formulas keep their scores in the ranges of CheckQuality.
ASSUME FormulasAssumption == Scores \subseteq -100..100 /\ Risks \subseteq 0..1000

VARIABLE check      \* one call of validate_ai_response: what it got and found

failcheck == <<check>>

Numeric == <<"sentiment", "risk", "hedging", "manipulation", "politeness">>
Labelled == <<"topic", "frame", "appraisal", "audience">>
Fields == Range(Numeric) \cup Range(Labelled)

Tolerance == [f \in Range(Numeric) |->
    CASE f = "sentiment" -> 35 [] f = "risk" -> 200 [] f = "politeness" -> 25 [] OTHER -> 30]

\* In thousandths; 0.1 for the three checks without a weight of their own.
Weights == <<200, 200, 150, 150, 100, 100, 50, 25, 25, 100, 100, 100>>

Abs(n) == IF n < 0 THEN -n ELSE n
Number(response, f) == IF f \in DOMAIN response THEN response[f] ELSE 0
Label(response, f) == IF f \in DOMAIN response THEN response[f] ELSE ""

\* Scores are in ten thousandths, and nothing keeps them above 0.
Found(status, score) == [status |-> status, score |-> score]

-----------------------------------------------------------------------------
CheckNumber(f, ai, formula) ==
    LET d == Abs(Number(ai, f) - Number(formula, f))
        status == CASE d <= Tolerance[f] -> "pass"
                    [] Tolerance[f] < d /\ d <= 2 * Tolerance[f] -> "warning"
                    [] OTHER -> "fail"
    IN Found(status, 10000 - (10000 * d) \div (2 * Tolerance[f]))

\* Two labels that are both missing agree.
CheckLabel(f, ai, formula) ==
    CASE Label(ai, f) = Label(formula, f) -> Found("pass", 10000)
      [] Label(ai, f) # Label(formula, f) /\ "" \notin {Label(ai, f), Label(formula, f)} -> Found("warning", 5000)
      [] OTHER -> Found("fail", 0)

\* A missing score is missed only when it is one of the first three.
CheckQuality(ai) ==
    LET required == {"sentiment", "risk", "hedging"} \subseteq DOMAIN ai
        inRange == \A f \in Range(Numeric) \cap DOMAIN ai :
                        IF f = "risk" THEN ai[f] \in 0..1000 ELSE ai[f] \in -100..100
    IN IF required /\ inRange THEN Found("pass", 10000) ELSE Found("fail", 0)

CheckCompleteness(ai) ==
    LET present == Cardinality(Fields \cap DOMAIN ai)
        status == CASE 10 * present >= 9 * 9 -> "pass"
                    [] 10 * present < 9 * 9 /\ 10 * present >= 7 * 9 -> "warning"
                    [] OTHER -> "fail"
    IN Found(status, (10000 * present) \div 9)

Implausible(ai) ==
    \/ Number(ai, "sentiment") > 50 /\ Number(ai, "risk") > 700
    \/ Number(ai, "manipulation") > 70 /\ Number(ai, "politeness") > 80
    \/ Number(ai, "risk") > 800 /\ Number(ai, "sentiment") > 30

\* Mutant: what is implausible counts as failed.
LogicalFails(ai) == IF Implausible(ai) THEN Found("fail", 0) ELSE Found("pass", 10000)

CheckLogical(ai) == IF Implausible(ai) THEN Found("warning", 5000) ELSE Found("pass", 10000)

-----------------------------------------------------------------------------
Checks(ai, formula) ==
    [i \in 1..5 |-> CheckNumber(Numeric[i], ai, formula)] \o
    [i \in 1..4 |-> CheckLabel(Labelled[i], ai, formula)] \o
    <<CheckQuality(ai), CheckCompleteness(ai), CheckLogical(ai)>>

Count(results, status) == Cardinality({i \in DOMAIN results : results[i].status = status})

\* _calculate_overall_result: no check failed, more than 30% did, or some.
Overall(results) ==
    LET failed == Count(results, "fail")
    IN CASE failed = 0 -> "pass"
         [] failed > 0 /\ 10 * failed > 3 * Len(results) -> "fail"
         [] OTHER -> "warning"

Health(results) == FoldSeq(+, 0, [i \in DOMAIN results |-> (results[i].score * Weights[i]) \div 1000])

\* _generate_recommendations: what to look at, and whether to retrain or watch.
Recommended(results) ==
    LET failed == Count(results, "fail")
    IN {f \in {"sentiment", "risk", "hedging", "manipulation"} :
            \E i \in 1..4 : Numeric[i] = f /\ results[i].status = "fail"}
       \cup (IF results[10].status = "fail" THEN {"output"} ELSE {})
       \cup (IF failed > 3 THEN {"retrain"} ELSE {})
       \cup (IF Count(results, "warning") > failed THEN {"monitor"} ELSE {})

Judge(ai, formula) ==
    LET results == Checks(ai, formula)
    IN [overall |-> Overall(results), failed |-> Count(results, "fail"),
        health |-> Health(results), recommended |-> Recommended(results)]

-----------------------------------------------------------------------------
\* Two responses that agree, but for the fields in `changed', which the answer
\* lacks or fills in with a value of its own.
Agreeing == [f \in Fields |-> IF f \in Range(Numeric) THEN 20 ELSE "usual"]
Given(f) ==
    CASE f = "risk" -> Risks
      [] f \in Range(Numeric) \ {"risk"} -> Scores
      [] f \in Range(Labelled) -> {"usual", "other", ""}
Answered(f) == Given(f) \cup (IF f \in Range(Numeric) THEN {Beyond} ELSE {})

FailCheckInit == check = [at |-> "called", ai |-> Agreeing, formula |-> Agreeing, changed |-> {}]

\* The caller's two dicts, a field at a time.
Differ ==
    /\ check.at = "called"
    /\ Cardinality(check.changed) < MaxChanges
    /\ \E f \in Fields \ check.changed :
          \E ai \in {Restrict(check.ai, DOMAIN check.ai \ {f})}
                     \cup {[check.ai EXCEPT ![f] = x] : x \in Answered(f)} :
              \E y \in Given(f) :
                  check' = [check EXCEPT !.ai = ai, !.formula = [@ EXCEPT ![f] = y], !.changed = @ \cup {f}]

Validate ==
    /\ check.at = "called"
    /\ check' = [at |-> "judged", ai |-> check.ai, formula |-> check.formula,
                 result |-> Judge(check.ai, check.formula)]

FailCheckNext == Differ \/ Validate

-----------------------------------------------------------------------------
Repaired(f) == [g \in DOMAIN check.ai \cup {f} |-> IF g = f THEN check.formula[f] ELSE check.ai[g]]

\* An answer that says in one more field what the formulas say is never judged
\* worse: whatever the twelve checks have in common, no agreement makes more of
\* them fail.
RepairNeverHurts ==
    check.at = "judged" =>
        \A f \in Fields : Judge(Repaired(f), check.formula).failed <= check.result.failed
=============================================================================
