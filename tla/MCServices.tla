----------------------------- MODULE MCServices -----------------------------
EXTENDS Services

MCTexts == {<<"a">>, <<"a", "|">>}
MCContexts == {<<>>, <<"|">>}
MCModels == {"", "m"}

\* An output that is its fixture, one that is far from it, one of one field.
Same(fields) == [sentiment |-> 0, risk |-> 0, levels |-> "same", topic |-> "same", fields |-> fields]
Poor == [sentiment |-> 70, risk |-> 4, levels |-> "adjacent", topic |-> "part", fields |-> 3]
Half == [sentiment |-> Missing, risk |-> Missing, levels |-> "apart", topic |-> "missing", fields |-> 1]
Result(id, risk, level, anomaly, extra, fixture) ==
    [id |-> id, risk |-> risk, level |-> level, anomaly |-> anomaly, extra |-> extra, fixture |-> fixture]
MCResults == {
    Result("s1", 3, "medium", FALSE, FALSE, NoFixture),
    Result("s1", 7, "medium", FALSE, TRUE, Same(9)),
    Result("s1", 7, "critical", TRUE, FALSE, NoFixture),
    Result("s2", 8, "high", FALSE, FALSE, Poor),
    Result("s2", Missing, "none", TRUE, FALSE, Half),
    Result("s2", NoNumber, "low", FALSE, FALSE, NoFixture),
    Result(NoId, 9, "critical", FALSE, FALSE, NoFixture)}

\* Replies that agree with the canned one, are far from it, lack fields, or
\* are no JSON.
Off == [sentiment |-> 40, risk |-> 1, potential |-> "low"]
NoRisk == [sentiment |-> -17, tone |-> "defensive", framing |-> "security_frame"]
MCReplies == {Canned[1], Off, NoRisk, Unusable}

MCSentiments == {NoScore, -80, -40, 20}
MCRiskScores == {NoScore, 0, 30, 40, 85, 100}
MCPolarities == {<<>>, <<50>>, <<90, -90>>, <<40, -30, 10>>}
Cue(type, confident, scoped) == [type |-> type, confident |-> confident, scoped |-> scoped]
MCCues == {<<>>, <<Cue("semantic", TRUE, FALSE)>>,
           <<Cue("surface", FALSE, FALSE), Cue("scope_wide", FALSE, TRUE)>>, <<Cue("syntactic", FALSE, TRUE)>>}
Power(of, index) == [of |-> of, index |-> index]
MCPowers == {<<>>, <<Power("speaker", 8)>>,
             <<Power("mentioned", 20), Power("speaker", 80), Power("third", 5)>>}
Signal(costly, multiplier) == [costly |-> costly, multiplier |-> multiplier]
MCSignals == {<<>>, <<Signal(FALSE, 150)>>, <<Signal(TRUE, 100), Signal(FALSE, 200)>>}

\* An analysis in which every rule finds something, and one for which the
\* services fail.
Spoken(score) == [score |-> score, risk |-> 50, hedging |-> 0, fails |-> FALSE, deps |-> <<>>, entities |-> {}, claims |-> <<>>]
Country(name) == {[text |-> name, type |-> "GPE"]}
Claim(verb) == <<[about |-> "inflation", verb |-> verb]>>
Part(speaker, start, sentences) ==
    [speaker |-> speaker, start |-> start, sentences |-> sentences, tokens |-> 12, divergence |-> 60]
Calm == [segments |-> <<>>, gaps |-> <<>>, frames |-> <<>>, framesFail |-> FALSE, sbi |-> NoSbi, history |-> <<>>,
         recovery |-> [known |-> FALSE, valid |-> TRUE, compliant |-> TRUE, levels |-> 0]]
Tense == [Calm EXCEPT
    !.segments = <<
        Part("ann", 0, <<[Spoken(-8) EXCEPT !.entities = Country("x"), !.risk = 95],
                         [Spoken(8) EXCEPT !.entities = Country("x"), !.claims = Claim("cause")],
                         [Spoken(0) EXCEPT !.deps = <<[head |-> "sanction", rel |-> "obj", dep |-> "trade"]>>]>>),
        Part("bob", 90, <<[Spoken(0) EXCEPT !.deps = <<[head |-> "be", rel |-> "ref", dep |-> "it"]>>],
                          Spoken(0), Spoken(0), Spoken(0), Spoken(0), [Spoken(10) EXCEPT !.claims = Claim("prevent")]>>)>>,
    !.gaps = <<<<20, 80>>>>,
    !.frames = <<[type |-> "military_solution", confidence |-> 80], [type |-> "peaceful_problem", confidence |-> 90]>>,
    !.sbi = 9, !.history = <<3, 4, 3, 4>>,
    !.recovery = [known |-> TRUE, valid |-> FALSE, compliant |-> FALSE, levels |-> 6]]
Broken == [Calm EXCEPT !.segments = <<Part("", 0, [i \in 1..3 |-> [Spoken(i) EXCEPT !.fails = TRUE]])>>, !.framesFail = TRUE]
MCTranscripts == [tense |-> Tense, broken |-> Broken]
MCInitialRules == {
    <<"missing_gpe", "modal_collapse">>, <<"entity_flip", "recovery_failure">>, <<"temporal_gap", "frame_contradiction">>,
    <<"tone_drift", "speaker_inconsistency">>, <<"translation_artifact", "overlapping_claim">>}
=============================================================================
