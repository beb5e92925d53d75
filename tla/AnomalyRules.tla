---------------------------- MODULE AnomalyRules ----------------------------
(***************************************************************************)
(* The ten rules of anomaly/rules.  A sentence carries what the services   *)
(* of the context say of it: risk and hedging in percent, dependencies,    *)
(* entities and claims; `fails' when they raise.  Sentiment and SBI are in *)
(* tenths, confidence in percent.  The divergence of a segment's parts of  *)
(* speech from the reference profile is an input.                          *)
(***************************************************************************)
EXTENDS Integers, Sequences, FiniteSetsExt, Functions, SequencesExt

NoSbi == -1000
NoFinding == [confidence |-> 0, severity |-> "none"]
Raised == [confidence |-> 0, severity |-> "raised"]

\* confidence > max_confidence, from 0.0 on.
Finding(severity, confidences) ==
    LET best == Max(confidences \cup {0})
    IN IF best = 0 THEN NoFinding ELSE [confidence |-> best, severity |-> severity]

SegmentsOf(a) == Range(a.segments)
SentencesOf(a) == UNION {Range(s.sentences) : s \in SegmentsOf(a)}
Served(a) == {s \in SentencesOf(a) : ~s.fails}

-----------------------------------------------------------------------------
PolicyVerbs ==
    [invade |-> 100, sanction |-> 90, attack |-> 80, annex |-> 85, occupy |-> 90, bomb |-> 80, blockade |-> 85]

\* An object of a policy verb that is no country, most of all in a sentence
\* that names none.
MissingGPE(a) ==
    Finding("HIGH",
        UNION {LET countries == {e.text : e \in {x \in s.entities : x.type = "GPE"}}
               IN {(PolicyVerbs[d.head] * (IF countries = {} THEN 95 ELSE 60)) \div 100 :
                      d \in {x \in Range(s.deps) : /\ x.head \in DOMAIN PolicyVerbs
                                                   /\ x.rel \in {"dobj", "obj"}
                                                   /\ x.dep \notin countries}}
               : s \in Served(a)})

\* A high risk without hedging.
ModalCollapse(a) ==
    LET risks == {s.risk : s \in {x \in Served(a) : x.risk > 80 /\ x.hedging <= 0}}
    IN Finding(IF \E r \in risks : r > 90 THEN "CRITICAL" ELSE "HIGH",
               {Min({100, 85 + ((r - 80) * 3) \div 4}) : r \in risks})

\* The log has to tell of all six levels.
RecoveryFailure(a) ==
    IF a.recovery.known /\ ~a.recovery.valid /\ ~a.recovery.compliant /\ a.recovery.levels >= 6
    THEN Finding("CRITICAL", {98}) ELSE NoFinding

Pronouns == {"it", "they", "this", "that", "he", "she"}

\* Silence of half a minute, and pronouns in the next three segments.
AfterGap(a, gap) ==
    LET post == SelectSeq(a.segments, LAMBDA s : s.start >= gap[2])
    IN SubSeq(post, 1, Min({3, Len(post)}))

Plus(s) == FoldSeq(+, 0, s)

UnresolvedIn(sentence) ==
    IF sentence.fails THEN 0
    ELSE Len(SelectSeq(sentence.deps, LAMBDA d : d.rel \in {"anaphora", "ref"} /\ d.dep \in Pronouns))

Unresolved(segments) ==
    Plus([i \in DOMAIN segments |->
             Plus([j \in DOMAIN segments[i].sentences |-> UnresolvedIn(segments[i].sentences[j])])])

TemporalGap(a) ==
    Finding("MEDIUM",
        {Min({95, 50 + Min({30, (g[2] - g[1] - 30) \div 3}) + Min({20, 10 * Unresolved(AfterGap(a, g))})}) :
            g \in {x \in Range(a.gaps) : x[2] - x[1] >= 30 /\ Unresolved(AfterGap(a, x)) > 0}})

-----------------------------------------------------------------------------
\* The square of a z score is d^2 (n - 1) / (n v), where d is n times the
\* deviation and v is n (n - 1) times the sample variance.
Spread(s) == Len(s) * Plus([i \in DOMAIN s |-> s[i] * s[i]]) - Plus(s) * Plus(s)
Off1(x, s) == LET d == Len(s) * x - Plus(s) IN d * d * (Len(s) - 1)

\* percent z, at most 100.
Zpercent(percent, x, s) ==
    LET square == (percent * percent * Off1(x, s)) \div (Len(s) * Spread(s))
    IN IF square >= 10000 THEN 100 ELSE CHOOSE r \in 0..99 : r * r <= square /\ square < (r + 1) * (r + 1)

\* A score two standard deviations from the mean of its segment.
ToneDrift(a) ==
    Finding("MEDIUM",
        UNION {LET scores == [i \in DOMAIN s.sentences |-> s.sentences[i].score]
                   far == {x \in Range(scores) : Off1(x, scores) > 4 * Len(scores) * Spread(scores)}
               IN IF Len(scores) >= 3 /\ Spread(scores) # 0 THEN {Zpercent(25, x, scores) : x \in far} ELSE {}
               : s \in SegmentsOf(a)})

\* The same for every segment with a speaker; without history, or when it
\* cannot be had, history is empty.
SpeakerInconsistency(a) ==
    LET n == Len(a.history)
        confidence == Zpercent(20, a.sbi, a.history)
    IN IF a.sbi = NoSbi \/ n < 3 \/ \A s \in SegmentsOf(a) : s.speaker = "" THEN NoFinding
       ELSE IF Spread(a.history) = 0
            THEN Finding("MEDIUM", IF n * a.sbi # Plus(a.history) THEN {95} ELSE {})
            ELSE Finding("MEDIUM",
                    IF 4 * Off1(a.sbi, a.history) < 25 * n * Spread(a.history) THEN {}
                    ELSE {CASE n < 5 -> (confidence * 7) \div 10
                            [] n >= 10 -> Min({100, (confidence * 11) \div 10})
                            [] OTHER -> confidence})

TranslationArtifact(a) ==
    Finding("LOW", {Min({100, s.divergence \div 3}) :
        s \in {x \in SegmentsOf(a) : x.tokens >= 10 /\ \A y \in Range(x.sentences) : ~y.fails}})

-----------------------------------------------------------------------------
\* A country or a person whose sentences, at most two apart, differ by 1.2 in
\* sentiment; here a service that raises is not caught.
Windows(s) ==
    {w \in (DOMAIN s.sentences) \X (DOMAIN s.sentences) : w[1] < w[2] /\ w[2] <= w[1] + 2}

EntityFlip(a) ==
    LET long == {s \in SegmentsOf(a) : Len(s.sentences) >= 3}
        flip(s, w) == IF s.sentences[w[1]].score < s.sentences[w[2]].score THEN s.sentences[w[2]].score - s.sentences[w[1]].score ELSE s.sentences[w[1]].score - s.sentences[w[2]].score
        both(s, w) == {e \in s.sentences[w[1]].entities \cap s.sentences[w[2]].entities : e.type \in {"GPE", "PERSON"}}
        sizes(s) == UNION {{(flip(s, w) * (IF e.type = "GPE" THEN 50 ELSE 45)) \div 10 : e \in both(s, w)} :
                              w \in {x \in Windows(s) : flip(s, x) >= 12}}
    IN IF \E s \in long : \E y \in Range(s.sentences) : y.fails THEN Raised
       ELSE Finding("HIGH", {Min({100, size}) : size \in UNION {sizes(s) : s \in long}})

Exclusive == {<<"cause", "prevent">>, <<"decrease", "increase">>, <<"start", "stop">>,
              <<"oppose", "support">>, <<"accept", "reject">>}

\* Two speakers who claim of one thing that it does and that it prevents.
ClaimsOf(segment) ==
    LET claims == FlattenSeq([j \in DOMAIN segment.sentences |->
                     IF segment.sentences[j].fails THEN <<>> ELSE segment.sentences[j].claims])
    IN [k \in DOMAIN claims |-> [about |-> claims[k].about, verb |-> claims[k].verb, speaker |-> segment.speaker]]

Conflicts(a) ==
    LET claims == FlattenSeq([i \in DOMAIN a.segments |-> ClaimsOf(a.segments[i])])
    IN {p \in (DOMAIN claims) \X (DOMAIN claims) :
           /\ claims[p[1]].speaker # claims[p[2]].speaker
           /\ claims[p[1]].about = claims[p[2]].about /\ claims[p[1]].about # ""
           /\ <<claims[p[1]].verb, claims[p[2]].verb>> \in Exclusive}

OverlappingClaim(a) ==
    CASE Conflicts(a) = {} -> NoFinding
      [] Cardinality(Conflicts(a)) = 1 -> Finding("HIGH", {60})
      [] Cardinality(Conflicts(a)) = 2 -> Finding("HIGH", {70})
      [] OTHER -> Finding("HIGH", {90})

Contradictions ==
    [x \in {{"peaceful_problem", "military_solution"}, {"economic_growth", "economic_collapse"},
            {"diplomatic_solution", "aggressive_action"}} |->
        CASE "peaceful_problem" \in x -> 95 [] "economic_growth" \in x -> 90 [] OTHER -> 85]

\* The frames of the whole text; here too a service that raises is not caught.
FrameContradiction(a) ==
    LET pairs == {p \in (DOMAIN a.frames) \X (DOMAIN a.frames) :
                     /\ p[1] < p[2] /\ a.frames[p[1]].confidence >= 70 /\ a.frames[p[2]].confidence >= 70
                     /\ {a.frames[p[1]].type, a.frames[p[2]].type} \in DOMAIN Contradictions}
    IN IF a.framesFail THEN Raised
       ELSE Finding("HIGH", {(Contradictions[{a.frames[p[1]].type, a.frames[p[2]].type}]
                              * Min({a.frames[p[1]].confidence, a.frames[p[2]].confidence})) \div 100 : p \in pairs})

-----------------------------------------------------------------------------
RuleIds == {"missing_gpe", "modal_collapse", "recovery_failure", "temporal_gap", "tone_drift",
            "speaker_inconsistency", "translation_artifact", "entity_flip", "overlapping_claim",
            "frame_contradiction"}

\* rule.evaluate(analysis, context).
RuleFinds(rule, a) ==
    CASE rule = "missing_gpe" -> MissingGPE(a)
      [] rule = "modal_collapse" -> ModalCollapse(a)
      [] rule = "recovery_failure" -> RecoveryFailure(a)
      [] rule = "temporal_gap" -> TemporalGap(a)
      [] rule = "tone_drift" -> ToneDrift(a)
      [] rule = "speaker_inconsistency" -> SpeakerInconsistency(a)
      [] rule = "translation_artifact" -> TranslationArtifact(a)
      [] rule = "entity_flip" -> EntityFlip(a)
      [] rule = "overlapping_claim" -> OverlappingClaim(a)
      [] rule = "frame_contradiction" -> FrameContradiction(a)
=============================================================================
