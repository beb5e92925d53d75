-------------------------- MODULE AnalysisPipeline --------------------------
(* application/pipeline: one text from COLLECT over ASSEMBLE and DETECT to   *)
(* FINALIZE, for a caller who gives a session and closes it afterwards.      *)
(*                                                                           *)
(* The collectors share nothing, so the gather is one step that settles all  *)
(* of them: each returns a value or raises, the country collector and the    *)
(* analyst may also return a result that says they failed.                   *)
EXTENDS PanelStore

CONSTANTS
    Runs,           \* callers of run(); each opens a session per text
    MaxTexts,       \* texts run in all
    MayRaise,       \* the collectors that may raise, among Collectors
    Mentions,       \* the country mentions of the text
    Country,        \* Mentions -> the pair (speaker, mentioned country)
    UsesLlm,        \* the country collector asks the model for contexts
    WithShift,      \* the collect stage has a shift calculator
    WithDki,        \* a dki_assembler is there
    FailFast,       \* fail_fast_on_missing_ai
    WithSession     \* the caller gives a session

VARIABLES
    run,        \* stage and findings of each caller's run
    texts,      \* texts started
    lost        \* the references that could not be written or were given up

pipeline == <<run, texts, lost>>

Collectors == {"NER", "TOKENIZER", "AI", "COUNTRY", "NEGATION", "RISK", "POWER", "FRAME", "CUES",
               "IYENGAR", "STANCE", "ENGAGEMENT", "LLM_POS", "SHIFT"}
Tags == Collectors \cup {"TOPIC", "SALIENCE", "ASSEMBLE", "DETECT", "MISSING_AI"}

ASSUME PipelineAssumption ==
    /\ MayRaise \subseteq Collectors
    /\ MaxTexts \in Nat
    /\ (1..MaxTexts) \X Mentions \subseteq Refs

\* past: the caller gives historical_analyses; have: which pieces of the CollectResult hold a value; ai: the analyst's result
\* has scores; refs: country_references; detected: the anomaly result is in.
Run == [text : 0..MaxTexts, at : {"idle", "gather", "topic", "salience", "assemble", "detect", "finalize", "close", "done"},
        past : BOOLEAN, have : SUBSET Tags, ai : BOOLEAN, refs : SUBSET Refs, errors : SUBSET Tags,
        dki : {"none", "neutral", "shift"}, detected : BOOLEAN,
        stage : {"none", "assemble", "completed", "completed_with_errors", "raised"}, success : BOOLEAN]

NotRun == [text |-> 0, at |-> "idle", past |-> FALSE, have |-> {}, ai |-> FALSE, refs |-> {}, errors |-> {}, dki |-> "none",
           detected |-> FALSE, stage |-> "none", success |-> FALSE]

PipelineInit ==
    /\ run = [r \in Runs |-> NotRun]
    /\ texts = 0
    /\ lost = {}

Goto(r, fields) == run' = [run EXCEPT ![r] = With(run[r], fields)]
At(r, at) == run[r].at = at

-----------------------------------------------------------------------------
\* The country collector.  A reference gets a new id in every run.
Reference(r, m) == <<run[r].text, m>>

\* _classify_with_rules: one reference per mention.
Rules(r) == {Reference(r, m) : m \in Mentions}

\* mention_lookup keeps the last mention of a country.
Lookup == {m \in Mentions : \A n \in Mentions : Country[n] = Country[m] => n <= m}

\* _build_from_llm_output: the mentions the answer names (an answer names each
\* country at most once here).
Classified(r) == {{Reference(r, m) : m \in M} : M \in SUBSET Lookup}

\* Back to the rules when the prompt is missing, the call raises, the answer is
\* not recovered or not valid.
LlmResults(r) == Classified(r) \cup {Rules(r)}

\* What collect() may return: references or none of them, which is also what
\* an error in the result comes to.
CountryResults(r) == {{}} \cup (IF UsesLlm THEN LlmResults(r) ELSE {Rules(r)})

-----------------------------------------------------------------------------
StartRun(r) ==
    /\ At(r, "idle") \/ At(r, "done")
    /\ texts < MaxTexts
    /\ texts' = texts + 1
    /\ \E past \in BOOLEAN :
           run' = [run EXCEPT ![r] = [NotRun EXCEPT !.text = texts + 1, !.at = "gather", !.past = past]]
    /\ UNCHANGED <<store, lost>>

\* SegmentWindow is imported for type checking only: building the gather's
\* arguments raises NameError, and no handler is around it.
GatherRaises(r) ==
    /\ At(r, "gather")
    /\ WithShift /\ run[r].past
    /\ Goto(r, [at |-> "close", stage |-> "raised"])
    /\ UNCHANGED <<store, texts, lost>>

\* Each collector that raised leaves its tag and an empty default; a country
\* result that did not succeed leaves no references and no tag.
Defaults(raised) == Collectors \ raised

Gather(r) ==
    /\ At(r, "gather")
    /\ ~(WithShift /\ run[r].past)
    /\ \E raised \in SUBSET MayRaise, refs \in CountryResults(r), scores \in BOOLEAN :
           Goto(r, [at |-> "topic", have |-> Defaults(raised), errors |-> raised,
                    refs |-> IF "COUNTRY" \in raised THEN {} ELSE refs,
                    ai |-> scores /\ "AI" \notin raised])
    /\ UNCHANGED <<store, texts, lost>>

\* Only when the tokenizer gave sentences, and only after it.
Topic(r) ==
    /\ At(r, "topic")
    /\ \/ "TOKENIZER" \notin run[r].have /\ Goto(r, [at |-> "salience"])
       \/ "TOKENIZER" \in run[r].have /\ Goto(r, [at |-> "salience", have |-> run[r].have \cup {"TOPIC"}])
       \/ "TOKENIZER" \in run[r].have /\ Goto(r, [at |-> "salience", errors |-> run[r].errors \cup {"TOPIC"}])
    /\ UNCHANGED <<store, texts, lost>>

\* Only when frame detection gave a result; without cues it gets an empty list.
Salience(r) ==
    /\ At(r, "salience")
    /\ \/ "FRAME" \notin run[r].have /\ Goto(r, [at |-> "assemble"])
       \/ "FRAME" \in run[r].have /\ Goto(r, [at |-> "assemble", have |-> run[r].have \cup {"SALIENCE"}])
       \/ "FRAME" \in run[r].have /\ Goto(r, [at |-> "assemble", errors |-> run[r].errors \cup {"SALIENCE"}])
    /\ UNCHANGED <<store, texts, lost>>

\* attach_dki keeps 1.0 for a component it could not compute.
Dki(r) ==
    IF ~WithDki THEN {"none"} ELSE {"neutral"} \cup (IF run[r].past THEN {"shift"} ELSE {})

Assemble(r) ==
    /\ At(r, "assemble")
    /\ \E d \in Dki(r) : Goto(r, [at |-> "detect", dki |-> d])
    /\ UNCHANGED <<store, texts, lost>>

\* Nothing is finalized: the references are dropped with the run.
AssembleFails(r) ==
    /\ At(r, "assemble")
    /\ Goto(r, [at |-> "close", errors |-> run[r].errors \cup {"ASSEMBLE"}, stage |-> "assemble"])
    /\ UNCHANGED <<store, texts, lost>>

HasAiOutput(r) == run[r].ai

MissingAi(r) ==
    /\ At(r, "detect")
    /\ FailFast /\ ~HasAiOutput(r)
    /\ Goto(r, [at |-> "finalize", errors |-> run[r].errors \cup {"MISSING_AI"}])
    /\ UNCHANGED <<store, texts, lost>>

\* A bug for ResultTruthful to catch: a failing anomaly service is only logged.
DetectQuietly(r) ==
    /\ At(r, "detect")
    /\ ~(FailFast /\ ~HasAiOutput(r))
    /\ \E found \in BOOLEAN : Goto(r, [at |-> "finalize", detected |-> found])
    /\ UNCHANGED <<store, texts, lost>>

Detect(r) ==
    /\ At(r, "detect")
    /\ ~(FailFast /\ ~HasAiOutput(r))
    /\ \/ Goto(r, [at |-> "finalize", detected |-> TRUE])
       \/ Goto(r, [at |-> "finalize", errors |-> run[r].errors \cup {"DETECT"}])
    /\ UNCHANGED <<store, texts, lost>>

Completed(r) ==
    [at |-> "close", success |-> run[r].errors = {},
     stage |-> IF run[r].errors = {} THEN "completed" ELSE "completed_with_errors"]

\* save_batch flushes the references into the caller's session.
Finalize(r) ==
    /\ At(r, "finalize")
    /\ IF WithSession /\ run[r].refs # {}
       THEN Flush(r, [View(r) EXCEPT !.refs = @ \cup run[r].refs])
       ELSE UNCHANGED store
    /\ Goto(r, Completed(r))
    /\ UNCHANGED <<texts, lost>>

\* The flush fails: logged, and the result is the same.
FinalizeFails(r) ==
    /\ At(r, "finalize")
    /\ WithSession /\ run[r].refs # {} /\ Busy(r)
    /\ FlushFails(r)
    /\ Goto(r, Completed(r))
    /\ lost' = lost \cup run[r].refs
    /\ UNCHANGED texts

\* The caller commits a run that came back, or gives its session up.
CallerCommits(r) ==
    /\ At(r, "close")
    /\ run[r].stage # "raised"
    /\ Commit(r)
    /\ Goto(r, [at |-> "done"])
    /\ UNCHANGED <<texts, lost>>

CallerRollsBack(r) ==
    /\ At(r, "close")
    /\ Rollback(r)
    /\ lost' = lost \cup run[r].refs
    /\ UNCHANGED texts
    /\ Goto(r, [at |-> "done"])

RunStep(r) ==
    \/ StartRun(r) \/ GatherRaises(r) \/ Gather(r) \/ Topic(r) \/ Salience(r)
    \/ Assemble(r) \/ AssembleFails(r) \/ MissingAi(r) \/ Detect(r)
    \/ Finalize(r) \/ FinalizeFails(r) \/ CallerCommits(r) \/ CallerRollsBack(r)

PipelineNext == \E r \in Runs : RunStep(r)

-----------------------------------------------------------------------------
\* A result can be trusted as far as it goes: success means that no collector
\* had raised, the topic and salience steps had not failed, the anomaly result is
\* in and, under fail_fast, the analyst gave a score; a run without success names
\* at least one stage; and the references of a successful run are in the panel
\* once its session is closed, unless they could not be written or the caller
\* gave them up.
ResultTruthful ==
    \A r \in Runs : At(r, "done") /\ run[r].stage # "raised" =>
        /\ run[r].success =>
               /\ Collectors \subseteq run[r].have
               /\ {"TOPIC", "SALIENCE"} \subseteq run[r].have
               /\ run[r].detected
               /\ FailFast => run[r].ai
               /\ WithSession => run[r].refs \subseteq db.refs \cup lost
        /\ ~run[r].success => run[r].errors # {}
=============================================================================
