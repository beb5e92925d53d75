------------------------------ MODULE Services ------------------------------
(* The services around the models, which share no state: a process meets    *)
(* them one at a time, and `part' tells which one this behaviour is about.   *)
EXTENDS AiClients, PromptVersions, AiAnalyst, FailCheck, QualityPipeline, AnomalyScoring,
        AnomalyEngine

VARIABLE part

vars == <<part, clients, prompts, analyst, failcheck, quality, scoring, engine>>

Parts == {"clients", "prompts", "analyst", "failcheck", "quality", "scoring", "engine"}

\* The parts a behaviour is not about are not made yet or unused.
Init ==
    /\ part \in Parts
    /\ ClientsInit /\ PromptsInit /\ FailCheckInit
    /\ IF part = "analyst" THEN AnalystInit
       ELSE backends = {} /\ made = <<>> /\ kept = <<>> /\ answer = NoAnswer
    /\ IF part = "quality" THEN QualityInit ELSE transcript = [at |-> "none", results |-> <<>>, reports |-> <<>>, errors |-> {}]
    /\ IF part = "scoring" THEN ScoringInit ELSE detection = [at |-> "none"]
    /\ IF part = "engine" THEN EngineInit
       ELSE rules = <<>> /\ pool = <<>> /\ evaluation = <<>> /\ registrations = 0

Next ==
    \/ /\ part = "clients" /\ ClientsNext
       /\ UNCHANGED <<part, prompts, analyst, failcheck, quality, scoring, engine>>
    \/ /\ part = "prompts" /\ PromptsNext
       /\ UNCHANGED <<part, clients, analyst, failcheck, quality, scoring, engine>>
    \/ /\ part = "analyst" /\ AnalystNext
       /\ UNCHANGED <<part, clients, prompts, failcheck, quality, scoring, engine>>
    \/ /\ part = "failcheck" /\ FailCheckNext
       /\ UNCHANGED <<part, clients, prompts, analyst, quality, scoring, engine>>
    \/ /\ part = "quality" /\ QualityNext
       /\ UNCHANGED <<part, clients, prompts, analyst, failcheck, scoring, engine>>
    \/ /\ part = "scoring" /\ ScoringNext
       /\ UNCHANGED <<part, clients, prompts, analyst, failcheck, quality, engine>>
    \/ /\ part = "engine" /\ EngineNext
       /\ UNCHANGED <<part, clients, prompts, analyst, failcheck, quality, scoring>>

Spec == Init /\ [][Next]_vars
=============================================================================
