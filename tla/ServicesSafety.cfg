SPECIFICATION Spec
CONSTANTS
    MaxMessages = 2
    Labels = {"a", "b"}
    MaxNumbered = 10
    Texts_ <- MCTexts
    Contexts <- MCContexts
    Models <- MCModels
    MaxResponses = 2
    Scores = {20, 90}
    Risks = {20, 850}
    Beyond = 1100
    MaxChanges = 2
    Results <- MCResults
    Replies <- MCReplies
    MaxResults = 2
    Sentiments <- MCSentiments
    RiskScores <- MCRiskScores
    Polarities <- MCPolarities
    Cues <- MCCues
    Powers <- MCPowers
    Signals <- MCSignals
    Callers = {c1, c2}
    InitialRules <- MCInitialRules
    Transcripts <- MCTranscripts
    Named = {"entity_flip", "tone_drift"}
    MaxWorkers = 2
    MaxRegistrations = 1
\* Calls end, and services stop when nobody calls them.
CHECK_DEADLOCK FALSE
INVARIANTS RecoveredWhole PromptsServe AnswersFit RepairNeverHurts GraveAreFlagged RiskMonotone EvaluatesSnapshot
