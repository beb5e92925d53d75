SPECIFICATION MCSpec
CONSTANTS
    Runs = {r1}
    Cmds = {c1, c2}
    MaxTexts = 2
    Mentions = {1, 2}
    Refs <- MCRefs
    Pairs <- MCPairs
    PairOf <- MCPairOf
    Country <- MCCountry
    Score <- MCScore
    Sessions <- MCSessions
    NoSession = NoSession
    NoPair = NoPair
    MaxCommands = 2
    MayRaise = {"TOKENIZER", "FRAME"}
    UsesLlm = TRUE
    WithShift = TRUE
    WithDki = TRUE
    FailFast = TRUE
    WithSession = TRUE
CHECK_DEADLOCK FALSE
INVARIANTS MentionsCount ReportedAreStored ResultTruthful
PROPERTY EveryRunEnds
