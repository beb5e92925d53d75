SPECIFICATION Spec
CONSTANTS
    MaxId = 3
    BatchSize = 2
    Texts = {good, null}
    Refused = {null}
    Unreadable = {}
    MaxRuns = 2
    MaxWrites = 1
    Absent = Absent
INVARIANTS
    MissingAreReported
    CountersCover
PROPERTIES
    ImplementsTransfer
    RunsEnd
\* The last run returns and nothing is left to do.
CHECK_DEADLOCK FALSE
