SPECIFICATION Spec
CONSTANTS
    N = 5
    BatchSize = 2
    MaxWorkers = 2
    MaxRetries = 2
    Payload <- Repeated
    Formats = {"results", "other"}
    CacheKeeps = TRUE
    MaxRuns = 2
    NoResult = NoResult
    NoEntry = NoEntry
    NoData = NoData
INVARIANTS
    TypeOK
    WorkersBounded
    Accounting
    FailedCount
    AllOrNothing
    ResultsByText
    DataByText
PROPERTIES
    ImplementsContract
    CallsReturn
\* The last call returns and nothing is left to do.
CHECK_DEADLOCK FALSE
