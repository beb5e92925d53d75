SPECIFICATION Spec
CONSTANTS
    Sessions = {u1, u2}
    Sentences = {a}
    Versions = {v1, v2}
    NoVersion = NoVersion
    Segments = {g}
    Hashes = {h}
    Categories = {negation}
    MaxOps = 3
    MaxBlocks = 1
    NoCategory = NoCategory
    NoSession = NoSession
    NoOp = NoOp
SYMMETRY SymmetricSessions
INVARIANTS
    PatternsCount
PROPERTIES
    RowsAreKept
\* Every block has been run.
CHECK_DEADLOCK FALSE
