SPECIFICATION Spec
CONSTANTS
    Builders = {b1, b2}
    Names = {f1, f2}
    Contents = {x, y}
    Invalid = {y}
    UsesService = TRUE
    MaxBuilds = 3
    MaxVersion = 2
    NoRow = NoRow
INVARIANTS
    SummaryAddsUp
    NoNeedlessRebuild
    CountIsSound
PROPERTIES
    RowsKeepTheirKey
