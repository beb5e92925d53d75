SPECIFICATION Spec
CONSTANTS
    s1 = s1
    s2 = s2
    f1 = f1
    f2 = f2
    r1 = r1
    r2 = r2
    Sentences = {s1}
    Flaggers = {f1, f2}
    Reviewers = {r1, r2}
    DictDetails = TRUE
    Day = 2
    StaleAfter = 2
    MaxRows = 3
    MaxTime = 3
SYMMETRY SymmetricClients
INVARIANTS
    TypeOK
    PendingBounded
    EscalatedAreStale
