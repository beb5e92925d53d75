SPECIFICATION Spec
CONSTANTS
    s1 = s1
    s2 = s2
    f1 = f1
    f2 = f2
    r1 = r1
    r2 = r2
    Sentences = {s1, s2}
    Flaggers = {f1}
    Reviewers = {r1}
    DictDetails = TRUE
    Day = 1
    StaleAfter = 1
    MaxRows = 2
    MaxTime = 0
PROPERTIES
    CompletionsDecide
