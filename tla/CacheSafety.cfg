SPECIFICATION Spec
CONSTANTS
    Callers = {p1, p2, p3}
    Keys = {k1, k2}
    Values = {v1, v2}
    Ttls = {0, Never}
    DefaultTtl = 1
    MaxTime = 1
    Nothing = Nothing
    Never = Never
    Absent = Absent
    Empty = Empty
    Garbled = Garbled
INVARIANTS
    LoneSetIsKept
PROPERTIES
    ImplementsAnswerCache
SYMMETRY Symmetry
