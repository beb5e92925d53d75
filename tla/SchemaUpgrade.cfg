SPECIFICATION Spec
INVARIANTS
    RevisionsExecute
