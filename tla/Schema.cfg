SPECIFICATION Spec
INVARIANTS
    DowngradeUndoes
    AppliedArePresent
    
