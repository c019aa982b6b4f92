SPECIFICATION Spec
CONSTANTS
    Callers = {t1, t2, t3}
    TokenCallers = {t1}
    Conns = {c1, c2}
    Free = Free
    min_connections = 1
    max_connections = 2
SYMMETRY Symmetry
INVARIANTS TypeOK Accounting HardBound ExclusiveOwner DrainedAfterClose NeverFallsThrough
PROPERTIES ImplementsLeasePool StrandedOnlyByStop TimeoutMeansExhausted
