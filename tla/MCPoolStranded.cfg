SPECIFICATION Spec
CONSTANTS
    Callers = {t1, t2, t3}
    TokenCallers = {t1}
    Conns = {c1}
    Free = Free
    min_connections = 1
    max_connections = 1
INVARIANTS NoStrandedWaiter
