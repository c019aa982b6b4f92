SPECIFICATION FairSpec
CONSTANTS
    Callers = {t1, t2}
    TokenCallers = {t1}
    Conns = {c1}
    Free = Free
    min_connections = 3
    max_connections = 0
PROPERTIES CallReturns
