SPECIFICATION Spec
CONSTANTS
    Drivers = {"sqlite", "postgres", "mysql", "odbc"}
    Queries = {q}
    Consumers = {c, d}
    Tokens = {t, u}
    Lengths = {0, 2}
    ChunkSize = 2
    MaxCalls = 3
    Odd = {}
INVARIANTS TypeOK ReadsOwnRows StopBoundsRows OnlyStoppedThrows BufferHoldsRows
SYMMETRY StreamSymmetry
CHECK_DEADLOCK FALSE
