SPECIFICATION Spec
CONSTANTS
    Backends = {"sqlite", "postgres", "mysql", "mssql", "oracle"}
    Effects = {e1, e2, e3, e4}
    ChunkSize = 2
    Nests = {"sqlite"}
    Faults = {"statement", "link"}
SYMMETRY Symmetry
INVARIANTS TypeOK CommitKeeps RollbackUndoes BatchAtomic SessionClean
