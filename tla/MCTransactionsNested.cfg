SPECIFICATION Spec
CONSTANTS
    Backends = {"postgres"}
    Effects = {e1, e2}
    ChunkSize = 2
    Nests = {"postgres"}
    Faults = {}
INVARIANTS RollbackUndoes
