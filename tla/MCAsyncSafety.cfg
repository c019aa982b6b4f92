SPECIFICATION Spec
CONSTANTS
    Jobs = {j1, j2, j3}
    Threads = {t1, t2}
    Lessees = {}
    Submitters = {j1}
    Stoppers = {j2}
    TokenJobs = {j3}
    Free = Free
    NoJob = NoJob
    async_worker_count = 0
    async_queue_capacity = 1
    Conns = {c1, c2}
    MaxConns = 2
    MinConns = 1
SYMMETRY Symmetry
INVARIANTS TypeOK LeaseBackBeforeReady CancelledNeverRan QuietAfterClose
PROPERTIES NoStartAfterClose
CHECK_DEADLOCK FALSE
