SPECIFICATION FairSpec
CONSTANTS
    Jobs = {j1}
    Threads = {t1}
    Lessees = {}
    Submitters = {}
    Stoppers = {j1}
    TokenJobs = {}
    Free = Free
    NoJob = NoJob
    async_worker_count = 1
    async_queue_capacity = 1
    Conns = {c1}
    MaxConns = 1
    MinConns = 1
PROPERTIES CloseReturns
CHECK_DEADLOCK FALSE
