SPECIFICATION FairSpec
CONSTANTS
    Jobs = {j1, j2}
    Threads = {t1, t2}
    Lessees = {t2}
    Submitters = {}
    Stoppers = {}
    TokenJobs = {j1}
    Free = Free
    NoJob = NoJob
    async_worker_count = 7
    async_queue_capacity = 2
    Conns = {c1}
    MaxConns = 1
    MinConns = 0
PROPERTIES SubmissionsAnswered CloseReturns
