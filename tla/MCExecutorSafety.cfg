SPECIFICATION Spec
CONSTANTS
    Jobs = {j1, j2, j3}
    Threads = {t1, t2}
    Submitters = {j1}
    Stoppers = {j2}
    Free = Free
    NoJob = NoJob
    worker_count = 2
    queue_capacity = 2
SYMMETRY Symmetry
INVARIANTS TypeOK PendingHasOneOwner CancelledNeverRan QueueBounded NoSleepingOnWork QuietAfterShutdown
PROPERTIES FutureIsFinal ImplementsJobService
CHECK_DEADLOCK FALSE
