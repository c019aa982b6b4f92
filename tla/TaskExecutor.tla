---------------------------- MODULE TaskExecutor ----------------------------
(***************************************************************************)
(* detail::BoundedTaskExecutor of include/cpplinq/driver/async_executor.h: *)
(* submit, shutdown, the lazily started workers and the promises of the    *)
(* jobs.  An actor is a thread of the application or a worker in the       *)
(* middle of a callback: a callback may call the executor it runs on.      *)
(*                                                                         *)
(* A critical section of State::mutex is one step: nothing in it blocks    *)
(* and every variable it touches is touched under it.  lifecycle_mutex_ is *)
(* explicit because shutdown keeps it while it joins the workers.          *)
(***************************************************************************)
EXTENDS Integers, Sequences, FiniteSets, Functions

CONSTANTS
    Jobs,            \* identities of submitted callbacks
    Threads,         \* application threads
    Submitters,      \* jobs whose callback submits another job
    Stoppers,        \* jobs whose callback calls shutdown()
    Free,            \* nobody holds lifecycle_mutex_
    NoJob,
    worker_count,    \* constructor arguments, as given
    queue_capacity

WorkerCount == IF worker_count = 0 THEN 1 ELSE worker_count
QueueCapacity == IF queue_capacity = 0 THEN 1 ELSE queue_capacity

Workers == 1 .. WorkerCount        \* positions in workers_
Actors == Threads \cup Workers

ASSUME ExecutorAssumption ==
    /\ worker_count \in Nat
    /\ queue_capacity \in Nat
    /\ Threads \cap Nat = {}
    /\ Free \notin Threads \cup Nat
    /\ NoJob \notin Jobs
    /\ Submitters \subseteq Jobs
    /\ Stoppers \subseteq Jobs
    /\ IsFiniteSet(Jobs)
    /\ IsFiniteSet(Threads)

VARIABLES
    queue,             \* state_->queue
    stopping,          \* state_->stopping
    lifecycle_mutex_,
    handle,            \* the std::thread of each worker
    wpc,               \* where each worker is in run_worker
    job,               \* the job a worker runs
    invoked,           \* jobs whose callback was started
    fut,               \* the state behind each future
    call,              \* the executor call an actor is in
    arg,               \* the job it submits
    doomed,            \* queued_jobs of the shutdown in progress
    next               \* its position in the loop over workers_

vars == <<queue, stopping, lifecycle_mutex_, handle, wpc, job, invoked, fut,
          call, arg, doomed, next>>

Resolved == {"value", "error", "cancelled", "rejected"}
Joinable(w) == handle[w] = "joinable"

Init ==
    /\ queue = << >>
    /\ stopping = FALSE
    /\ lifecycle_mutex_ = Free
    /\ handle = [w \in Workers |-> "none"]
    /\ wpc = [w \in Workers |-> "absent"]
    /\ job = [w \in Workers |-> NoJob]
    /\ invoked = {}
    /\ fut = [j \in Jobs |-> "unsubmitted"]
    /\ call = [a \in Actors |-> "none"]
    /\ arg = [a \in Actors |-> NoJob]
    /\ doomed = << >>
    /\ next = 1

-----------------------------------------------------------------------------
(* Mutants, here and below: definitions named for a plausible bug stand    *)
(* before the definition they replace when a property is put to the test.  *)

(* notify_one and notify_all on state_->condition. *)
Asleep(p) == {w \in Workers : p[w] = "asleep"}
WakeNobody(p) == {p}
WakeOne(p) == IF Asleep(p) = {} THEN {p}
              ELSE {[p EXCEPT ![w] = "looking"] : w \in Asleep(p)}
WakeNone(p) == p
WakeAll(p) == [w \in Workers |-> IF p[w] = "asleep" THEN "looking" ELSE p[w]]

(* start_workers_locked() got as far as n threads. *)
StartUpTo(n) ==
    /\ handle' = [w \in Workers |->
                    IF handle[w] = "none" /\ w <= n THEN "joinable" ELSE handle[w]]
    /\ wpc' = [w \in Workers |->
                 IF wpc[w] = "absent" /\ w <= n THEN "looking" ELSE wpc[w]]

Started == Cardinality({w \in Workers : handle[w] # "none"})

-----------------------------------------------------------------------------
(* submit() *)

MaySubmit(a) == a \in Workers => job[a] \in Submitters
MayStop(a) == a \in Workers => job[a] \in Stoppers
Idle(a) == call[a] = "none" /\ (a \in Workers => wpc[a] = "running")

(* The promise and the job are made before any lock. *)
MakeJob(a, j) ==
    /\ fut[j] = "unsubmitted"
    /\ fut' = [fut EXCEPT ![j] = "pending"]
    /\ call' = [call EXCEPT ![a] = "submit"]
    /\ arg' = [arg EXCEPT ![a] = j]
    /\ UNCHANGED <<queue, stopping, lifecycle_mutex_, handle, wpc, job, invoked,
                   doomed, next>>

CallSubmit(a, j) == Idle(a) /\ MaySubmit(a) /\ MakeJob(a, j)

(* The job fails with an exception set on its promise. *)
RejectUnanswered(a) ==
    /\ call' = [call EXCEPT ![a] = "none"]
    /\ arg' = [arg EXCEPT ![a] = NoJob]
    /\ UNCHANGED <<queue, fut>>
RejectKeepsJob(a) ==
    /\ fut' = [fut EXCEPT ![arg[a]] = "rejected"]
    /\ call' = [call EXCEPT ![a] = "none"]
    /\ UNCHANGED <<queue, arg>>
RejectJob(a) ==
    /\ fut' = [fut EXCEPT ![arg[a]] = "rejected"]
    /\ call' = [call EXCEPT ![a] = "none"]
    /\ arg' = [arg EXCEPT ![a] = NoJob]
    /\ UNCHANGED queue

FullOffByOne == Len(queue) > QueueCapacity
Full == Len(queue) >= QueueCapacity

Stopped(a) == stopping /\ RejectJob(a) /\ UNCHANGED <<handle, wpc>>

QueueFull(a) ==
    /\ ~stopping /\ Full
    /\ RejectJob(a)
    /\ UNCHANGED <<handle, wpc>>

(* A std::thread constructor throws after n workers exist. *)
SpawnThrows(a) ==
    /\ ~stopping /\ ~Full
    /\ \E n \in Started .. WorkerCount - 1 : StartUpTo(n)
    /\ RejectJob(a)

Accept(a) ==
    /\ ~stopping /\ ~Full
    /\ StartUpTo(WorkerCount)
    /\ queue' = Append(queue, arg[a])
    /\ call' = [call EXCEPT ![a] = "notify"]
    /\ arg' = [arg EXCEPT ![a] = NoJob]
    /\ UNCHANGED fut

(* The block under both locks. *)
Submit(a) ==
    /\ call[a] = "submit"
    /\ lifecycle_mutex_ = Free
    /\ Stopped(a) \/ QueueFull(a) \/ SpawnThrows(a) \/ Accept(a)
    /\ UNCHANGED <<stopping, lifecycle_mutex_, job, invoked, doomed, next>>

(* notify_one, after both locks are released. *)
SubmitNotify(a) ==
    /\ call[a] = "notify"
    /\ call' = [call EXCEPT ![a] = "none"]
    /\ wpc' \in WakeOne(wpc)
    /\ UNCHANGED <<queue, stopping, lifecycle_mutex_, handle, job, invoked, fut,
                   arg, doomed, next>>

-----------------------------------------------------------------------------
(* run_worker() *)

(* condition.wait, and the pop of the front job or the return. *)
LookNewest(w) ==
    /\ wpc[w] = "looking"
    /\ \/ /\ queue # << >>
          /\ job' = [job EXCEPT ![w] = queue[Len(queue)]]
          /\ queue' = SubSeq(queue, 1, Len(queue) - 1)
          /\ wpc' = [wpc EXCEPT ![w] = "running"]
          /\ invoked' = invoked \cup {queue[Len(queue)]}
       \/ /\ queue = << >>
          /\ wpc' = [wpc EXCEPT ![w] = IF stopping THEN "exited" ELSE "asleep"]
          /\ UNCHANGED <<job, queue, invoked>>
    /\ UNCHANGED <<stopping, lifecycle_mutex_, handle, fut, call, arg, doomed, next>>
Look(w) ==
    /\ wpc[w] = "looking"
    /\ \/ /\ queue # << >>
          /\ job' = [job EXCEPT ![w] = Head(queue)]
          /\ queue' = Tail(queue)
          /\ wpc' = [wpc EXCEPT ![w] = "running"]
          /\ invoked' = invoked \cup {Head(queue)}
       \/ /\ queue = << >>
          /\ wpc' = [wpc EXCEPT ![w] = IF stopping THEN "exited" ELSE "asleep"]
          /\ UNCHANGED <<job, queue, invoked>>
    /\ UNCHANGED <<stopping, lifecycle_mutex_, handle, fut, call, arg, doomed, next>>

SpuriousWake(w) ==
    /\ wpc[w] = "asleep"
    /\ wpc' = [wpc EXCEPT ![w] = "looking"]
    /\ UNCHANGED <<queue, stopping, lifecycle_mutex_, handle, job, invoked, fut,
                   call, arg, doomed, next>>

(* TypedJob::run: the callback's value or its exception reaches the        *)
(* promise; the worker goes back to its loop.                              *)
Finish(w, r) ==
    /\ wpc[w] = "running" /\ call[w] = "none"
    /\ fut' = [fut EXCEPT ![job[w]] = r]
    /\ wpc' = [wpc EXCEPT ![w] = "looking"]
    /\ job' = [job EXCEPT ![w] = NoJob]
    /\ UNCHANGED <<queue, stopping, lifecycle_mutex_, handle, invoked, call, arg,
                   doomed, next>>

-----------------------------------------------------------------------------
(* shutdown() *)

StartShutdown(a) ==
    /\ call' = [call EXCEPT ![a] = "shutdown"]
    /\ UNCHANGED <<queue, stopping, lifecycle_mutex_, handle, wpc, job, invoked,
                   fut, arg, doomed, next>>

CallShutdown(a) == Idle(a) /\ MayStop(a) /\ StartShutdown(a)

(* lifecycle_mutex_ is taken and kept; the queue is swapped out. *)
BeginShutdownCopies(a) ==
    /\ call[a] = "shutdown"
    /\ lifecycle_mutex_ = Free
    /\ lifecycle_mutex_' = a
    /\ stopping' = TRUE
    /\ doomed' = queue
    /\ call' = [call EXCEPT ![a] = "cancelling"]
    /\ UNCHANGED <<queue, handle, wpc, job, invoked, fut, arg, next>>
BeginShutdown(a) ==
    /\ call[a] = "shutdown"
    /\ lifecycle_mutex_ = Free
    /\ lifecycle_mutex_' = a
    /\ stopping' = TRUE
    /\ doomed' = queue
    /\ queue' = << >>
    /\ call' = [call EXCEPT ![a] = "cancelling"]
    /\ UNCHANGED <<handle, wpc, job, invoked, fut, arg, next>>

(* job->cancel(), one queued job after the other. *)
CancelQueued(a) ==
    /\ call[a] = "cancelling"
    /\ doomed # << >>
    /\ fut' = [fut EXCEPT ![Head(doomed)] = "cancelled"]
    /\ doomed' = Tail(doomed)
    /\ UNCHANGED <<queue, stopping, lifecycle_mutex_, handle, wpc, job, invoked,
                   call, arg, next>>

ShutdownNotify(a) ==
    /\ call[a] = "cancelling"
    /\ doomed = << >>
    /\ wpc' = WakeAll(wpc)
    /\ call' = [call EXCEPT ![a] = "joining"]
    /\ next' = 1
    /\ UNCHANGED <<queue, stopping, lifecycle_mutex_, handle, job, invoked, fut,
                   arg, doomed>>

(* join() blocks until the worker left run_worker; the caller's own thread *)
(* is detached instead.                                                    *)
ReapByDetaching(a, w) == Joinable(w) /\ handle' = [handle EXCEPT ![w] = "detached"]
Reap(a, w) ==
    \/ Joinable(w) /\ w = a /\ handle' = [handle EXCEPT ![w] = "detached"]
    \/ /\ Joinable(w) /\ w # a /\ wpc[w] = "exited"
       /\ handle' = [handle EXCEPT ![w] = "joined"]

JoinNext(a) ==
    /\ call[a] = "joining"
    /\ next <= Started
    /\ Reap(a, next) \/ (~Joinable(next) /\ UNCHANGED handle)
    /\ next' = next + 1
    /\ UNCHANGED <<queue, stopping, lifecycle_mutex_, wpc, job, invoked, fut,
                   call, arg, doomed>>

EndShutdown(a) ==
    /\ call[a] = "joining"
    /\ next > Started
    /\ lifecycle_mutex_' = Free
    /\ call' = [call EXCEPT ![a] = "none"]
    /\ UNCHANGED <<queue, stopping, handle, wpc, job, invoked, fut, arg, doomed, next>>

-----------------------------------------------------------------------------
Locking(a) == Submit(a) \/ BeginShutdown(a)
Calling(a) == \/ SubmitNotify(a) \/ CancelQueued(a) \/ ShutdownNotify(a)
              \/ JoinNext(a) \/ EndShutdown(a)
Working(w) == Look(w) \/ \E r \in {"value", "error"} : Finish(w, r)

Next ==
    \/ \E a \in Actors : \/ Locking(a) \/ Calling(a) \/ CallShutdown(a)
                         \/ \E j \in Jobs : CallSubmit(a, j)
    \/ \E w \in Workers : Working(w) \/ SpuriousWake(w)

Spec == Init /\ [][Next]_vars

-----------------------------------------------------------------------------
(* Properties *)

TypeOK ==
    /\ queue \in Seq(Jobs) /\ doomed \in Seq(Jobs)
    /\ stopping \in BOOLEAN
    /\ lifecycle_mutex_ \in Actors \cup {Free}
    /\ handle \in [Workers -> {"none", "joinable", "joined", "detached"}]
    /\ wpc \in [Workers -> {"absent", "looking", "asleep", "running", "exited"}]
    /\ job \in [Workers -> Jobs \cup {NoJob}]
    /\ invoked \subseteq Jobs
    /\ fut \in [Jobs -> Resolved \cup {"unsubmitted", "pending"}]
    /\ call \in [Actors -> {"none", "submit", "notify", "shutdown", "cancelling", "joining"}]
    /\ arg \in [Actors -> Jobs \cup {NoJob}]
    /\ next \in 1 .. WorkerCount + 1
    /\ \A a \in Actors : arg[a] # NoJob <=> call[a] = "submit"
    /\ \A w \in Workers : job[w] # NoJob <=> wpc[w] = "running"

(* Where an accepted or offered job is, in the queue, in a worker, in the  *)
(* hands of a submitter or of the shutdown that took the queue.            *)
Places(j) ==
    Cardinality({i \in DOMAIN queue : queue[i] = j})
    + Cardinality({i \in DOMAIN doomed : doomed[i] = j})
    + Cardinality({w \in Workers : job[w] = j})
    + Cardinality({a \in Actors : arg[a] = j})

(* No promise is lost or served twice: an unresolved job is in exactly one *)
(* place, a resolved one in none.                                          *)
PendingHasOneOwner == \A j \in Jobs : Places(j) = IF fut[j] = "pending" THEN 1 ELSE 0

(* A future is satisfied once; a shutdown never overwrites a result.       *)
FutureIsFinal ==
    [][\A j \in Jobs : fut[j] \in Resolved => fut'[j] = fut[j]]_vars

(* OperationCancelled and a rejection mean the callback was never invoked. *)
CancelledNeverRan ==
    \A j \in invoked : fut[j] \notin {"cancelled", "rejected"}

(* The bound on waiting jobs holds for every interleaving of submitters.   *)
QueueBounded == Len(queue) <= QueueCapacity

(* No lost wakeup: while workers sleep, every queued job has a worker on   *)
(* its way to the queue or a notify_one still to come.                     *)
NoSleepingOnWork ==
    Asleep(wpc) # {} =>
        Len(queue) <= Cardinality({w \in Workers : wpc[w] = "looking"})
                      + Cardinality({a \in Actors : call[a] = "notify"})

(* When a shutdown has returned, no callback runs except one that called   *)
(* shutdown() itself, and nothing is queued.                               *)
QuietAfterShutdown ==
    stopping /\ lifecycle_mutex_ = Free =>
        /\ queue = << >> /\ doomed = << >>
        /\ \A w \in Workers :
             wpc[w] = "running" => handle[w] = "detached" /\ job[w] \in Stoppers

(* The executor is a service of jobs: its locks, its condition variable,   *)
(* the start, the wakeups and the joining of its workers implement         *)
(* JobService, which starts jobs in the order of their acceptance.         *)
Service == INSTANCE JobService WITH
    Capacity <- QueueCapacity,
    Parallel <- WorkerCount,
    waiting <- queue,
    running <- {job[w] : w \in Workers} \ {NoJob},
    condemned <- {doomed[i] : i \in DOMAIN doomed},
    outcome <- [j \in Jobs |-> IF fut[j] \in Resolved THEN fut[j] ELSE "none"],
    closed <- stopping
ImplementsJobService == Service!Spec
=============================================================================
