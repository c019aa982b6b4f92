----------------------------- MODULE AsyncPool -----------------------------
(***************************************************************************)
(* ConnectionPool::submit and ConnectionPool::close of                     *)
(* include/cpplinq/driver/connection_pool.h: the job executor and the      *)
(* connection pool put together under close_mutex_.                        *)
(*                                                                         *)
(* The executor's actions are those of TaskExecutor.  The connections obey *)
(* LeasePool, which ConnectionPool implements; here its callers are the    *)
(* workers, and the threads that lease by calling acquire() themselves.    *)
(***************************************************************************)
EXTENDS Integers, Sequences, FiniteSets

CONSTANTS
    Jobs, Threads, Free, NoJob,
    Lessees,           \* threads that also lease connections themselves
    Submitters,        \* jobs whose callback calls pool.submit()
    Stoppers,          \* jobs whose callback calls pool.close()
    TokenJobs,         \* jobs submitted with a std::stop_token
    async_worker_count, async_queue_capacity,      \* of PoolConfig
    Conns, MaxConns, MinConns

ASSUME AsyncAssumption ==
    /\ async_worker_count \in Nat /\ async_queue_capacity \in Nat /\ MaxConns \in Nat
    /\ Threads \cap Nat = {} /\ Free \notin Threads \cup Nat
    /\ NoJob \notin Jobs
    /\ IsFiniteSet(Jobs) /\ IsFiniteSet(Threads)
    /\ Lessees \subseteq Threads
    /\ Submitters \subseteq Jobs /\ Stoppers \subseteq Jobs

(* PoolConfig as the constructor leaves it: never more workers than        *)
(* connections.                                                            *)
AsyncWorkers == IF async_worker_count = 0 \/ async_worker_count > MaxConns
                THEN MaxConns ELSE async_worker_count

VARIABLES
    (* executor_ *)
    queue, stopping, lifecycle_mutex_, handle, wpc, job, invoked, fut, call,
    arg, doomed, next,
    (* state_ *)
    idle, leased, broken, opening, dying, closed,
    (* the pool itself *)
    close_mutex_,
    api,        \* the pool call an actor is in
    offer,      \* the job it submits
    at,         \* where each worker is in the submitted lambda
    outcome,    \* what the lambda will return or throw
    ran,        \* jobs whose user callback was invoked
    stopped     \* jobs whose token was stopped

execVars == <<queue, stopping, lifecycle_mutex_, handle, wpc, job, invoked, fut,
              call, arg, doomed, next>>
poolVars == <<idle, leased, broken, opening, dying, closed>>
bodyVars == <<at, outcome, ran>>
vars == <<execVars, poolVars, bodyVars, close_mutex_, api, offer, stopped>>

Exec == INSTANCE TaskExecutor WITH
    worker_count <- AsyncWorkers, queue_capacity <- async_queue_capacity
Pool == INSTANCE LeasePool WITH Callers <- Exec!Actors, doomed <- dying

Workers == Exec!Workers
Actors == Exec!Actors

Init ==
    /\ Exec!Init
    /\ Pool!Init
    /\ close_mutex_ = Free
    /\ api = [a \in Actors |-> "none"]
    /\ offer = [a \in Actors |-> NoJob]
    /\ at = [w \in Workers |-> "none"]
    /\ outcome = [w \in Workers |-> "none"]
    /\ ran = {}
    /\ stopped = {}

-----------------------------------------------------------------------------
(* Mutants, here and below: definitions named for a plausible bug stand    *)
(* before the definition they replace when a property is put to the test.  *)

(* Who may call the pool: an application thread, or a running callback     *)
(* that does so.                                                           *)
InCallback(w) == wpc[w] = "running" /\ at[w] = "callback"
Idle(a) == api[a] = "none" /\ a \notin opening /\ (a \in Workers => InCallback(a))
MaySubmit(a) == a \in Workers => job[a] \in Submitters
MayClose(a) == a \in Workers => job[a] \in Stoppers

(* submit_impl() *)

CallSubmit(a, j) ==
    /\ Idle(a) /\ MaySubmit(a)
    /\ fut[j] = "unsubmitted"
    /\ \A b \in Actors : offer[b] # j
    /\ api' = [api EXCEPT ![a] = "submit"]
    /\ offer' = [offer EXCEPT ![a] = j]
    /\ UNCHANGED <<execVars, poolVars, bodyVars, close_mutex_, stopped>>

(* close_mutex_, then is_closed(): a closed pool answers with a future     *)
(* that holds an exception and leaves close_mutex_ at once.                *)
RefuseSubmit(a) ==
    /\ api[a] = "submit"
    /\ close_mutex_ = Free
    /\ closed
    /\ fut' = [fut EXCEPT ![offer[a]] = "rejected"]
    /\ api' = [api EXCEPT ![a] = "none"]
    /\ offer' = [offer EXCEPT ![a] = NoJob]
    /\ UNCHANGED <<queue, stopping, lifecycle_mutex_, handle, wpc, job, invoked,
                   call, arg, doomed, next, poolVars, bodyVars, close_mutex_, stopped>>

(* Otherwise close_mutex_ is kept while the executor takes the job.        *)
OfferJob(a) ==
    /\ api[a] = "submit"
    /\ close_mutex_ = Free
    /\ ~closed
    /\ close_mutex_' = a
    /\ Exec!MakeJob(a, offer[a])
    /\ api' = [api EXCEPT ![a] = "submitting"]
    /\ offer' = [offer EXCEPT ![a] = NoJob]
    /\ UNCHANGED <<poolVars, bodyVars, stopped>>

-----------------------------------------------------------------------------
(* close(), and the destructor, which calls it.                            *)

CallClose(a) ==
    /\ Idle(a) /\ MayClose(a)
    /\ api' = [api EXCEPT ![a] = "close"]
    /\ UNCHANGED <<execVars, poolVars, bodyVars, close_mutex_, offer, stopped>>

ClosePool(a) ==
    /\ api[a] = "close"
    /\ close_mutex_ = Free
    /\ close_mutex_' = a
    /\ api' = [api EXCEPT ![a] = "draining"]
    /\ IF closed THEN UNCHANGED poolVars ELSE Pool!Close(a)
    /\ UNCHANGED <<execVars, bodyVars, offer, stopped>>

(* The idle connections are closed before the executor is shut down.       *)
ShutDown(a) ==
    /\ api[a] = "draining"
    /\ dying[a] = {}
    /\ Exec!StartShutdown(a)
    /\ api' = [api EXCEPT ![a] = "closing"]
    /\ UNCHANGED <<poolVars, bodyVars, close_mutex_, offer, stopped>>

(* The executor's call is over: close_mutex_ is released.                  *)
LeaveEarly(a) ==
    /\ api[a] \in {"submitting", "closing"}
    /\ close_mutex_' = Free
    /\ api' = [api EXCEPT ![a] = "none"]
    /\ UNCHANGED <<execVars, poolVars, bodyVars, offer, stopped>>
Leave(a) ==
    /\ api[a] \in {"submitting", "closing"}
    /\ call[a] = "none"
    /\ close_mutex_' = Free
    /\ api' = [api EXCEPT ![a] = "none"]
    /\ UNCHANGED <<execVars, poolVars, bodyVars, offer, stopped>>

-----------------------------------------------------------------------------
(* The lambda a worker runs *)

RequestStop(j) ==
    /\ j \in TokenJobs \ stopped
    /\ stopped' = stopped \cup {j}
    /\ UNCHANGED <<execVars, poolVars, bodyVars, close_mutex_, api, offer>>

(* A step of worker w's lambda at point p, to point q.                     *)
Body(w, p, q) ==
    /\ wpc[w] = "running"
    /\ at[w] = p
    /\ at' = [at EXCEPT ![w] = q]
    /\ UNCHANGED <<execVars, close_mutex_, api, offer, stopped>>

ThrowSwallowed(w, r) == UNCHANGED <<outcome, ran>>
Throw(w, r) == outcome' = [outcome EXCEPT ![w] = r] /\ UNCHANGED ran

(* Both tests before the acquisition throw OperationCancelled.             *)
CancelEarly(w) ==
    /\ job[w] \in stopped \/ closed
    /\ Body(w, "none", "thrown")
    /\ Throw(w, "cancelled")
    /\ UNCHANGED poolVars

BeginAcquire(w) ==
    /\ job[w] \notin stopped /\ ~closed
    /\ Body(w, "none", "acquiring")
    /\ UNCHANGED <<poolVars, outcome, ran>>

(* state->acquire(): a lease ...                                           *)
TakeIdle(w) ==
    /\ Body(w, "acquiring", "leased")
    /\ Pool!Take(w)
    /\ UNCHANGED <<outcome, ran>>

ReserveSlot(w) ==
    /\ Body(w, "acquiring", "opening")
    /\ Pool!Reserve(w)
    /\ UNCHANGED <<outcome, ran>>

OpenConnection(w) ==
    /\ Body(w, "opening", "leased")
    /\ Pool!Opened(w)
    /\ UNCHANGED <<outcome, ran>>

(* ... or an exception: the open failed, the token was stopped, the pool   *)
(* was closed, or acquire_timeout passed with the pool exhausted.          *)
OpenFails(w) ==
    /\ Body(w, "opening", "failed")
    /\ Pool!OpenFailed(w)
    /\ Throw(w, "error")

AcquireFails(w) ==
    /\ Body(w, "acquiring", "failed")
    /\ \/ job[w] \in stopped /\ Throw(w, "cancelled")
       \/ closed /\ Throw(w, "error")
       \/ idle = {} /\ Pool!Used >= MaxConns /\ Throw(w, "error")
    /\ UNCHANGED poolVars

(* The handler looks at the pool again: whatever acquire() threw, on a     *)
(* pool closed by now it becomes OperationCancelled.                       *)
Catch(w) ==
    /\ Body(w, "failed", "thrown")
    /\ Throw(w, IF closed THEN "cancelled" ELSE outcome[w])
    /\ UNCHANGED poolVars

(* The last test before the callback. *)
CancelLateKeepsLease(w) ==
    /\ job[w] \in stopped
    /\ Body(w, "leased", "thrown")
    /\ Throw(w, "cancelled")
    /\ UNCHANGED poolVars
CancelLate(w) ==
    /\ job[w] \in stopped
    /\ Body(w, "leased", "releasing")
    /\ Throw(w, "cancelled")
    /\ UNCHANGED poolVars

Invoke(w) ==
    /\ job[w] \notin stopped
    /\ Body(w, "leased", "callback")
    /\ ran' = ran \cup {job[w]}
    /\ UNCHANGED <<poolVars, outcome>>

(* The callback returns or throws. *)
EndCallbackInsideTry(w) ==
    /\ api[w] = "none"
    /\ Body(w, "callback", "releasing")
    /\ \E r \in {"value", "error"} : Throw(w, IF closed THEN "cancelled" ELSE r)
    /\ UNCHANGED poolVars
EndCallback(w) ==
    /\ api[w] = "none"
    /\ Body(w, "callback", "releasing")
    /\ \E r \in {"value", "error"} : Throw(w, r)
    /\ UNCHANGED poolVars

(* A server drops a connection, the callback's or an idle one. *)
LoseConnection(w) ==
    /\ Body(w, "callback", "callback")
    /\ ~ (idle \cup leased[w]) \subseteq broken
    /\ Pool!Break(w)
    /\ UNCHANGED <<outcome, ran>>

(* The lease is a local of the lambda: its destructor runs before the      *)
(* result leaves the lambda, and closes the connection of a closed pool.   *)
ReleaseLease(w) ==
    /\ Body(w, "releasing", "thrown")
    /\ Pool!GiveBack(w)
    /\ UNCHANGED <<outcome, ran>>

CloseConn(a) ==
    /\ Pool!Destroy(a)
    /\ UNCHANGED <<execVars, bodyVars, close_mutex_, api, offer, stopped>>

(* TypedJob::run satisfies the promise with what left the lambda.          *)
Resolve(w) ==
    /\ at[w] = "thrown"
    /\ dying[w] = {}
    /\ Exec!Finish(w, outcome[w])
    /\ at' = [at EXCEPT ![w] = "none"]
    /\ outcome' = [outcome EXCEPT ![w] = "none"]
    /\ UNCHANGED <<poolVars, ran, close_mutex_, api, offer, stopped>>

-----------------------------------------------------------------------------
(* A thread's own lease, on the same pool. *)
SyncAcquire(t) ==
    /\ api[t] = "none"
    /\ Pool!Take(t) \/ Pool!Reserve(t) \/ Pool!Opened(t) \/ Pool!OpenFailed(t)
    /\ UNCHANGED <<execVars, bodyVars, close_mutex_, api, offer, stopped>>

SyncRelease(t) ==
    /\ leased[t] # {}
    /\ Pool!GiveBack(t)
    /\ UNCHANGED <<execVars, bodyVars, close_mutex_, api, offer, stopped>>

-----------------------------------------------------------------------------
AcquireStep(w) ==
    \/ TakeIdle(w) \/ ReserveSlot(w) \/ OpenConnection(w) \/ OpenFails(w)
    \/ AcquireFails(w) \/ Catch(w)
LambdaStep(w) ==
    \/ CancelEarly(w) \/ BeginAcquire(w) \/ AcquireStep(w) \/ CancelLate(w)
    \/ Invoke(w) \/ EndCallback(w) \/ ReleaseLease(w) \/ Resolve(w)

(* Steps of the executor that are its own. *)
ExecutorStep(A) == A /\ UNCHANGED <<poolVars, bodyVars, close_mutex_, api, offer, stopped>>
CallStep(a) == ExecutorStep(Exec!Calling(a)) \/ Leave(a) \/ ShutDown(a) \/ CloseConn(a)
LockStep(a) == ExecutorStep(Exec!Locking(a)) \/ RefuseSubmit(a) \/ OfferJob(a) \/ ClosePool(a)
WorkerStep(w) == ExecutorStep(Exec!Look(w)) \/ LambdaStep(w)

Next ==
    \/ \E a \in Actors :
          \/ CallStep(a) \/ LockStep(a) \/ CallClose(a)
          \/ \E j \in Jobs : CallSubmit(a, j)
    \/ \E w \in Workers :
          WorkerStep(w) \/ LoseConnection(w) \/ ExecutorStep(Exec!SpuriousWake(w))
    \/ \E j \in Jobs : RequestStop(j)
    \/ \E t \in Lessees : SyncAcquire(t) \/ SyncRelease(t)

Spec == Init /\ [][Next]_vars

(* Every thread is scheduled, a mutex is granted to a thread that keeps    *)
(* asking, callbacks end, and acquire() returns (CallReturns of            *)
(* ConnectionPool).                                                        *)
Fairness ==
    /\ \A a \in Actors : WF_vars(CallStep(a)) /\ SF_vars(LockStep(a))
    /\ \A w \in Workers : WF_vars(WorkerStep(w))

FairSpec == Spec /\ Fairness

-----------------------------------------------------------------------------
(* Properties *)

TypeOK ==
    /\ Exec!TypeOK
    /\ close_mutex_ \in Actors \cup {Free}
    /\ api \in [Actors -> {"none", "submit", "submitting", "close", "draining", "closing"}]
    /\ offer \in [Actors -> Jobs \cup {NoJob}]
    /\ at \in [Workers -> {"none", "acquiring", "opening", "failed", "leased",
                           "callback", "releasing", "thrown"}]
    /\ outcome \in [Workers -> {"none", "value", "error", "cancelled"}]
    /\ ran \subseteq invoked
    /\ stopped \subseteq TokenJobs

(* A ready future means the connection is already back, or closed: get()   *)
(* followed by acquire() finds it.  It holds on the paths that throw too.  *)
LeaseBackBeforeReady ==
    \A w \in Workers :
        leased[w] # {} \/ w \in opening \/ (dying[w] # {} /\ call[w] = "none" /\ api[w] = "none")
            => job[w] \in Jobs /\ fut[job[w]] = "pending"

(* OperationCancelled from the library and a rejection both mean that the  *)
(* callback never started, so the operation can be submitted again.        *)
CancelledNeverRan == \A j \in ran : fut[j] \notin {"cancelled", "rejected"}

(* After close() has returned nothing of the pool is at work but callbacks *)
(* that called close() themselves: no connection is open, no future will   *)
(* change and none is pending.                                             *)
Surviving == {w \in Workers : handle[w] = "detached" /\ job[w] \in Stoppers}
QuietAfterClose ==
    closed /\ close_mutex_ = Free =>
        /\ idle = {}
        /\ \A a \in (Actors \ Lessees) \ Surviving : dying[a] = {}
        /\ \A w \in Workers \ Surviving : leased[w] = {} /\ w \notin opening /\ job[w] = NoJob
        /\ \A j \in Jobs : fut[j] = "pending" => \E w \in Surviving : job[w] = j

(* No callback starts on a pool whose close() has returned, not even on a  *)
(* worker that survived it.                                                *)
NoStartAfterClose ==
    [][closed /\ close_mutex_ = Free => ran' = ran]_vars

(* Every submitted operation is answered. *)
SubmissionsAnswered ==
    \A j \in Jobs : (fut[j] = "pending" \/ \E a \in Actors : offer[a] = j)
                        ~> fut[j] \in Exec!Resolved

(* close() returns. *)
CloseReturns == \A a \in Actors :
    api[a] \in {"close", "draining", "closing"} ~> api[a] = "none"
=============================================================================
