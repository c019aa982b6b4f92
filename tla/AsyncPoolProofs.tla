-------------------------- MODULE AsyncPoolProofs --------------------------
(***************************************************************************)
(* Proofs about AsyncPool, for any jobs and connections, any finite number *)
(* of threads, any pool sizes and any worker count and queue capacity.     *)
(*                                                                         *)
(* The executor's invariant is taken from TaskExecutorProofs, where it was *)
(* proved for callbacks that end in any way.  What is added says where the *)
(* calls of the pool, the submitted lambda and the connections are when    *)
(* the executor is at a given point.                                       *)
(***************************************************************************)
EXTENDS AsyncPool, TLAPS

P == INSTANCE TaskExecutorProofs WITH
    worker_count <- AsyncWorkers, queue_capacity <- async_queue_capacity

(* The calls of the pool hold close_mutex_ around those of the executor.   *)
CallsShape ==
    /\ \A a \in Actors :
          /\ close_mutex_ = a <=> api[a] \in {"submitting", "draining", "closing"}
          /\ call[a] # "none" => api[a] \in {"submitting", "closing"}
          /\ api[a] = "submitting" => call[a] \in {"none", "submit", "notify"}
          /\ api[a] = "closing" => /\ call[a] \in {"none", "shutdown", "cancelling", "joining"}
                                   /\ call[a] = "none" => stopping
    /\ \A w \in Workers :
          /\ api[w] # "none" => at[w] = "callback"
          /\ api[w] = "submit" => job[w] \in Submitters
          /\ api[w] \in {"close", "draining"} => job[w] \in Stoppers
    /\ closed => stopping \/ \E a \in Actors : api[a] \in {"draining", "closing"}

(* A job on its way to submit() is nobody else's.                          *)
OfferShape ==
    /\ \A a \in Actors : /\ offer[a] # NoJob <=> api[a] = "submit"
                         /\ offer[a] # NoJob => fut[offer[a]] = "unsubmitted"
    /\ \A a, b \in Actors : offer[a] = offer[b] /\ offer[a] # NoJob => a = b

(* The lambda runs in a callback of the executor.                          *)
LambdaShape ==
    \A w \in Workers :
        /\ at[w] # "none" => wpc[w] = "running"
        /\ at[w] \in {"failed", "releasing", "thrown"} => outcome[w] # "none"
        /\ wpc[w] = "running" => job[w] \in invoked
        /\ handle[w] = "detached" /\ wpc[w] = "running" =>
               at[w] \in {"callback", "releasing", "thrown"}

(* Whoever owns a connection is at a place that gives it up.               *)
LeaseShape ==
    /\ idle \subseteq Conns /\ opening \subseteq Actors /\ closed \in BOOLEAN
    /\ leased \in [Actors -> SUBSET Conns] /\ dying \in [Actors -> SUBSET Conns]
    /\ closed => idle = {}
    /\ \A w \in Workers :
          /\ leased[w] # {} => at[w] \in {"leased", "callback", "releasing"}
          /\ w \in opening => at[w] = "opening"
          /\ dying[w] # {} => at[w] = "thrown" \/ api[w] = "draining"
    /\ \A t \in Threads \ Lessees : dying[t] # {} => api[t] = "draining"

(* A user callback that was invoked runs, or is over and answers with its  *)
(* own result.                                                             *)
RanShape ==
    \A j \in ran :
        \/ fut[j] \in {"value", "error"}
        \/ \E w \in Workers :
              /\ job[w] = j
              /\ \/ at[w] = "callback"
                 \/ at[w] \in {"releasing", "thrown"} /\ outcome[w] \in {"value", "error"}

AInv == P!IInv /\ TypeOK /\ CallsShape /\ OfferShape /\ LambdaShape /\ LeaseShape /\ RanShape

-----------------------------------------------------------------------------
(* The executor of AsyncPool is the one of the proofs.                     *)
LEMMA Assumed == P!ExecutorAssumption
BY AsyncAssumption DEF P!ExecutorAssumption, AsyncWorkers, P!IsFiniteSet, IsFiniteSet

LEMMA SameActors == Workers = P!Workers /\ Actors = P!Actors /\ Exec!Resolved = P!Resolved
BY DEF Workers, Actors, Exec!Workers, Exec!Actors, P!Workers, P!Actors, Exec!Resolved, P!Resolved,
       Exec!WorkerCount, P!WorkerCount

LEMMA SameTypes == (Exec!TypeOK <=> P!TypeOK) /\ (Exec!TypeOK' <=> P!TypeOK')
BY SameActors DEF Workers, Actors, Exec!WorkerCount, P!WorkerCount, Exec!TypeOK, P!TypeOK

LEMMA SameStarted == Exec!Started = P!Started
BY SameActors DEF Workers, Exec!Started, P!Started, Exec!Cardinality, P!Cardinality

LEMMA SameStartUpTo == ASSUME NEW n PROVE Exec!StartUpTo(n) <=> P!StartUpTo(n)
BY SameActors DEF Workers, Exec!StartUpTo, P!StartUpTo

LEMMA SameLocking == ASSUME NEW a PROVE Exec!Locking(a) <=> P!Locking(a)
<1>1. Exec!WorkerCount = P!WorkerCount /\ (Exec!Full <=> P!Full)
  BY DEF Exec!WorkerCount, P!WorkerCount, Exec!Full, P!Full, Exec!QueueCapacity, P!QueueCapacity
<1>2. Exec!RejectJob(a) <=> P!RejectJob(a)
  BY DEF Exec!RejectJob, P!RejectJob
<1>3. Exec!SpawnThrows(a) <=> P!SpawnThrows(a)
  BY <1>1, <1>2, SameStarted, SameStartUpTo DEF Exec!SpawnThrows, P!SpawnThrows
<1>4. Exec!Accept(a) <=> P!Accept(a)
  BY <1>1, SameStartUpTo DEF Exec!Accept, P!Accept
<1>5. Exec!Submit(a) <=> P!Submit(a)
  BY <1>1, <1>2, <1>3, <1>4 DEF Exec!Submit, P!Submit, Exec!Stopped, P!Stopped, Exec!QueueFull, P!QueueFull
<1>6. Exec!BeginShutdown(a) <=> P!BeginShutdown(a)
  BY DEF Exec!BeginShutdown, P!BeginShutdown
<1> QED BY <1>5, <1>6 DEF Exec!Locking, P!Locking

LEMMA SameCalling == ASSUME NEW a PROVE Exec!Calling(a) <=> P!Calling(a)
<1>1. Exec!SubmitNotify(a) <=> P!SubmitNotify(a)
  BY SameActors DEF Workers, Exec!SubmitNotify, P!SubmitNotify, Exec!WakeOne, P!WakeOne, Exec!Asleep, P!Asleep
<1>2. Exec!CancelQueued(a) <=> P!CancelQueued(a)
  BY DEF Exec!CancelQueued, P!CancelQueued
<1>3. Exec!ShutdownNotify(a) <=> P!ShutdownNotify(a)
  BY SameActors DEF Workers, Exec!ShutdownNotify, P!ShutdownNotify, Exec!WakeAll, P!WakeAll
<1>4. Exec!Reap(a, next) <=> P!Reap(a, next)
  BY DEF Exec!Reap, P!Reap, Exec!Joinable, P!Joinable
<1>5. Exec!JoinNext(a) <=> P!JoinNext(a)
  BY <1>4, SameStarted DEF Exec!JoinNext, P!JoinNext, Exec!Joinable, P!Joinable
<1>6. Exec!EndShutdown(a) <=> P!EndShutdown(a)
  BY SameStarted DEF Exec!EndShutdown, P!EndShutdown
<1> QED BY <1>1, <1>2, <1>3, <1>5, <1>6 DEF Exec!Calling, P!Calling

LEMMA SameWorking == ASSUME NEW w PROVE /\ Exec!Look(w) <=> P!Look(w)
                                        /\ Exec!SpuriousWake(w) <=> P!SpuriousWake(w)
BY DEF Exec!Look, P!Look, Exec!SpuriousWake, P!SpuriousWake

-----------------------------------------------------------------------------
(* What the invariants say, in the pool's own terms.                       *)
Places == {"none", "acquiring", "opening", "failed", "leased", "callback", "releasing", "thrown"}
Outcomes == {"none", "value", "error", "cancelled"}

LEMMA Sizes == /\ Actors = Threads \cup Workers /\ Threads \cap Workers = {}
               /\ Free \notin Actors /\ NoJob \notin Jobs /\ Lessees \subseteq Threads
BY Assumed, P!Sizes, SameActors, AsyncAssumption DEF Actors, Exec!Actors, Workers

(* TypeOK without the executor's part.                                     *)
OwnTypes ==
    /\ close_mutex_ \in Actors \cup {Free}
    /\ api \in [Actors -> {"none", "submit", "submitting", "close", "draining", "closing"}]
    /\ offer \in [Actors -> Jobs \cup {NoJob}]
    /\ at \in [Workers -> Places]
    /\ outcome \in [Workers -> Outcomes]
    /\ ran \subseteq invoked
    /\ stopped \subseteq TokenJobs

LEMMA OwnTyped == /\ P!IInv => (TypeOK <=> OwnTypes)
                  /\ P!IInv' => (TypeOK' <=> OwnTypes')
BY SameTypes DEF P!IInv, TypeOK, OwnTypes, Places, Outcomes

LEMMA ExecTypes ==
    ASSUME P!IInv
    PROVE  /\ queue \in Seq(Jobs) /\ doomed \in Seq(Jobs) /\ invoked \subseteq Jobs
           /\ handle \in [Workers -> {"none", "joinable", "joined", "detached"}]
           /\ wpc \in [Workers -> {"absent", "looking", "asleep", "running", "exited"}]
           /\ job \in [Workers -> Jobs \cup {NoJob}]
           /\ fut \in [Jobs -> P!Resolved \cup {"unsubmitted", "pending"}]
           /\ call \in [Actors -> {"none", "submit", "notify", "shutdown", "cancelling", "joining"}]
           /\ arg \in [Actors -> Jobs \cup {NoJob}]
           /\ \A a \in Actors : arg[a] # NoJob <=> call[a] = "submit"
           /\ \A w \in Workers : job[w] # NoJob <=> wpc[w] = "running"
BY SameActors DEF P!IInv, P!TypeOK

(* A running job is one worker's and has no answer yet.                    *)
LEMMA RunningJobs ==
    ASSUME P!IInv
    PROVE  /\ \A w \in Workers : wpc[w] = "running" =>
                  job[w] \in Jobs /\ fut[job[w]] = "pending" /\ job[w] \in P!Held(job)
           /\ \A v, w \in Workers : job[v] = job[w] /\ job[v] # NoJob => v = w
<1>1. DOMAIN job = Workers
  BY ExecTypes
<1>2. \A w \in Workers : wpc[w] = "running" => job[w] \in Jobs /\ job[w] \in P!Held(job)
  BY <1>1, ExecTypes, Sizes DEF P!Held
<1>3. \A j \in Jobs : j \in P!Held(job) => fut[j] = "pending"
  BY DEF P!IInv, P!JobsInv, P!PendingOwned
<1>4. P!Single(job)
  BY DEF P!IInv, P!JobsInv, P!JobsApart
<1> QED BY <1>1, <1>2, <1>3, <1>4 DEF P!Single

(* Threads of the executor.                                                *)
LEMMA ExecThreads ==
    ASSUME P!IInv
    PROVE  /\ \A w \in Workers : call[w] # "none" => wpc[w] = "running"
           /\ \A a \in Actors : lifecycle_mutex_ = a <=> call[a] \in {"cancelling", "joining"}
           /\ lifecycle_mutex_ # Free => stopping
           /\ stopping => queue = << >>
           /\ \A w \in Workers : handle[w] = "detached" => stopping
BY SameActors DEF P!IInv, P!ThreadsInv, P!CallShape, P!LockShape, P!StopShape

-----------------------------------------------------------------------------
(* The executor's own steps: a call moves on, a worker looks for a job.    *)
ExecStep ==
    \/ \E a \in Actors : Exec!Calling(a) \/ Exec!Locking(a)
    \/ \E w \in Workers : Exec!Look(w) \/ Exec!SpuriousWake(w)

LEMMA ExecKeeps ==
    ASSUME P!IInv, ExecStep
    PROVE  P!IInv' /\ P!Undisturbed
<1>1. P!OwnStep
  BY SameActors, SameLocking, SameCalling, SameWorking DEF ExecStep, P!OwnStep
<1>2. P!AnyNext
  BY <1>1 DEF P!OwnStep, P!AnyNext, P!Next, P!Working
<1> QED BY <1>1, <1>2, Assumed, P!InvKept, P!OwnSteps

(* A call stays the one it is until it ends, and a shutdown that ends has  *)
(* set the flag.                                                           *)
Continues(a) ==
    \/ call'[a] = call[a]
    \/ call[a] \in {"submit", "notify"} /\ call'[a] \in {"none", "notify"}
    \/ call[a] \in {"shutdown", "cancelling", "joining"} /\ call'[a] \in {"cancelling", "joining"}
    \/ call[a] = "joining" /\ call'[a] = "none" /\ stopping'

LEMMA CallsContinue ==
    ASSUME P!IInv, ExecStep
    PROVE  \A a \in Actors : Continues(a)
<1>1. /\ call \in [Actors -> {"none", "submit", "notify", "shutdown", "cancelling", "joining"}]
      /\ \A a \in Actors : call[a] = "joining" => stopping
  BY ExecTypes, ExecThreads, Sizes
<1>2. ASSUME NEW a \in Actors, Exec!Calling(a)
      PROVE  \A b \in Actors : Continues(b)
  BY <1>1, <1>2 DEF Exec!Calling, Exec!SubmitNotify, Exec!CancelQueued, Exec!ShutdownNotify, Exec!JoinNext,
                    Exec!EndShutdown, Continues
<1>3. ASSUME NEW a \in Actors, Exec!Locking(a)
      PROVE  \A b \in Actors : Continues(b)
  BY <1>1, <1>3 DEF Exec!Locking, Exec!Submit, Exec!Stopped, Exec!QueueFull, Exec!SpawnThrows, Exec!Accept,
                    Exec!RejectJob, Exec!BeginShutdown, Continues
<1>4. ASSUME NEW w \in Workers, Exec!Look(w) \/ Exec!SpuriousWake(w)
      PROVE  \A b \in Actors : Continues(b)
  BY <1>4 DEF Exec!Look, Exec!SpuriousWake, Continues
<1> QED BY <1>2, <1>3, <1>4 DEF ExecStep

(* Only the worker that shuts the executor down is detached, and a worker  *)
(* gets no job from an executor that stops.                                *)
LEMMA Detaching ==
    ASSUME P!IInv, ExecStep, NEW w \in Workers
    PROVE  /\ handle'[w] = "detached" => handle[w] = "detached" \/ call[w] = "joining"
           /\ wpc'[w] = "running" /\ wpc[w] # "running" => ~stopping /\ handle'[w] = handle[w]
<1>1. /\ handle \in [Workers -> {"none", "joinable", "joined", "detached"}]
      /\ wpc \in [Workers -> {"absent", "looking", "asleep", "running", "exited"}]
      /\ stopping => queue = << >>
  BY ExecTypes, ExecThreads
<1>2. ASSUME NEW a \in Actors, Exec!Calling(a)
      PROVE  /\ handle'[w] = "detached" => handle[w] = "detached" \/ call[w] = "joining"
             /\ wpc'[w] = "running" => wpc[w] = "running"
  BY <1>1, <1>2 DEF Exec!Calling, Exec!SubmitNotify, Exec!CancelQueued, Exec!ShutdownNotify, Exec!JoinNext,
                    Exec!EndShutdown, Exec!Reap, Exec!WakeOne, Exec!WakeAll, Exec!Asleep, Workers
<1>3. ASSUME NEW a \in Actors, Exec!Locking(a)
      PROVE  /\ handle'[w] = "detached" => handle[w] = "detached"
             /\ wpc'[w] = "running" => wpc[w] = "running"
  BY <1>1, <1>3 DEF Exec!Locking, Exec!Submit, Exec!Stopped, Exec!QueueFull, Exec!SpawnThrows, Exec!Accept,
                    Exec!RejectJob, Exec!BeginShutdown, Exec!StartUpTo, Workers
<1>4. ASSUME NEW v \in Workers, Exec!Look(v) \/ Exec!SpuriousWake(v)
      PROVE  /\ handle'[w] = handle[w]
             /\ wpc'[w] = "running" /\ wpc[w] # "running" => ~stopping
  BY <1>1, <1>4 DEF Exec!Look, Exec!SpuriousWake
<1> QED BY <1>2, <1>3, <1>4 DEF ExecStep

ownVars == <<poolVars, bodyVars, close_mutex_, api, offer, stopped>>

LEMMA ExecStepInv ==
    ASSUME AInv, ExecStep, UNCHANGED ownVars
    PROVE  AInv'
<1>1. P!IInv /\ OwnTypes /\ CallsShape /\ OfferShape /\ LambdaShape /\ LeaseShape /\ RanShape
  BY OwnTyped DEF AInv
<1>2. /\ P!IInv' /\ (stopping => stopping')
      /\ \A j \in Jobs : fut[j] # "pending" \/ j \in P!Held(job) => fut'[j] = fut[j]
      /\ \A w \in Workers : /\ wpc[w] = "running" => wpc'[w] = "running" /\ job'[w] = job[w]
                            /\ wpc'[w] = "running" => wpc[w] = "running" \/ job'[w] \in invoked'
      /\ invoked \subseteq invoked'
  BY <1>1, ExecKeeps, SameActors DEF P!Undisturbed
<1>3. /\ idle' = idle /\ leased' = leased /\ opening' = opening /\ dying' = dying /\ closed' = closed
      /\ at' = at /\ outcome' = outcome /\ ran' = ran /\ close_mutex_' = close_mutex_ /\ api' = api
      /\ offer' = offer /\ stopped' = stopped
  BY DEF ownVars, poolVars, bodyVars
<1>4. OwnTypes'
  BY <1>1, <1>2, <1>3 DEF OwnTypes
<1>5. \A w \in Workers : at[w] # "none" => wpc[w] = "running"
  BY <1>1 DEF LambdaShape
<1>6. CallsShape'
  <2>1. \A a \in Actors : Continues(a)
    BY <1>1, CallsContinue
  <2>2. \A w \in Workers : api[w] # "none" => job'[w] = job[w]
    BY <1>1, <1>2, <1>5 DEF CallsShape
  <2>3. ASSUME NEW a \in Actors
        PROVE  /\ close_mutex_' = a <=> api'[a] \in {"submitting", "draining", "closing"}
               /\ call'[a] # "none" => api'[a] \in {"submitting", "closing"}
               /\ api'[a] = "submitting" => call'[a] \in {"none", "submit", "notify"}
               /\ api'[a] = "closing" => /\ call'[a] \in {"none", "shutdown", "cancelling", "joining"}
                                         /\ call'[a] = "none" => stopping'
    <3>1. Continues(a)
      BY <2>1
    <3>2. /\ close_mutex_ = a <=> api[a] \in {"submitting", "draining", "closing"}
          /\ call[a] # "none" => api[a] \in {"submitting", "closing"}
          /\ api[a] = "submitting" => call[a] \in {"none", "submit", "notify"}
          /\ api[a] = "closing" => /\ call[a] \in {"none", "shutdown", "cancelling", "joining"}
                                   /\ call[a] = "none" => stopping
      BY <1>1 DEF CallsShape
    <3> QED BY <1>2, <1>3, <3>1, <3>2 DEF Continues
  <2>4. \A w \in Workers :
          /\ api'[w] # "none" => at'[w] = "callback"
          /\ api'[w] = "submit" => job'[w] \in Submitters
          /\ api'[w] \in {"close", "draining"} => job'[w] \in Stoppers
    BY <1>1, <1>3, <2>2 DEF CallsShape
  <2>5. closed' => stopping' \/ \E a \in Actors : api'[a] \in {"draining", "closing"}
    BY <1>1, <1>2, <1>3 DEF CallsShape
  <2> QED BY <2>3, <2>4, <2>5 DEF CallsShape
<1>7. OfferShape'
  <2>1. \A a \in Actors : offer[a] # NoJob => fut'[offer[a]] = fut[offer[a]]
    BY <1>1, <1>2 DEF OfferShape, OwnTypes
  <2> QED BY <1>1, <1>3, <2>1 DEF OfferShape
<1>8. LambdaShape'
  <2> SUFFICES ASSUME NEW w \in Workers
      PROVE  /\ at'[w] # "none" => wpc'[w] = "running"
             /\ at'[w] \in {"failed", "releasing", "thrown"} => outcome'[w] # "none"
             /\ wpc'[w] = "running" => job'[w] \in invoked'
             /\ handle'[w] = "detached" /\ wpc'[w] = "running" =>
                    at'[w] \in {"callback", "releasing", "thrown"}
    BY DEF LambdaShape
  <2>1. wpc'[w] = "running" => job'[w] \in invoked'
    BY <1>1, <1>2 DEF LambdaShape
  <2>2. handle'[w] = "detached" /\ wpc'[w] = "running" => at'[w] \in {"callback", "releasing", "thrown"}
    <3>1. handle[w] = "detached" => stopping
      BY <1>1, ExecThreads
    <3>2. call[w] = "joining" => at[w] = "callback"
      BY <1>1, Sizes DEF CallsShape
    <3> QED BY <1>1, <1>3, <3>1, <3>2, Detaching DEF LambdaShape
  <2> QED BY <1>1, <1>2, <1>3, <1>5, <2>1, <2>2 DEF LambdaShape
<1>9. LeaseShape'
  BY <1>1, <1>3 DEF LeaseShape
<1>10. RanShape'
  <2> SUFFICES ASSUME NEW j \in ran
      PROVE  \/ fut'[j] \in {"value", "error"}
             \/ \E w \in Workers :
                   /\ job'[w] = j
                   /\ \/ at'[w] = "callback"
                      \/ at'[w] \in {"releasing", "thrown"} /\ outcome'[w] \in {"value", "error"}
    BY <1>3 DEF RanShape
  <2>1. j \in Jobs
    BY <1>1, ExecTypes DEF OwnTypes
  <2> QED BY <1>1, <1>2, <1>3, <1>5, <2>1 DEF RanShape
<1> QED BY <1>2, <1>4, <1>6, <1>7, <1>8, <1>9, <1>10, OwnTyped DEF AInv

-----------------------------------------------------------------------------
(* The first state.                                                        *)
LEMMA InitInv == Init => AInv
<1> SUFFICES ASSUME Init PROVE AInv
  OBVIOUS
<1>1. P!IInv
  <2>1. P!Init
    BY SameActors DEF Init, Exec!Init, P!Init, Workers, Actors
  <2> QED BY <2>1, Assumed, P!InitInv
<1>2. OwnTypes
  BY <1>1, Sizes DEF Init, OwnTypes, Places, Outcomes
<1>3. \A a \in Actors : call[a] = "none"
  BY DEF Init, Exec!Init, Workers, Actors
<1>4. CallsShape
  BY <1>3, Sizes DEF Init, CallsShape, Pool!Init
<1>5. OfferShape
  BY DEF Init, OfferShape
<1>6. \A w \in Workers : wpc[w] = "absent"
  BY DEF Init, Exec!Init, Workers, Actors
<1>7. LambdaShape
  BY <1>6 DEF Init, LambdaShape
<1>8. LeaseShape
  BY Sizes DEF Init, LeaseShape, Pool!Init, Actors
<1>9. RanShape
  BY DEF Init, RanShape
<1> QED BY <1>1, <1>2, <1>4, <1>5, <1>7, <1>8, <1>9, OwnTyped DEF AInv

-----------------------------------------------------------------------------
(* The calls of the pool.  Most change only api, for one actor.            *)

(* The executor and the lambdas stay as they are.                          *)
LEMMA ExecStays ==
    ASSUME P!IInv, UNCHANGED execVars
    PROVE  P!IInv'
BY Assumed, P!InvKept DEF P!vars, execVars

(* An actor calls the pool; a worker does so in its callback.              *)
LEMMA CallSteps ==
    ASSUME AInv, NEW a \in Actors, NEW j, (j \in Jobs /\ CallSubmit(a, j)) \/ CallClose(a)
    PROVE  AInv'
<1>1. P!IInv /\ OwnTypes /\ CallsShape /\ OfferShape /\ LambdaShape /\ LeaseShape /\ RanShape
  BY OwnTyped DEF AInv
<1>2. /\ UNCHANGED execVars
      /\ idle' = idle /\ leased' = leased /\ opening' = opening /\ dying' = dying /\ closed' = closed
      /\ at' = at /\ outcome' = outcome /\ ran' = ran /\ close_mutex_' = close_mutex_ /\ stopped' = stopped
  BY DEF CallSubmit, CallClose, poolVars, bodyVars
<1>3. /\ invoked' = invoked /\ fut' = fut /\ job' = job /\ wpc' = wpc /\ handle' = handle /\ call' = call
      /\ stopping' = stopping
  BY <1>2 DEF execVars
<1>4. /\ api[a] = "none" /\ (a \in Workers => at[a] = "callback")
      /\ \/ /\ api' = [api EXCEPT ![a] = "submit"] /\ offer' = [offer EXCEPT ![a] = j]
            /\ j \in Jobs /\ fut[j] = "unsubmitted" /\ (\A b \in Actors : offer[b] # j)
            /\ a \in Workers => job[a] \in Submitters
         \/ /\ api' = [api EXCEPT ![a] = "close"] /\ offer' = offer
            /\ a \in Workers => job[a] \in Stoppers
  BY DEF CallSubmit, CallClose, Idle, InCallback, MaySubmit, MayClose
<1>5. /\ P!IInv' /\ OwnTypes'
  BY <1>1, <1>2, <1>3, <1>4, ExecStays DEF OwnTypes
<1>6. CallsShape'
  <2>1. \A b \in Actors : api'[b] = IF b = a THEN api'[a] ELSE api[b]
    BY <1>1, <1>4 DEF OwnTypes
  <2>2. api'[a] \in {"submit", "close"}
    BY <1>1, <1>4 DEF OwnTypes
  <2>3. call[a] = "none"
    BY <1>1, <1>4 DEF CallsShape
  <2>4. \A b \in Actors : api[b] \in {"draining", "closing"} => b # a
    BY <1>4
  <2>5. api'[a] = "submit" => (a \in Workers => job[a] \in Submitters)
    BY <1>1, <1>4 DEF OwnTypes
  <2>6. api'[a] = "close" => (a \in Workers => job[a] \in Stoppers)
    BY <1>1, <1>4 DEF OwnTypes
  <2> QED BY <1>1, <1>2, <1>3, <1>4, <2>1, <2>2, <2>3, <2>4, <2>5, <2>6, Sizes DEF CallsShape
<1>7. OfferShape'
  <2>1. CASE offer' = offer
    BY <1>1, <1>3, <1>4, <2>1, Sizes DEF OfferShape, OwnTypes
  <2>2. CASE /\ api' = [api EXCEPT ![a] = "submit"] /\ offer' = [offer EXCEPT ![a] = j]
             /\ j \in Jobs /\ fut[j] = "unsubmitted" /\ (\A b \in Actors : offer[b] # j)
    BY <1>1, <1>3, <1>4, <2>2, Sizes DEF OfferShape, OwnTypes
  <2> QED BY <1>4, <2>1, <2>2
<1>8. LambdaShape' /\ RanShape'
  BY <1>1, <1>2, <1>3 DEF LambdaShape, RanShape
<1>9. LeaseShape'
  <2>1. \A b \in Actors : api[b] = "draining" => api'[b] = "draining"
    BY <1>1, <1>4 DEF OwnTypes
  <2> QED BY <1>1, <1>2, <2>1, Sizes DEF LeaseShape
<1> QED BY <1>5, <1>6, <1>7, <1>8, <1>9, OwnTyped DEF AInv

(* submit_impl() hands the job to the executor, in the executor's terms.   *)
LEMMA OfferSteps ==
    ASSUME AInv, NEW a \in Actors, OfferJob(a)
    PROVE  AInv'
<1> DEFINE j == offer[a]
<1>1. P!IInv /\ OwnTypes /\ CallsShape /\ OfferShape /\ LambdaShape /\ LeaseShape /\ RanShape
  BY OwnTyped DEF AInv
<1>2. /\ idle' = idle /\ leased' = leased /\ opening' = opening /\ dying' = dying /\ closed' = closed
      /\ at' = at /\ outcome' = outcome /\ ran' = ran /\ stopped' = stopped
      /\ close_mutex_ = Free /\ close_mutex_' = a /\ api[a] = "submit" /\ ~closed
      /\ \A b \in Actors : /\ api'[b] = IF b = a THEN "submitting" ELSE api[b]
                           /\ offer'[b] = IF b = a THEN NoJob ELSE offer[b]
  BY <1>1 DEF OfferJob, OwnTypes, poolVars, bodyVars
<1>3. /\ invoked' = invoked /\ job' = job /\ wpc' = wpc /\ handle' = handle /\ stopping' = stopping
      /\ \A b \in Actors : call'[b] = IF b = a THEN "submit" ELSE call[b]
      /\ j \in Jobs /\ fut[j] = "unsubmitted"
      /\ \A k \in Jobs : fut'[k] = IF k = j THEN "pending" ELSE fut[k]
  <2>1. j \in Jobs
    BY <1>1, <1>2 DEF OfferShape, OwnTypes
  <2> QED BY <1>1, <2>1, ExecTypes DEF OfferJob, Exec!MakeJob
<1>4. \A b \in Actors : api[b] \notin {"submitting", "draining", "closing"} /\ call[b] = "none"
  BY <1>1, <1>2, Sizes, ExecTypes DEF CallsShape
<1>5. P!IInv'
  <2>1. P!Idle(a) /\ P!MaySubmit(a)
    BY <1>1, <1>2, <1>4, SameActors DEF P!Idle, P!MaySubmit, CallsShape, LambdaShape
  <2>2. P!MakeJob(a, j)
    BY DEF OfferJob, Exec!MakeJob, P!MakeJob
  <2>3. P!AnyNext
    BY <1>3, <2>1, <2>2, SameActors DEF P!CallSubmit, P!Next, P!AnyNext
  <2> QED BY <1>1, <2>3, Assumed, P!InvKept
<1> HIDE DEF j
<1>6. OwnTypes'
  BY <1>1, <1>2, <1>3 DEF OwnTypes, OfferJob
<1>7. CallsShape'
  BY <1>1, <1>2, <1>3, <1>4, Sizes DEF CallsShape
<1>8. OfferShape'
  <2>1. \A b \in Actors : b # a /\ offer[b] # NoJob => offer[b] # j /\ offer[b] \in Jobs
    BY <1>1, <1>2 DEF OfferShape, OwnTypes, j
  <2> QED BY <1>1, <1>2, <1>3, <2>1 DEF OfferShape
<1>9. LambdaShape'
  BY <1>1, <1>2, <1>3 DEF LambdaShape
<1>10. LeaseShape'
  BY <1>1, <1>2, <1>4, Sizes DEF LeaseShape
<1>11. RanShape'
  <2>1. \A k \in ran : k \in Jobs
    BY <1>1, ExecTypes DEF OwnTypes
  <2> QED BY <1>1, <1>2, <1>3, <2>1 DEF RanShape
<1> QED BY <1>5, <1>6, <1>7, <1>8, <1>9, <1>10, <1>11, OwnTyped DEF AInv

(* A closed pool answers itself: no job of the executor is involved.       *)
LEMMA RefuseSteps ==
    ASSUME AInv, NEW a \in Actors, RefuseSubmit(a)
    PROVE  AInv'
<1> DEFINE j == offer[a]
<1>1. P!IInv /\ OwnTypes /\ CallsShape /\ OfferShape /\ LambdaShape /\ LeaseShape /\ RanShape
  BY OwnTyped DEF AInv
<1>2. /\ idle' = idle /\ leased' = leased /\ opening' = opening /\ dying' = dying /\ closed' = closed
      /\ at' = at /\ outcome' = outcome /\ ran' = ran /\ stopped' = stopped
      /\ close_mutex_' = close_mutex_ /\ api[a] = "submit" /\ closed
      /\ \A b \in Actors : /\ api'[b] = IF b = a THEN "none" ELSE api[b]
                           /\ offer'[b] = IF b = a THEN NoJob ELSE offer[b]
  BY <1>1 DEF RefuseSubmit, OwnTypes, poolVars, bodyVars
<1>3. /\ UNCHANGED <<queue, stopping, lifecycle_mutex_, handle, wpc, job, invoked, call, arg, doomed, next>>
      /\ j \in Jobs /\ fut[j] = "unsubmitted"
      /\ fut' = [fut EXCEPT ![j] = "rejected"]
      /\ \A k \in Jobs : fut'[k] = IF k = j THEN "rejected" ELSE fut[k]
  <2>1. j \in Jobs
    BY <1>1, <1>2 DEF OfferShape, OwnTypes
  <2> QED BY <1>1, <1>2, <2>1, ExecTypes DEF RefuseSubmit, OfferShape
<1>5. P!IInv'
  <2>1. P!TypeOK' /\ P!QueueBounded'
    BY <1>1, <1>3 DEF P!IInv, P!TypeOK, P!QueueBounded, P!Resolved
  <2>2. {k \in Jobs : fut'[k] = "pending"} = {k \in Jobs : fut[k] = "pending"}
    BY <1>3
  <2>3. P!JobsInv'
    BY <1>1, <1>3, <2>2 DEF P!IInv, P!JobsInv, P!JobsApart, P!PendingOwned
  <2>4. P!ThreadsInv'
    BY <1>1, <1>3 DEF P!IInv, P!ThreadsInv, P!HandleShape, P!CallShape, P!LockShape, P!StopShape
  <2> QED BY <2>1, <2>3, <2>4 DEF P!IInv
<1> HIDE DEF j
<1>6. OwnTypes'
  BY <1>1, <1>2, <1>3 DEF OwnTypes, RefuseSubmit
<1>7. CallsShape'
  <2>1. \A b \in Actors : api[b] # "submit" => api'[b] = api[b]
    BY <1>2
  <2> QED BY <1>1, <1>2, <1>3, <2>1, Sizes DEF CallsShape
<1>8. OfferShape'
  <2>1. \A b \in Actors : b # a /\ offer[b] # NoJob => offer[b] # j /\ offer[b] \in Jobs
    BY <1>1, <1>2 DEF OfferShape, OwnTypes, j
  <2> QED BY <1>1, <1>2, <1>3, <2>1 DEF OfferShape
<1>9. LambdaShape'
  BY <1>1, <1>2, <1>3 DEF LambdaShape
<1>10. LeaseShape'
  BY <1>1, <1>2, Sizes DEF LeaseShape
<1>11. RanShape'
  <2>1. \A k \in ran : k \in Jobs
    BY <1>1, ExecTypes DEF OwnTypes
  <2> QED BY <1>1, <1>2, <1>3, <2>1 DEF RanShape
<1> QED BY <1>5, <1>6, <1>7, <1>8, <1>9, <1>10, <1>11, OwnTyped DEF AInv

(* close() closes the pool and then shuts the executor down.               *)
LEMMA CloseSteps ==
    ASSUME AInv, NEW a \in Actors, ClosePool(a)
    PROVE  AInv'
<1>1. P!IInv /\ OwnTypes /\ CallsShape /\ OfferShape /\ LambdaShape /\ LeaseShape /\ RanShape
  BY OwnTyped DEF AInv
<1>2. /\ UNCHANGED execVars
      /\ at' = at /\ outcome' = outcome /\ ran' = ran /\ stopped' = stopped /\ offer' = offer
      /\ close_mutex_ = Free /\ close_mutex_' = a /\ api[a] = "close"
      /\ \A b \in Actors : api'[b] = IF b = a THEN "draining" ELSE api[b]
      /\ \/ UNCHANGED poolVars /\ closed
         \/ Pool!Close(a)
  BY <1>1 DEF ClosePool, OwnTypes, bodyVars
<1>3. /\ invoked' = invoked /\ fut' = fut /\ job' = job /\ wpc' = wpc /\ handle' = handle /\ call' = call
      /\ stopping' = stopping
  BY <1>2 DEF execVars
<1>4. \A b \in Actors : api[b] \notin {"submitting", "draining", "closing"} /\ call[b] = "none"
  BY <1>1, <1>2, Sizes, ExecTypes DEF CallsShape
<1>5. P!IInv' /\ OwnTypes'
  BY <1>1, <1>2, <1>3, ExecStays DEF OwnTypes, ClosePool
<1>6. CallsShape'
  <2>1. \A b \in Actors :
          /\ close_mutex_' = b <=> api'[b] \in {"submitting", "draining", "closing"}
          /\ call'[b] = "none" /\ api'[b] \notin {"submitting", "closing"}
    BY <1>2, <1>3, <1>4
  <2>2. \A w \in Workers :
          /\ api'[w] # "none" => at'[w] = "callback"
          /\ api'[w] = "submit" => job'[w] \in Submitters
          /\ api'[w] \in {"close", "draining"} => job'[w] \in Stoppers
    BY <1>1, <1>2, <1>3, Sizes DEF CallsShape
  <2>3. api'[a] = "draining"
    BY <1>2
  <2> QED BY <2>1, <2>2, <2>3 DEF CallsShape
<1>7. OfferShape'
  BY <1>1, <1>2, <1>3 DEF OfferShape
<1>8. LambdaShape' /\ RanShape'
  BY <1>1, <1>2, <1>3 DEF LambdaShape, RanShape
<1>9. LeaseShape'
  <2>1. /\ opening' = opening /\ leased' = leased /\ idle' \subseteq Conns
        /\ closed' = TRUE /\ idle' = {}
        /\ dying' \in [Actors -> SUBSET Conns]
        /\ \A b \in Actors : b # a => dying'[b] = dying[b]
    <3>1. CASE UNCHANGED poolVars /\ closed
      BY <1>1, <3>1 DEF poolVars, LeaseShape
    <3>2. CASE Pool!Close(a)
      BY <1>1, <3>2 DEF Pool!Close, LeaseShape
    <3> QED BY <1>2, <3>1, <3>2
  <2>2. ASSUME NEW w \in Workers
        PROVE  /\ leased'[w] # {} => at'[w] \in {"leased", "callback", "releasing"}
               /\ w \in opening' => at'[w] = "opening"
               /\ dying'[w] # {} => at'[w] = "thrown" \/ api'[w] = "draining"
    BY <1>1, <1>2, <2>1, Sizes DEF LeaseShape
  <2>3. ASSUME NEW t \in Threads \ Lessees, dying'[t] # {}
        PROVE  api'[t] = "draining"
    BY <1>1, <1>2, <2>1, <2>3, Sizes DEF LeaseShape
  <2> QED BY <1>1, <2>1, <2>2, <2>3 DEF LeaseShape
<1> QED BY <1>5, <1>6, <1>7, <1>8, <1>9, OwnTyped DEF AInv

LEMMA ShutDownSteps ==
    ASSUME AInv, NEW a \in Actors, ShutDown(a)
    PROVE  AInv'
<1>1. P!IInv /\ OwnTypes /\ CallsShape /\ OfferShape /\ LambdaShape /\ LeaseShape /\ RanShape
  BY OwnTyped DEF AInv
<1>2. /\ idle' = idle /\ leased' = leased /\ opening' = opening /\ dying' = dying /\ closed' = closed
      /\ at' = at /\ outcome' = outcome /\ ran' = ran /\ stopped' = stopped /\ offer' = offer
      /\ close_mutex_' = close_mutex_ /\ api[a] = "draining" /\ dying[a] = {}
      /\ \A b \in Actors : api'[b] = IF b = a THEN "closing" ELSE api[b]
  BY <1>1 DEF ShutDown, OwnTypes, poolVars, bodyVars
<1>3. /\ invoked' = invoked /\ fut' = fut /\ job' = job /\ wpc' = wpc /\ handle' = handle
      /\ stopping' = stopping
      /\ \A b \in Actors : call'[b] = IF b = a THEN "shutdown" ELSE call[b]
  BY <1>1, ExecTypes DEF ShutDown, Exec!StartShutdown
<1>4. call[a] = "none"
  BY <1>1, <1>2, ExecTypes DEF CallsShape
<1>5. P!IInv'
  <2>1. P!Idle(a) /\ P!MayStop(a)
    BY <1>1, <1>2, <1>4, SameActors DEF P!Idle, P!MayStop, CallsShape, LambdaShape
  <2>2. P!CallShutdown(a)
    BY <2>1 DEF ShutDown, Exec!StartShutdown, P!StartShutdown, P!CallShutdown
  <2>3. P!AnyNext
    BY <2>2, SameActors DEF P!Next, P!AnyNext
  <2> QED BY <1>1, <2>3, Assumed, P!InvKept
<1>6. OwnTypes'
  BY <1>1, <1>2, <1>3 DEF OwnTypes, ShutDown
<1>7. CallsShape'
  <2>1. ASSUME NEW b \in Actors
        PROVE  /\ close_mutex_' = b <=> api'[b] \in {"submitting", "draining", "closing"}
               /\ call'[b] # "none" => api'[b] \in {"submitting", "closing"}
               /\ api'[b] = "submitting" => call'[b] \in {"none", "submit", "notify"}
               /\ api'[b] = "closing" => /\ call'[b] \in {"none", "shutdown", "cancelling", "joining"}
                                         /\ call'[b] = "none" => stopping'
    BY <1>1, <1>2, <1>3 DEF CallsShape
  <2>2. \A w \in Workers :
          /\ api'[w] # "none" => at'[w] = "callback"
          /\ api'[w] = "submit" => job'[w] \in Submitters
          /\ api'[w] \in {"close", "draining"} => job'[w] \in Stoppers
    BY <1>1, <1>2, <1>3, Sizes DEF CallsShape
  <2>3. api'[a] = "closing"
    BY <1>2
  <2> QED BY <2>1, <2>2, <2>3 DEF CallsShape
<1>8. OfferShape'
  BY <1>1, <1>2, <1>3 DEF OfferShape
<1>9. LambdaShape' /\ RanShape'
  BY <1>1, <1>2, <1>3 DEF LambdaShape, RanShape
<1>10. LeaseShape'
  BY <1>1, <1>2, Sizes DEF LeaseShape
<1> QED BY <1>5, <1>6, <1>7, <1>8, <1>9, <1>10, OwnTyped DEF AInv

(* A call that ends releases close_mutex_; a close() that does so has shut *)
(* the executor down.                                                      *)
LEMMA LeaveSteps ==
    ASSUME AInv, NEW a \in Actors, Leave(a)
    PROVE  AInv'
<1>1. P!IInv /\ OwnTypes /\ CallsShape /\ OfferShape /\ LambdaShape /\ LeaseShape /\ RanShape
  BY OwnTyped DEF AInv
<1>2. /\ UNCHANGED execVars
      /\ idle' = idle /\ leased' = leased /\ opening' = opening /\ dying' = dying /\ closed' = closed
      /\ at' = at /\ outcome' = outcome /\ ran' = ran /\ stopped' = stopped /\ offer' = offer
      /\ api[a] \in {"submitting", "closing"} /\ call[a] = "none" /\ close_mutex_' = Free
      /\ \A b \in Actors : api'[b] = IF b = a THEN "none" ELSE api[b]
  BY <1>1 DEF Leave, OwnTypes, poolVars, bodyVars
<1>3. /\ invoked' = invoked /\ fut' = fut /\ job' = job /\ wpc' = wpc /\ handle' = handle /\ call' = call
      /\ stopping' = stopping
  BY <1>2 DEF execVars
<1>4. close_mutex_ = a
  BY <1>1, <1>2 DEF CallsShape
<1>5. P!IInv' /\ OwnTypes'
  BY <1>1, <1>2, <1>3, ExecStays DEF OwnTypes, Leave
<1>6. CallsShape'
  <2>1. \A b \in Actors : b # a => api[b] \notin {"submitting", "draining", "closing"}
    BY <1>1, <1>4 DEF CallsShape
  <2>2. ASSUME NEW b \in Actors
        PROVE  /\ close_mutex_' = b <=> api'[b] \in {"submitting", "draining", "closing"}
               /\ call'[b] # "none" => api'[b] \in {"submitting", "closing"}
               /\ api'[b] = "submitting" => call'[b] \in {"none", "submit", "notify"}
               /\ api'[b] = "closing" => /\ call'[b] \in {"none", "shutdown", "cancelling", "joining"}
                                         /\ call'[b] = "none" => stopping'
    BY <1>1, <1>2, <1>3, <2>1, Sizes DEF CallsShape
  <2>3. \A w \in Workers :
          /\ api'[w] # "none" => at'[w] = "callback"
          /\ api'[w] = "submit" => job'[w] \in Submitters
          /\ api'[w] \in {"close", "draining"} => job'[w] \in Stoppers
    BY <1>1, <1>2, <1>3, Sizes DEF CallsShape
  <2>4. closed' => stopping'
    BY <1>1, <1>2, <1>3, <2>1 DEF CallsShape
  <2> QED BY <2>2, <2>3, <2>4 DEF CallsShape
<1>7. OfferShape'
  BY <1>1, <1>2, <1>3 DEF OfferShape
<1>8. LambdaShape' /\ RanShape'
  BY <1>1, <1>2, <1>3 DEF LambdaShape, RanShape
<1>9. LeaseShape'
  BY <1>1, <1>2, Sizes DEF LeaseShape
<1> QED BY <1>5, <1>6, <1>7, <1>8, <1>9, OwnTyped DEF AInv

-----------------------------------------------------------------------------
(* Steps outside of the calls and the lambdas: a thread that leases on its *)
(* own, a connection that is closed, a token that is stopped.              *)
LEMMA PoolSteps ==
    ASSUME AInv, UNCHANGED execVars, UNCHANGED bodyVars, UNCHANGED <<close_mutex_, api, offer>>,
           stopped' \subseteq TokenJobs, LeaseShape', closed' = closed
    PROVE  AInv'
<1>1. P!IInv /\ OwnTypes /\ CallsShape /\ OfferShape /\ LambdaShape /\ RanShape
  BY OwnTyped DEF AInv
<1>2. /\ at' = at /\ outcome' = outcome /\ ran' = ran /\ offer' = offer
      /\ close_mutex_' = close_mutex_ /\ api' = api
      /\ invoked' = invoked /\ fut' = fut /\ job' = job /\ wpc' = wpc /\ handle' = handle /\ call' = call
      /\ stopping' = stopping
  BY DEF execVars, bodyVars
<1>3. P!IInv' /\ OwnTypes'
  BY <1>1, <1>2, ExecStays DEF OwnTypes
<1>4. CallsShape'
  BY <1>1, <1>2 DEF CallsShape
<1>5. OfferShape' /\ LambdaShape' /\ RanShape'
  BY <1>1, <1>2 DEF OfferShape, LambdaShape, RanShape
<1> QED BY <1>3, <1>4, <1>5, OwnTyped DEF AInv

LEMMA StopSteps ==
    ASSUME AInv, NEW j \in Jobs, RequestStop(j)
    PROVE  AInv'
<1>1. LeaseShape' /\ closed' = closed
  BY DEF AInv, RequestStop, poolVars, bodyVars, LeaseShape
<1>2. stopped' \subseteq TokenJobs
  BY DEF AInv, TypeOK, RequestStop
<1> QED BY <1>1, <1>2, PoolSteps DEF RequestStop

LEMMA SyncSteps ==
    ASSUME AInv, NEW t \in Lessees, SyncAcquire(t) \/ SyncRelease(t)
    PROVE  AInv'
<1>1. LeaseShape /\ stopped \subseteq TokenJobs /\ t \in Actors /\ t \notin Workers
  BY Sizes DEF AInv, TypeOK
<1>2. /\ UNCHANGED execVars /\ UNCHANGED bodyVars /\ UNCHANGED <<close_mutex_, api, offer>>
      /\ stopped' = stopped
      /\ Pool!Take(t) \/ Pool!Reserve(t) \/ Pool!Opened(t) \/ Pool!OpenFailed(t) \/ Pool!GiveBack(t)
  BY DEF SyncAcquire, SyncRelease
<1>3. closed' = closed
  BY <1>2 DEF Pool!Take, Pool!Reserve, Pool!Opened, Pool!OpenFailed, Pool!GiveBack
<1>4. /\ idle' \subseteq Conns /\ opening' \subseteq Actors
      /\ leased' \in [Actors -> SUBSET Conns] /\ dying' \in [Actors -> SUBSET Conns]
      /\ closed => idle' = {}
      /\ \A a \in Actors : a # t => /\ leased'[a] = leased[a] /\ dying'[a] = dying[a]
                                    /\ a \in opening' <=> a \in opening
  <2>1. CASE Pool!Take(t) \/ Pool!Reserve(t)
    BY <1>1, <2>1 DEF Pool!Take, Pool!Reserve, LeaseShape
  <2>2. CASE Pool!Opened(t) \/ Pool!OpenFailed(t)
    BY <1>1, <2>2 DEF Pool!Opened, Pool!OpenFailed, LeaseShape
  <2>3. CASE Pool!GiveBack(t)
    BY <1>1, <2>3 DEF Pool!GiveBack, LeaseShape
  <2> QED BY <1>2, <2>1, <2>2, <2>3
<1>5. at' = at /\ api' = api
  BY <1>2 DEF bodyVars
<1>6. LeaseShape'
  <2>1. ASSUME NEW w \in Workers
        PROVE  /\ leased'[w] # {} => at'[w] \in {"leased", "callback", "releasing"}
               /\ w \in opening' => at'[w] = "opening"
               /\ dying'[w] # {} => at'[w] = "thrown" \/ api'[w] = "draining"
    <3>1. w \in Actors /\ w # t
      BY <1>1, Sizes
    <3>2. leased'[w] = leased[w] /\ dying'[w] = dying[w] /\ (w \in opening' <=> w \in opening)
      BY <1>4, <3>1
    <3> QED BY <1>1, <1>5, <3>2 DEF LeaseShape
  <2>2. ASSUME NEW u \in Threads \ Lessees
        PROVE  dying'[u] # {} => api'[u] = "draining"
    <3>1. u \in Actors /\ u # t
      BY Sizes
    <3>2. dying'[u] = dying[u]
      BY <1>4, <3>1
    <3> QED BY <1>1, <1>5, <3>2 DEF LeaseShape
  <2> QED BY <1>1, <1>3, <1>4, <2>1, <2>2 DEF LeaseShape
<1> QED BY <1>1, <1>2, <1>3, <1>6, PoolSteps

LEMMA DestroySteps ==
    ASSUME AInv, NEW a \in Actors, CloseConn(a)
    PROVE  AInv'
<1>1. LeaseShape /\ stopped \subseteq TokenJobs
  BY DEF AInv, TypeOK
<1>2. /\ UNCHANGED execVars /\ UNCHANGED bodyVars /\ UNCHANGED <<close_mutex_, api, offer>>
      /\ stopped' = stopped /\ Pool!Destroy(a)
  BY DEF CloseConn
<1>3. /\ idle' = idle /\ leased' = leased /\ opening' = opening /\ closed' = closed
      /\ dying' \in [Actors -> SUBSET Conns] /\ \A b \in Actors : dying'[b] \subseteq dying[b]
  BY <1>1, <1>2 DEF Pool!Destroy, LeaseShape
<1>4. at' = at /\ api' = api
  BY <1>2 DEF bodyVars
<1>5. LeaseShape'
  BY <1>1, <1>3, <1>4, Sizes DEF LeaseShape
<1> QED BY <1>1, <1>2, <1>3, <1>5, PoolSteps

-----------------------------------------------------------------------------
(* Steps of the submitted lambda, from place p to place q.                 *)
Lambda(w, p, q) ==
    /\ Body(w, p, q) /\ p # "thrown"
    /\ outcome' \in [Workers -> Outcomes] /\ \A v \in Workers : v # w => outcome'[v] = outcome[v]
    /\ q \in {"failed", "releasing", "thrown"} => outcome'[w] # "none"
    /\ p = "callback" => \/ q = "callback"
                         \/ q = "releasing" /\ api[w] = "none" /\ outcome'[w] \in {"value", "error"}
    /\ p = "releasing" => q = "thrown" /\ outcome'[w] = outcome[w]
    /\ ran' = ran \/ (ran' = ran \cup {job[w]} /\ q = "callback")
    /\ closed' = closed

LEMMA LambdaSteps ==
    ASSUME AInv, NEW w \in Workers, NEW p \in Places, NEW q \in Places \ {"none"}, Lambda(w, p, q), LeaseShape'
    PROVE  AInv'
<1>1. P!IInv /\ OwnTypes /\ CallsShape /\ OfferShape /\ LambdaShape /\ RanShape
  BY OwnTyped DEF AInv
<1>2. /\ UNCHANGED execVars /\ wpc[w] = "running" /\ at[w] = p
      /\ close_mutex_' = close_mutex_ /\ api' = api /\ offer' = offer /\ stopped' = stopped
      /\ at' \in [Workers -> Places] /\ \A v \in Workers : at'[v] = IF v = w THEN q ELSE at[v]
  BY <1>1 DEF Lambda, Body, OwnTypes
<1>3. /\ invoked' = invoked /\ fut' = fut /\ job' = job /\ wpc' = wpc /\ handle' = handle /\ call' = call
      /\ stopping' = stopping
  BY <1>2 DEF execVars
<1>4. /\ outcome' \in [Workers -> Outcomes] /\ \A v \in Workers : v # w => outcome'[v] = outcome[v]
      /\ q \in {"failed", "releasing", "thrown"} => outcome'[w] # "none"
      /\ p = "callback" => \/ q = "callback"
                           \/ q = "releasing" /\ api[w] = "none" /\ outcome'[w] \in {"value", "error"}
      /\ p = "releasing" => q = "thrown" /\ outcome'[w] = outcome[w]
      /\ ran' = ran \/ (ran' = ran \cup {job[w]} /\ q = "callback")
      /\ closed' = closed /\ p # "thrown"
  BY DEF Lambda
<1>5. P!IInv'
  BY <1>1, <1>2, ExecStays
<1>6. OwnTypes'
  <2>1. job[w] \in invoked
    BY <1>1, <1>2 DEF LambdaShape
  <2> QED BY <1>1, <1>2, <1>3, <1>4, <2>1 DEF OwnTypes
<1>7. CallsShape'
  <2>1. \A v \in Workers : api[v] # "none" => at'[v] = "callback"
    BY <1>1, <1>2, <1>4 DEF CallsShape
  <2> QED BY <1>1, <1>2, <1>3, <1>4, <2>1 DEF CallsShape
<1>8. OfferShape'
  BY <1>1, <1>2, <1>3 DEF OfferShape
<1>9. LambdaShape'
  <2> SUFFICES ASSUME NEW v \in Workers
      PROVE  /\ at'[v] # "none" => wpc'[v] = "running"
             /\ at'[v] \in {"failed", "releasing", "thrown"} => outcome'[v] # "none"
             /\ wpc'[v] = "running" => job'[v] \in invoked'
             /\ handle'[v] = "detached" /\ wpc'[v] = "running" =>
                    at'[v] \in {"callback", "releasing", "thrown"}
    BY DEF LambdaShape
  <2> QED BY <1>1, <1>2, <1>3, <1>4 DEF LambdaShape
<1>10. RanShape'
  <2> SUFFICES ASSUME NEW j \in ran'
      PROVE  \/ fut'[j] \in {"value", "error"}
             \/ \E v \in Workers :
                   /\ job'[v] = j
                   /\ \/ at'[v] = "callback"
                      \/ at'[v] \in {"releasing", "thrown"} /\ outcome'[v] \in {"value", "error"}
    BY DEF RanShape
  <2>1. CASE j = job[w] /\ q = "callback"
    BY <1>2, <1>3, <2>1
  <2>2. CASE j \in ran
    <3>1. CASE fut[j] \in {"value", "error"}
      BY <1>3, <3>1
    <3>2. ASSUME NEW v \in Workers, job[v] = j,
                 \/ at[v] = "callback"
                 \/ at[v] \in {"releasing", "thrown"} /\ outcome[v] \in {"value", "error"}
          PROVE  /\ job'[v] = j
                 /\ \/ at'[v] = "callback"
                    \/ at'[v] \in {"releasing", "thrown"} /\ outcome'[v] \in {"value", "error"}
      BY <1>2, <1>3, <1>4, <3>2
    <3> QED BY <1>1, <2>2, <3>1, <3>2 DEF RanShape
  <2> QED BY <1>4, <2>1, <2>2
<1> QED BY <1>5, <1>6, <1>7, <1>8, <1>9, <1>10, OwnTyped DEF AInv

(* Places at which a worker owns what, so that a step which leaves the     *)
(* connections alone keeps LeaseShape.                                     *)
LEMMA SameLeases ==
    ASSUME AInv, NEW w \in Workers, NEW p \in Places \ {"opening", "thrown"}, NEW q \in Places, Body(w, p, q),
           idle' = idle, leased' = leased, opening' = opening, dying' = dying, closed' = closed,
           p \in {"leased", "callback", "releasing"} => q \in {"leased", "callback", "releasing"},
           p = "callback" => q = "callback" \/ api[w] = "none"
    PROVE  LeaseShape'
<1>1. LeaseShape /\ CallsShape /\ at[w] = p /\ at \in [Workers -> Places]
  BY OwnTyped DEF AInv, OwnTypes, Body
<1>2. api' = api /\ \A v \in Workers : at'[v] = IF v = w THEN q ELSE at[v]
  BY <1>1 DEF Body
<1>3. ASSUME NEW v \in Workers
      PROVE  /\ leased'[v] # {} => at'[v] \in {"leased", "callback", "releasing"}
             /\ v \in opening' => at'[v] = "opening"
             /\ dying'[v] # {} => at'[v] = "thrown" \/ api'[v] = "draining"
  BY <1>1, <1>2 DEF LeaseShape, CallsShape
<1> QED BY <1>1, <1>2, <1>3 DEF LeaseShape

(* Where a worker takes or gives up a connection, the places tell.         *)
LEMMA LeaseSteps ==
    ASSUME AInv, NEW w \in Workers
    PROVE  /\ TakeIdle(w) => LeaseShape' /\ closed' = closed
           /\ ReserveSlot(w) => LeaseShape' /\ closed' = closed
           /\ OpenConnection(w) => LeaseShape' /\ closed' = closed
           /\ OpenFails(w) => LeaseShape' /\ closed' = closed
           /\ ReleaseLease(w) => LeaseShape' /\ closed' = closed
<1>1. LeaseShape /\ CallsShape /\ at \in [Workers -> Places] /\ w \in Actors /\ w \notin Threads
  BY OwnTyped, Sizes DEF AInv, OwnTypes
<1>2. ASSUME NEW p \in Places, NEW q \in Places, Body(w, p, q), p # "callback", p # "thrown",
             idle' \subseteq Conns, closed' = closed, closed => idle' = {},
             opening' \subseteq Actors, \A a \in Actors : a # w => (a \in opening' <=> a \in opening),
             w \in opening' => q = "opening",
             leased' \in [Actors -> SUBSET Conns], \A a \in Actors : a # w => leased'[a] = leased[a],
             leased'[w] # {} => q = "leased",
             dying' \in [Actors -> SUBSET Conns], \A a \in Actors : a # w => dying'[a] = dying[a],
             dying'[w] # {} => q = "thrown" \/ dying' = dying
      PROVE  LeaseShape' /\ closed' = closed
  <2>1. at[w] = p /\ api' = api /\ \A v \in Workers : at'[v] = IF v = w THEN q ELSE at[v]
    BY <1>1, <1>2 DEF Body
  <2>2. dying[w] = {}
    BY <1>1, <1>2, <2>1 DEF LeaseShape, CallsShape
  <2>3. ASSUME NEW v \in Workers
        PROVE  /\ leased'[v] # {} => at'[v] \in {"leased", "callback", "releasing"}
               /\ v \in opening' => at'[v] = "opening"
               /\ dying'[v] # {} => at'[v] = "thrown" \/ api'[v] = "draining"
    BY <1>1, <1>2, <2>1, <2>2, Sizes DEF LeaseShape
  <2>4. ASSUME NEW t \in Threads \ Lessees, dying'[t] # {}
        PROVE  api'[t] = "draining"
    BY <1>1, <1>2, <2>1, <2>4, Sizes DEF LeaseShape
  <2> QED BY <1>1, <1>2, <2>3, <2>4 DEF LeaseShape
<1>3. ASSUME TakeIdle(w)
      PROVE  LeaseShape' /\ closed' = closed
  <2>1. Body(w, "acquiring", "leased") /\ Pool!Take(w)
    BY <1>3 DEF TakeIdle
  <2>2. w \notin opening
    BY <1>1, <2>1 DEF LeaseShape, Body
  <2>3. /\ idle' \subseteq Conns /\ closed' = closed /\ (closed => idle' = {})
        /\ opening' = opening /\ dying' = dying
    BY <1>1, <2>1 DEF Pool!Take, LeaseShape
  <2>4. /\ leased' \in [Actors -> SUBSET Conns]
        /\ \A a \in Actors : a # w => leased'[a] = leased[a]
    BY <1>1, <2>1 DEF Pool!Take, LeaseShape
  <2>5. opening' \subseteq Actors /\ dying' \in [Actors -> SUBSET Conns]
    BY <1>1, <2>3 DEF LeaseShape
  <2> QED BY <1>2, <2>1, <2>2, <2>3, <2>4, <2>5 DEF Places
<1>4. ASSUME ReserveSlot(w)
      PROVE  LeaseShape' /\ closed' = closed
  <2>1. Body(w, "acquiring", "opening") /\ Pool!Reserve(w)
    BY <1>4 DEF ReserveSlot
  <2>2. leased[w] = {}
    BY <1>1, <2>1 DEF LeaseShape, Body
  <2>3. /\ idle' = idle /\ closed' = closed /\ leased' = leased /\ dying' = dying
        /\ opening' = opening \cup {w}
    BY <2>1 DEF Pool!Reserve
  <2>4. /\ idle' \subseteq Conns /\ (closed => idle' = {}) /\ opening' \subseteq Actors
        /\ leased' \in [Actors -> SUBSET Conns] /\ dying' \in [Actors -> SUBSET Conns]
    BY <1>1, <2>3 DEF LeaseShape
  <2>5. \A a \in Actors : a # w => (a \in opening' <=> a \in opening)
    BY <2>3
  <2>6. leased'[w] = {}
    BY <2>2, <2>3
  <2> QED BY <1>2, <2>1, <2>3, <2>4, <2>5, <2>6 DEF Places
<1>5. ASSUME OpenConnection(w)
      PROVE  LeaseShape' /\ closed' = closed
  <2>1. Body(w, "opening", "leased") /\ Pool!Opened(w)
    BY <1>5 DEF OpenConnection
  <2>2. /\ idle' = idle /\ closed' = closed /\ dying' = dying /\ opening' = opening \ {w}
    BY <2>1 DEF Pool!Opened
  <2>3. /\ leased' \in [Actors -> SUBSET Conns]
        /\ \A a \in Actors : a # w => leased'[a] = leased[a]
    BY <1>1, <2>1 DEF Pool!Opened, LeaseShape
  <2>4. /\ idle' \subseteq Conns /\ (closed => idle' = {}) /\ opening' \subseteq Actors
        /\ dying' \in [Actors -> SUBSET Conns]
    BY <1>1, <2>2 DEF LeaseShape
  <2>5. \A a \in Actors : a # w => (a \in opening' <=> a \in opening)
    BY <2>2
  <2> QED BY <1>2, <2>1, <2>2, <2>3, <2>4, <2>5 DEF Places
<1>6. ASSUME OpenFails(w)
      PROVE  LeaseShape' /\ closed' = closed
  <2>1. Body(w, "opening", "failed") /\ Pool!OpenFailed(w)
    BY <1>6 DEF OpenFails
  <2>2. leased[w] = {}
    BY <1>1, <2>1 DEF LeaseShape, Body
  <2>3. /\ idle' = idle /\ closed' = closed /\ leased' = leased /\ dying' = dying
        /\ opening' = opening \ {w}
    BY <2>1 DEF Pool!OpenFailed
  <2>4. /\ idle' \subseteq Conns /\ (closed => idle' = {}) /\ opening' \subseteq Actors
        /\ leased' \in [Actors -> SUBSET Conns] /\ dying' \in [Actors -> SUBSET Conns]
    BY <1>1, <2>3 DEF LeaseShape
  <2>5. \A a \in Actors : a # w => (a \in opening' <=> a \in opening)
    BY <2>3
  <2>6. leased'[w] = {}
    BY <2>2, <2>3
  <2> QED BY <1>2, <2>1, <2>3, <2>4, <2>5, <2>6 DEF Places
<1>7. ASSUME ReleaseLease(w)
      PROVE  LeaseShape' /\ closed' = closed
  <2>1. Body(w, "releasing", "thrown") /\ Pool!GiveBack(w)
    BY <1>7 DEF ReleaseLease
  <2>2. w \notin opening
    BY <1>1, <2>1 DEF LeaseShape, Body
  <2> QED BY <1>1, <1>2, <2>1, <2>2 DEF Pool!GiveBack, LeaseShape, Places
<1> QED BY <1>3, <1>4, <1>5, <1>6, <1>7

LEMMA BodySteps ==
    ASSUME AInv, NEW w \in Workers,
           \/ CancelEarly(w) \/ BeginAcquire(w) \/ AcquireStep(w) \/ CancelLate(w)
           \/ Invoke(w) \/ EndCallback(w) \/ ReleaseLease(w) \/ LoseConnection(w)
    PROVE  AInv'
<1>1. outcome \in [Workers -> Outcomes] /\ at \in [Workers -> Places] /\ LambdaShape
  BY OwnTyped DEF AInv, OwnTypes
<1>2. ASSUME NEW p \in Places, NEW q \in Places \ {"none"}, Body(w, p, q), outcome' = outcome,
             ran' = ran \/ (ran' = ran \cup {job[w]} /\ q = "callback"),
             q \in {"failed", "releasing"} => FALSE,
             p = "callback" => q = "callback", p = "releasing" <=> q = "thrown", p # "thrown",
             LeaseShape', closed' = closed
      PROVE  AInv'
  <2>1. q = "thrown" => outcome'[w] # "none"
    BY <1>1, <1>2 DEF LambdaShape, Body
  <2>2. Lambda(w, p, q)
    BY <1>1, <1>2, <2>1 DEF Lambda
  <2> QED BY <1>2, <2>2, LambdaSteps
<1>3. ASSUME NEW p \in Places \ {"releasing", "thrown"}, NEW q \in Places \ {"none", "callback"}, Body(w, p, q),
             NEW r \in {"value", "error", "cancelled"}, Throw(w, r),
             p = "callback" => q = "releasing" /\ api[w] = "none" /\ r \in {"value", "error"},
             LeaseShape', closed' = closed
      PROVE  AInv'
  <2>1. /\ outcome' \in [Workers -> Outcomes] /\ outcome'[w] = r /\ ran' = ran
        /\ \A v \in Workers : v # w => outcome'[v] = outcome[v]
    BY <1>1, <1>3 DEF Throw, Outcomes
  <2>2. Lambda(w, p, q)
    BY <1>3, <2>1 DEF Lambda
  <2> QED BY <1>3, <2>2, LambdaSteps
<1>4. ASSUME TakeIdle(w) \/ ReserveSlot(w) \/ OpenConnection(w) \/ ReleaseLease(w)
      PROVE  AInv'
  <2>1. PICK p \in Places, q \in Places \ {"none"} :
           /\ Body(w, p, q) /\ outcome' = outcome /\ ran' = ran
           /\ q \notin {"failed", "releasing", "callback"} /\ p # "callback" /\ p # "thrown"
           /\ p = "releasing" <=> q = "thrown"
    BY <1>4 DEF TakeIdle, ReserveSlot, OpenConnection, ReleaseLease, Places
  <2>2. LeaseShape' /\ closed' = closed
    BY <1>4, LeaseSteps
  <2> QED BY <1>2, <2>1, <2>2
<1>5. ASSUME BeginAcquire(w) \/ Invoke(w) \/ LoseConnection(w)
      PROVE  AInv'
  <2>1. PICK p \in Places \ {"opening", "thrown", "releasing"}, q \in Places \ {"none", "thrown"} :
           /\ Body(w, p, q) /\ outcome' = outcome
           /\ ran' = ran \/ (ran' = ran \cup {job[w]} /\ q = "callback")
           /\ q \notin {"failed", "releasing"} /\ (p = "callback" => q = "callback")
           /\ p = "leased" => q = "callback"
    BY <1>5 DEF BeginAcquire, Invoke, LoseConnection, Places
  <2>2. idle' = idle /\ leased' = leased /\ opening' = opening /\ dying' = dying /\ closed' = closed
    BY <1>5 DEF BeginAcquire, Invoke, LoseConnection, Pool!Break, poolVars
  <2>3. LeaseShape'
    BY <2>1, <2>2, SameLeases
  <2> QED BY <1>2, <2>1, <2>2, <2>3
<1>6. ASSUME OpenFails(w)
      PROVE  AInv'
  <2>1. Body(w, "opening", "failed") /\ Throw(w, "error")
    BY <1>6 DEF OpenFails
  <2>2. LeaseShape' /\ closed' = closed
    BY <1>6, LeaseSteps
  <2> QED BY <1>3, <2>1, <2>2 DEF Places
<1>7. ASSUME CancelEarly(w) \/ AcquireFails(w) \/ Catch(w) \/ CancelLate(w) \/ EndCallback(w)
      PROVE  AInv'
  <2>1. PICK p \in Places \ {"opening", "thrown", "releasing"}, q \in Places \ {"none", "callback"},
             r \in {"value", "error", "cancelled"} :
           /\ Body(w, p, q) /\ Throw(w, r)
           /\ p = "callback" => q = "releasing" /\ api[w] = "none" /\ r \in {"value", "error"}
           /\ p = "leased" => q = "releasing"
    <3>1. CASE CancelEarly(w) \/ AcquireFails(w) \/ CancelLate(w)
      BY <3>1 DEF CancelEarly, AcquireFails, CancelLate, Places
    <3>2. CASE Catch(w)
      <4>1. outcome[w] \in {"value", "error", "cancelled"}
        BY <1>1, <3>2 DEF Catch, Body, LambdaShape, Outcomes
      <4> QED BY <3>2, <4>1 DEF Catch, Places
    <3>3. CASE EndCallback(w)
      BY <3>3 DEF EndCallback, Places
    <3> QED BY <1>7, <3>1, <3>2, <3>3
  <2>2. idle' = idle /\ leased' = leased /\ opening' = opening /\ dying' = dying /\ closed' = closed
    BY <1>7 DEF CancelEarly, AcquireFails, Catch, CancelLate, EndCallback, poolVars
  <2>3. LeaseShape'
    BY <2>1, <2>2, SameLeases
  <2> QED BY <1>3, <2>1, <2>2, <2>3
<1> QED BY <1>4, <1>5, <1>6, <1>7 DEF AcquireStep

(* The result leaves the lambda, and the executor answers with it.         *)
LEMMA ResolveSteps ==
    ASSUME AInv, NEW w \in Workers, Resolve(w)
    PROVE  AInv'
<1>1. P!IInv /\ OwnTypes /\ CallsShape /\ OfferShape /\ LambdaShape /\ LeaseShape /\ RanShape
  BY OwnTyped DEF AInv
<1>2. /\ idle' = idle /\ leased' = leased /\ opening' = opening /\ dying' = dying /\ closed' = closed
      /\ ran' = ran /\ stopped' = stopped /\ offer' = offer /\ close_mutex_' = close_mutex_ /\ api' = api
      /\ at[w] = "thrown" /\ dying[w] = {}
      /\ at' \in [Workers -> Places] /\ outcome' \in [Workers -> Outcomes]
      /\ \A v \in Workers : /\ at'[v] = IF v = w THEN "none" ELSE at[v]
                            /\ outcome'[v] = IF v = w THEN "none" ELSE outcome[v]
  BY <1>1 DEF Resolve, OwnTypes, Places, Outcomes, poolVars
<1>3. outcome[w] \in {"value", "error", "cancelled"} /\ outcome[w] \in P!Resolved
  BY <1>1, <1>2 DEF LambdaShape, OwnTypes, Outcomes, P!Resolved
<1>4. /\ wpc[w] = "running" /\ call[w] = "none" /\ job[w] \in Jobs /\ fut[job[w]] = "pending"
      /\ call' = call /\ handle' = handle /\ invoked' = invoked /\ stopping' = stopping
      /\ \A j \in Jobs : fut'[j] = IF j = job[w] THEN outcome[w] ELSE fut[j]
      /\ \A v \in Workers : /\ wpc'[v] = IF v = w THEN "looking" ELSE wpc[v]
                            /\ job'[v] = IF v = w THEN NoJob ELSE job[v]
  <2>1. wpc[w] = "running" /\ job[w] \in Jobs /\ fut[job[w]] = "pending"
    BY <1>1, RunningJobs DEF Resolve, Exec!Finish
  <2> QED BY <1>1, <2>1, ExecTypes DEF Resolve, Exec!Finish
<1>5. P!IInv'
  <2>1. P!Finish(w, outcome[w])
    BY DEF Resolve, Exec!Finish, P!Finish
  <2>2. P!AnyNext
    BY <1>3, <2>1, SameActors DEF P!AnyNext
  <2> QED BY <1>1, <2>2, Assumed, P!InvKept
<1>6. OwnTypes'
  BY <1>1, <1>2, <1>4 DEF OwnTypes
<1>7. CallsShape'
  <2>1. api[w] = "none"
    BY <1>1, <1>2, Sizes DEF CallsShape, OwnTypes
  <2>2. \A v \in Workers :
          /\ api'[v] # "none" => at'[v] = "callback"
          /\ api'[v] = "submit" => job'[v] \in Submitters
          /\ api'[v] \in {"close", "draining"} => job'[v] \in Stoppers
    BY <1>1, <1>2, <1>4, <2>1 DEF CallsShape
  <2> QED BY <1>1, <1>2, <1>4, <2>2 DEF CallsShape
<1>8. OfferShape'
  <2>1. \A a \in Actors : offer[a] # NoJob => offer[a] \in Jobs /\ offer[a] # job[w]
    BY <1>1, <1>4 DEF OfferShape, OwnTypes
  <2> QED BY <1>1, <1>2, <1>4, <2>1 DEF OfferShape
<1>9. LambdaShape'
  BY <1>1, <1>2, <1>4 DEF LambdaShape
<1>10. LeaseShape'
  BY <1>1, <1>2 DEF LeaseShape
<1>11. RanShape'
  <2> SUFFICES ASSUME NEW j \in ran
      PROVE  \/ fut'[j] \in {"value", "error"}
             \/ \E v \in Workers :
                   /\ job'[v] = j
                   /\ \/ at'[v] = "callback"
                      \/ at'[v] \in {"releasing", "thrown"} /\ outcome'[v] \in {"value", "error"}
    BY <1>2 DEF RanShape
  <2>1. j \in Jobs
    BY <1>1, ExecTypes DEF OwnTypes
  <2>2. CASE fut[j] \in {"value", "error"}
    BY <1>4, <2>1, <2>2
  <2>3. ASSUME NEW v \in Workers, job[v] = j,
               \/ at[v] = "callback"
               \/ at[v] \in {"releasing", "thrown"} /\ outcome[v] \in {"value", "error"}
        PROVE  \/ fut'[j] \in {"value", "error"}
               \/ /\ job'[v] = j
                  /\ \/ at'[v] = "callback"
                     \/ at'[v] \in {"releasing", "thrown"} /\ outcome'[v] \in {"value", "error"}
    BY <1>2, <1>4, <2>1, <2>3
  <2> QED BY <1>1, <2>2, <2>3 DEF RanShape
<1> QED BY <1>5, <1>6, <1>7, <1>8, <1>9, <1>10, <1>11, OwnTyped DEF AInv

-----------------------------------------------------------------------------
(* The invariant holds in every state.                                     *)
LEMMA InvKept ==
    ASSUME AInv, [Next]_vars
    PROVE  AInv'
<1>1. ASSUME NEW a \in Actors, CallStep(a) \/ LockStep(a)
      PROVE  AInv'
  <2>1. CASE ExecutorStep(Exec!Calling(a)) \/ ExecutorStep(Exec!Locking(a))
    BY <2>1, ExecStepInv DEF ExecutorStep, ExecStep, ownVars
  <2> QED BY <1>1, <2>1, LeaveSteps, ShutDownSteps, DestroySteps, RefuseSteps, OfferSteps, CloseSteps
      DEF CallStep, LockStep
<1>2. ASSUME NEW w \in Workers, WorkerStep(w) \/ ExecutorStep(Exec!SpuriousWake(w))
      PROVE  AInv'
  <2>1. CASE ExecutorStep(Exec!Look(w)) \/ ExecutorStep(Exec!SpuriousWake(w))
    BY <2>1, ExecStepInv DEF ExecutorStep, ExecStep, ownVars
  <2> QED BY <1>2, <2>1, BodySteps, ResolveSteps DEF WorkerStep, LambdaStep
<1>3. ASSUME NEW a \in Actors, CallClose(a) \/ \E j \in Jobs : CallSubmit(a, j)
      PROVE  AInv'
  <2>1. CASE CallClose(a)
    <3>1. (NoJob \in Jobs /\ CallSubmit(a, NoJob)) \/ CallClose(a)
      BY <2>1
    <3> QED BY <3>1, CallSteps
  <2>2. ASSUME NEW j \in Jobs, CallSubmit(a, j)
        PROVE  AInv'
    BY <2>2, CallSteps
  <2> QED BY <1>3, <2>1, <2>2
<1>4. CASE UNCHANGED vars
  <2>1. LeaseShape' /\ closed' = closed /\ stopped' \subseteq TokenJobs
    BY <1>4 DEF AInv, vars, poolVars, bodyVars, LeaseShape, TypeOK
  <2> QED BY <1>4, <2>1, PoolSteps DEF vars
<1> QED BY <1>1, <1>2, <1>3, <1>4, BodySteps, StopSteps, SyncSteps DEF Next

LEMMA Invariance == Spec => []AInv
BY InitInv, InvKept, PTL DEF Spec

(* Every variable of the pool keeps to its type, those of its executor     *)
(* included, and a user callback runs only in a job a worker invoked.      *)
THEOREM AsyncTypes == Spec => []TypeOK
BY Invariance, PTL DEF AInv

(* submit(): while a worker has a connection in its hands, to use it, to   *)
(* open it or to close it, its job's future is not ready: the lease goes   *)
(* back before promise_.set_value and set_exception.                       *)
THEOREM LeasesComeBackFirst == Spec => []LeaseBackBeforeReady
<1>1. AInv => LeaseBackBeforeReady
  <2> SUFFICES ASSUME AInv, NEW w \in Workers,
                      leased[w] # {} \/ w \in opening \/ (dying[w] # {} /\ call[w] = "none" /\ api[w] = "none")
               PROVE  job[w] \in Jobs /\ fut[job[w]] = "pending"
    BY DEF LeaseBackBeforeReady
  <2>1. at[w] # "none"
    BY DEF AInv, LeaseShape
  <2>2. wpc[w] = "running"
    BY <2>1 DEF AInv, LambdaShape
  <2> QED BY <2>2, RunningJobs DEF AInv
<1> QED BY <1>1, Invariance, PTL

(* OperationCancelled, from any of the places that throw it, and an answer *)
(* without a job mean that the user's callback was never called.           *)
THEOREM CancelledOperationsNeverRan == Spec => []CancelledNeverRan
<1>1. AInv => CancelledNeverRan
  <2> SUFFICES ASSUME AInv, NEW j \in ran, fut[j] \notin {"value", "error"}
               PROVE  fut[j] = "pending"
    BY DEF CancelledNeverRan
  <2>1. PICK w \in Workers : job[w] = j /\ at[w] # "none"
    BY DEF AInv, RanShape
  <2>2. wpc[w] = "running"
    BY <2>1 DEF AInv, LambdaShape
  <2> QED BY <2>1, <2>2, RunningJobs DEF AInv
<1> QED BY <1>1, Invariance, PTL

(* When close() has returned the executor has stopped, no shutdown is on   *)
(* its way, and a worker that still runs a callback was detached because   *)
(* that callback called close().                                           *)
LEMMA ClosedQuiet ==
    ASSUME AInv, closed, close_mutex_ = Free
    PROVE  /\ queue = << >> /\ doomed = << >>
           /\ \A w \in Workers : wpc[w] = "running" => handle[w] = "detached" /\ job[w] \in Stoppers
           /\ \A a \in Actors : api[a] \notin {"submitting", "draining", "closing"} /\ call[a] = "none"
<1>1. P!IInv /\ CallsShape
  BY DEF AInv
<1>2. \A a \in Actors : api[a] \notin {"submitting", "draining", "closing"} /\ call[a] = "none"
  BY <1>1, Sizes, ExecTypes DEF CallsShape
<1>3. stopping
  BY <1>1, <1>2 DEF CallsShape
<1>4. lifecycle_mutex_ = Free
  <2>1. lifecycle_mutex_ \in Actors \cup {Free}
    BY <1>1, SameActors DEF P!IInv, P!TypeOK
  <2> QED BY <1>1, <1>2, <2>1, ExecThreads
<1>5. P!QuietAfterShutdown
  BY <1>1, Assumed, P!Quiet
<1> QED BY <1>2, <1>3, <1>4, <1>5, SameActors DEF P!QuietAfterShutdown

(* After close() has returned nobody but callbacks that called close()     *)
(* themselves holds a connection or a job, and no future is left pending   *)
(* but theirs.                                                             *)
THEOREM CloseQuiets == Spec => []QuietAfterClose
<1>1. AInv => QuietAfterClose
  <2> SUFFICES ASSUME AInv, closed, close_mutex_ = Free
               PROVE  /\ idle = {}
                      /\ \A a \in (Actors \ Lessees) \ Surviving : dying[a] = {}
                      /\ \A w \in Workers \ Surviving :
                            leased[w] = {} /\ w \notin opening /\ job[w] = NoJob
                      /\ \A j \in Jobs : fut[j] = "pending" => \E w \in Surviving : job[w] = j
    BY DEF QuietAfterClose
  <2>1. P!IInv /\ LeaseShape /\ LambdaShape
    BY DEF AInv
  <2>2. \A w \in Workers : wpc[w] = "running" => w \in Surviving
    BY ClosedQuiet DEF Surviving
  <2>3. idle = {}
    BY <2>1 DEF LeaseShape
  <2>4. \A w \in Workers \ Surviving : at[w] = "none" /\ job[w] = NoJob
    BY <2>1, <2>2, ExecTypes DEF LambdaShape
  <2>5. \A w \in Workers \ Surviving : leased[w] = {} /\ w \notin opening
    BY <2>1, <2>4 DEF LeaseShape
  <2>6. ASSUME NEW a \in (Actors \ Lessees) \ Surviving
        PROVE  dying[a] = {}
    <3>1. api[a] # "draining"
      BY ClosedQuiet
    <3> QED BY <2>1, <2>4, <2>6, <3>1, Sizes DEF LeaseShape
  <2>7. ASSUME NEW j \in Jobs, fut[j] = "pending"
        PROVE  \E w \in Surviving : job[w] = j
    <3>1. j \in P!Held(queue) \cup P!Held(doomed) \cup P!Held(job) \cup P!Held(arg)
      BY <2>1, <2>7 DEF P!IInv, P!JobsInv, P!PendingOwned
    <3>2. P!Held(queue) = {} /\ P!Held(doomed) = {}
      BY ClosedQuiet, Assumed, P!NoneHeld
    <3>3. P!Held(arg) = {}
      BY <2>1, ClosedQuiet, ExecTypes DEF P!Held
    <3>4. PICK w \in Workers : job[w] = j /\ job[w] # NoJob
      BY <2>1, <3>1, <3>2, <3>3, ExecTypes DEF P!Held
    <3> QED BY <2>1, <2>2, <3>4, ExecTypes
  <2> QED BY <2>3, <2>4, <2>5, <2>6, <2>7
<1> QED BY <1>1, Invariance, PTL

(* No user callback starts on a pool whose close() has returned, not even  *)
(* on the worker whose callback closed it.                                 *)
THEOREM NothingStartsAfterClose == Spec => NoStartAfterClose
<1>1. ASSUME AInv, Next, closed, close_mutex_ = Free
      PROVE  ran' = ran
  <2>1. ASSUME NEW w \in Workers, Invoke(w)
        PROVE  FALSE
    <3>1. wpc[w] = "running" /\ at[w] = "leased"
      BY <2>1 DEF Invoke, Body
    <3>2. handle[w] = "detached"
      BY <1>1, <3>1, ClosedQuiet
    <3> QED BY <1>1, <3>1, <3>2 DEF AInv, LambdaShape
  <2>2. ASSUME NEW a \in Actors, CallStep(a) \/ LockStep(a) \/ CallClose(a) \/ \E j \in Jobs : CallSubmit(a, j)
        PROVE  ran' = ran
    BY <2>2 DEF CallStep, LockStep, ExecutorStep, Leave, ShutDown, CloseConn, RefuseSubmit, OfferJob, ClosePool,
                CallClose, CallSubmit, bodyVars
  <2>3. ASSUME NEW w \in Workers, WorkerStep(w) \/ LoseConnection(w) \/ ExecutorStep(Exec!SpuriousWake(w)), ~Invoke(w)
        PROVE  ran' = ran
    BY <2>3 DEF WorkerStep, LambdaStep, AcquireStep, ExecutorStep, LoseConnection, CancelEarly, BeginAcquire,
                TakeIdle, ReserveSlot, OpenConnection, OpenFails, AcquireFails, Catch, CancelLate, EndCallback,
                ReleaseLease, Resolve, Throw, bodyVars
  <2>4. ASSUME NEW j \in Jobs, RequestStop(j)
        PROVE  ran' = ran
    BY <2>4 DEF RequestStop, bodyVars
  <2>5. ASSUME NEW t \in Lessees, SyncAcquire(t) \/ SyncRelease(t)
        PROVE  ran' = ran
    BY <2>5 DEF SyncAcquire, SyncRelease, bodyVars
  <2> QED BY <1>1, <2>1, <2>2, <2>3, <2>4, <2>5 DEF Next
<1>2. AInv /\ [Next]_vars => [closed /\ close_mutex_ = Free => ran' = ran]_vars
  BY <1>1
<1> QED BY <1>2, Invariance, PTL DEF Spec, NoStartAfterClose
=============================================================================
