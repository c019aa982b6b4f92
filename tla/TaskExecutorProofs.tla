------------------------- MODULE TaskExecutorProofs -------------------------
(***************************************************************************)
(* Proofs about TaskExecutor, for any jobs, any finite number of threads   *)
(* and any worker count and capacity.                                      *)
(*                                                                         *)
(* A job is in the queue, in a shutdown that took the queue, in a worker   *)
(* or in the hands of a submitter.  All four are functions to jobs, so one *)
(* lemma says what a job that enters such a place does, one what a job     *)
(* that leaves it does, and every action is one or two of these.           *)
(***************************************************************************)
EXTENDS TaskExecutor, FiniteSetTheorems, SequenceTheorems, TLAPS

(* The jobs in one of the places, and that none is there twice.            *)
Held(f) == {f[i] : i \in DOMAIN f} \ {NoJob}
Single(f) == \A i, k \in DOMAIN f : f[i] = f[k] /\ f[i] # NoJob => i = k

JobsApart ==
    /\ Single(queue) /\ Single(doomed) /\ Single(job) /\ Single(arg)
    /\ Held(queue) \cap Held(doomed) = {} /\ Held(queue) \cap Held(job) = {}
    /\ Held(queue) \cap Held(arg) = {} /\ Held(doomed) \cap Held(job) = {}
    /\ Held(doomed) \cap Held(arg) = {} /\ Held(job) \cap Held(arg) = {}

(* The jobs somebody owns are those without an answer.                     *)
PendingOwned ==
    {j \in Jobs : fut[j] = "pending"} = Held(queue) \cup Held(doomed) \cup Held(job) \cup Held(arg)

(* Workers are started from the first one on; a joined one has exited.     *)
HandleShape ==
    /\ \E n \in 0..WorkerCount : \A w \in Workers : handle[w] = "none" <=> w > n
    /\ \A w \in Workers : /\ handle[w] = "none" <=> wpc[w] = "absent"
                          /\ handle[w] = "joined" => wpc[w] = "exited"

(* A worker makes calls from within a callback.                            *)
CallShape ==
    \A w \in Workers :
        /\ call[w] # "none" => wpc[w] = "running"
        /\ call[w] \in {"shutdown", "cancelling", "joining"} => job[w] \in Stoppers

(* shutdown() holds lifecycle_mutex_ from its first line to its last.      *)
LockShape == \A a \in Actors : lifecycle_mutex_ = a <=> call[a] \in {"cancelling", "joining"}

(* What a shutdown has done when it is past a line.                        *)
StopShape ==
    /\ stopping => queue = << >>
    /\ lifecycle_mutex_ # Free => stopping
    /\ doomed # << >> => \E a \in Actors : call[a] = "cancelling"
    /\ \A w \in Workers : handle[w] = "detached" =>
           stopping /\ (wpc[w] = "running" => job[w] \in Stoppers)
    /\ \A a \in Actors : call[a] = "joining" =>
           \A w \in Workers : w < next => handle[w] # "joinable"
    /\ stopping /\ lifecycle_mutex_ = Free => \A w \in Workers : handle[w] # "joinable"

(* The inductive invariant: about the jobs, and about the threads.         *)
JobsInv == JobsApart /\ PendingOwned
ThreadsInv == HandleShape /\ CallShape /\ LockShape /\ StopShape
IInv == TypeOK /\ QueueBounded /\ JobsInv /\ ThreadsInv

(* It does not depend on how a callback ends: TypedJob answers with a value *)
(* or an error, and a pool's job, which throws OperationCancelled as well, *)
(* in any way.                                                             *)
AnyNext == Next \/ \E w \in Workers, r \in Resolved : Finish(w, r)

-----------------------------------------------------------------------------
(* Facts about the constants and about the places.                         *)

(* The constructor's clamping leaves a worker and a place in the queue.    *)
LEMMA Sizes == /\ WorkerCount \in Nat \ {0} /\ QueueCapacity \in Nat \ {0}
               /\ Workers \subseteq Nat /\ Workers \subseteq Actors
               /\ Free \notin Actors /\ NoJob \notin Jobs
BY ExecutorAssumption DEF WorkerCount, QueueCapacity, Workers, Actors

LEMMA Endings == {"value", "error"} \subseteq Resolved
BY DEF Resolved

(* A job enters a place that was free.                                     *)
LEMMA Enters ==
    ASSUME NEW S, NEW f, f \in [S -> Jobs \cup {NoJob}], Single(f), NEW s \in S, f[s] \notin Jobs,
           NEW j \in Jobs, j \notin Held(f)
    PROVE  /\ Single([f EXCEPT ![s] = j])
           /\ \A i : i \in Held([f EXCEPT ![s] = j]) <=> i \in Held(f) \/ i = j
<1> DEFINE g == [f EXCEPT ![s] = j]
<1>1. DOMAIN f = S /\ DOMAIN g = S /\ j # NoJob
  BY Sizes
<1>2. \A t \in S : g[t] = IF t = s THEN j ELSE f[t]
  OBVIOUS
<1> HIDE DEF g
<1>3. \A t \in S : f[t] # j
  BY <1>1 DEF Held
<1>4. Single(g)
  BY <1>1, <1>2, <1>3 DEF Single
<1>5. Held(g) = Held(f) \cup {j}
  BY <1>1, <1>2 DEF Held
<1> QED BY <1>4, <1>5 DEF g

(* A job leaves its place.                                                 *)
LEMMA Leaves ==
    ASSUME NEW S, NEW f, f \in [S -> Jobs \cup {NoJob}], Single(f), NEW s \in S, f[s] # NoJob
    PROVE  /\ Single([f EXCEPT ![s] = NoJob]) /\ f[s] \in Held(f)
           /\ Held([f EXCEPT ![s] = NoJob]) = Held(f) \ {f[s]}
<1> DEFINE g == [f EXCEPT ![s] = NoJob]
<1>1. DOMAIN f = S /\ DOMAIN g = S
  OBVIOUS
<1>2. \A t \in S : g[t] = IF t = s THEN NoJob ELSE f[t]
  OBVIOUS
<1> HIDE DEF g
<1>3. Single(g)
  BY <1>1, <1>2 DEF Single
<1>4. \A t \in S : f[t] = f[s] => t = s
  BY <1>1 DEF Single
<1>5. Held(g) = Held(f) \ {f[s]}
  BY <1>1, <1>2, <1>4 DEF Held
<1>6. f[s] \in Held(f)
  BY <1>1 DEF Held
<1> QED BY <1>3, <1>5, <1>6 DEF g

(* A job enters the end of a queue, and leaves its front.                  *)
LEMMA EntersQueue ==
    ASSUME NEW s \in Seq(Jobs), Single(s), NEW j \in Jobs, j \notin Held(s)
    PROVE  Single(Append(s, j)) /\ Held(Append(s, j)) = Held(s) \cup {j}
<1> DEFINE r == Append(s, j)
<1>1. /\ DOMAIN s = 1..Len(s) /\ DOMAIN r = 1..(Len(s) + 1) /\ Len(s) \in Nat
      /\ r[Len(s) + 1] = j /\ \A i \in 1..Len(s) : r[i] = s[i]
  BY AppendProperties, LenProperties
<1>2. NoJob # j /\ \A i \in DOMAIN s : s[i] # NoJob /\ s[i] # j
  BY Sizes, <1>1 DEF Held
<1> HIDE DEF r
<1>3. Single(r)
  BY <1>1, <1>2 DEF Single
<1>4. Held(r) = Held(s) \cup {j}
  <2>1. Held(r) \subseteq Held(s) \cup {j}
    BY <1>1, <1>2 DEF Held
  <2>2. Held(s) \subseteq Held(r)
    BY <1>1, <1>2 DEF Held
  <2>3. j \in Held(r)
    BY <1>1, <1>2 DEF Held
  <2> QED BY <2>1, <2>2, <2>3
<1> QED BY <1>3, <1>4 DEF r

LEMMA LeavesQueue ==
    ASSUME NEW s \in Seq(Jobs), Single(s), s # << >>
    PROVE  /\ Head(s) \in Jobs /\ Head(s) \in Held(s) /\ Tail(s) \in Seq(Jobs)
           /\ Single(Tail(s)) /\ Held(Tail(s)) = Held(s) \ {Head(s)}
           /\ Len(Tail(s)) = Len(s) - 1 /\ Len(s) \in Nat \ {0}
<1> DEFINE r == Tail(s)
<1>1. /\ DOMAIN s = 1..Len(s) /\ Len(s) \in Nat \ {0} /\ Head(s) = s[1] /\ r \in Seq(Jobs)
      /\ DOMAIN r = 1..(Len(s) - 1) /\ Len(r) = Len(s) - 1
      /\ \A i \in 1..(Len(s) - 1) : r[i] = s[i + 1]
  BY HeadTailProperties, LenProperties, EmptySeq
<1>2. \A i \in DOMAIN s : s[i] # NoJob /\ s[i] \in Jobs
  BY Sizes, <1>1
<1> HIDE DEF r
<1>3. \A i \in DOMAIN r : i \in Nat /\ i + 1 \in DOMAIN s /\ i + 1 # 1 /\ r[i] = s[i + 1]
  BY <1>1
<1>4. Single(r)
  <2> SUFFICES ASSUME NEW i \in DOMAIN r, NEW k \in DOMAIN r, r[i] = r[k] PROVE i = k
    BY DEF Single
  <2>1. i + 1 = k + 1
    BY <1>2, <1>3 DEF Single
  <2> QED BY <2>1, <1>3
<1>5. Held(r) = Held(s) \ {Head(s)}
  <2>2. \A i \in DOMAIN s : i # 1 => i - 1 \in DOMAIN r /\ r[i - 1] = s[i]
    BY <1>1
  <2>3. Held(r) \subseteq Held(s) \ {Head(s)}
    BY <1>1, <1>2, <1>3 DEF Held, Single
  <2>4. Held(s) \ {Head(s)} \subseteq Held(r)
    BY <1>1, <1>2, <2>2 DEF Held
  <2> QED BY <2>3, <2>4
<1>6. Head(s) \in Jobs /\ Head(s) \in Held(s)
  BY <1>1, <1>2 DEF Held
<1> QED BY <1>1, <1>4, <1>5, <1>6 DEF r

LEMMA NoneHeld == Held(<< >>) = {} /\ Single(<< >>)
BY DEF Held, Single
(* The started workers are counted by their last one.                      *)
LEMMA StartedIsLast ==
    ASSUME HandleShape
    PROVE  /\ Started \in 0..WorkerCount
           /\ \A w \in Workers : handle[w] = "none" <=> w > Started
<1>1. PICK n \in 0..WorkerCount : \A w \in Workers : handle[w] = "none" <=> w > n
  BY DEF HandleShape
<1>2. {w \in Workers : handle[w] # "none"} = 1..n
  BY <1>1, Sizes DEF Workers
<1>3. Started = n
  <2>1. n \in Nat /\ 1 \in Int /\ n \in Int
    BY <1>1, Sizes
  <2>2. Cardinality(1..n) = IF 1 > n THEN 0 ELSE n - 1 + 1
    BY <2>1, FS_Interval
  <2>3. Cardinality(1..n) = n
    BY <2>1, <2>2
  <2> QED BY <1>2, <2>3 DEF Started
<1> QED BY <1>1, <1>3

-----------------------------------------------------------------------------
(* The first state.                                                        *)
LEMMA InitInv == Init => IInv
<1> SUFFICES ASSUME Init PROVE IInv
  OBVIOUS
<1>1. TypeOK /\ QueueBounded
  <2>1. queue \in Seq(Jobs) /\ doomed \in Seq(Jobs) /\ Len(queue) = 0
    BY EmptySeq DEF Init
  <2>2. next \in 1..WorkerCount + 1
    BY Sizes DEF Init
  <2>3. QueueBounded
    BY <2>1, Sizes DEF QueueBounded
  <2> QED BY <2>1, <2>2, <2>3, Sizes DEF Init, TypeOK, Resolved
<1>2. JobsInv
  <2>1. Held(job) = {} /\ Single(job) /\ Held(arg) = {} /\ Single(arg)
    BY DEF Init, Held, Single
  <2>2. Held(queue) = {} /\ Single(queue) /\ Held(doomed) = {} /\ Single(doomed)
    BY NoneHeld DEF Init
  <2>3. {j \in Jobs : fut[j] = "pending"} = {}
    BY DEF Init
  <2> QED BY <2>1, <2>2, <2>3 DEF Init, JobsInv, JobsApart, PendingOwned
<1>3. ThreadsInv
  <2>1. HandleShape
    <3>1. 0 \in 0..WorkerCount /\ \A w \in Workers : handle[w] = "none" <=> w > 0
      BY Sizes DEF Init, Workers
    <3> QED BY <3>1 DEF Init, HandleShape
  <2>2. CallShape /\ LockShape /\ StopShape
    BY Sizes DEF Init, CallShape, LockShape, StopShape, Actors
  <2> QED BY <2>1, <2>2 DEF ThreadsInv
<1> QED BY <1>1, <1>2, <1>3 DEF IInv

-----------------------------------------------------------------------------
(* Types, and the bound of the queue.                                      *)
LEMMA SubmitTypes ==
    ASSUME IInv, NEW a \in Actors, Submit(a)
    PROVE  TypeOK' /\ QueueBounded'
<1> USE DEF IInv, TypeOK, Resolved, Submit
<1>1. arg[a] \in Jobs /\ arg[a] # NoJob
  BY Sizes
<1>2. ASSUME RejectJob(a), handle' = handle /\ wpc' = wpc
      PROVE  TypeOK' /\ QueueBounded'
  BY <1>1, <1>2 DEF RejectJob, QueueBounded
<1>3. ASSUME NEW n \in 0..WorkerCount, StartUpTo(n)
      PROVE  /\ handle' \in [Workers -> {"none", "joinable", "joined", "detached"}]
             /\ wpc' \in [Workers -> {"absent", "looking", "asleep", "running", "exited"}]
             /\ \A w \in Workers : wpc'[w] = "running" <=> wpc[w] = "running"
  BY <1>3 DEF StartUpTo
<1>4. CASE Stopped(a) \/ QueueFull(a)
  BY <1>2, <1>4 DEF Stopped, QueueFull
<1>5. CASE SpawnThrows(a)
  <2>1. PICK n \in Started..WorkerCount - 1 : StartUpTo(n)
    BY <1>5 DEF SpawnThrows
  <2>2. n \in 0..WorkerCount
    BY <2>1, StartedIsLast, Sizes DEF ThreadsInv
  <2> QED BY <1>1, <1>3, <1>5, <2>1, <2>2 DEF SpawnThrows, RejectJob, QueueBounded
<1>6. CASE Accept(a)
  <2>1. Len(queue) \in Nat /\ Len(queue) < QueueCapacity
    BY <1>6, Sizes, LenProperties DEF Accept, Full
  <2>2. queue' \in Seq(Jobs) /\ Len(queue') = Len(queue) + 1
    BY <1>1, <1>6, AppendProperties DEF Accept
  <2>3. QueueBounded'
    BY <2>1, <2>2, Sizes DEF QueueBounded
  <2>4. WorkerCount \in 0..WorkerCount
    BY Sizes
  <2> QED BY <1>1, <1>3, <1>6, <2>2, <2>3, <2>4 DEF Accept
<1> QED BY <1>4, <1>5, <1>6

LEMMA LookTypes ==
    ASSUME IInv, NEW w \in Workers, Look(w)
    PROVE  TypeOK' /\ QueueBounded'
<1> USE DEF IInv, TypeOK, Resolved, Look
<1>1. CASE queue # << >>
  <2>1. /\ Head(queue) \in Jobs /\ queue' \in Seq(Jobs) /\ Len(queue') <= Len(queue)
        /\ Len(queue') \in Nat /\ Len(queue) \in Nat
    <3>1. queue \in Seq(Jobs) /\ Single(queue) /\ queue' = Tail(queue)
      BY <1>1 DEF JobsInv, JobsApart
    <3>2. /\ Head(queue) \in Jobs /\ Tail(queue) \in Seq(Jobs)
          /\ Len(Tail(queue)) = Len(queue) - 1 /\ Len(queue) \in Nat \ {0}
      BY <1>1, <3>1, LeavesQueue
    <3>3. Len(queue') = Len(queue) - 1 /\ Len(queue') \in Nat /\ Len(queue) \in Nat
      BY ONLY <3>1, <3>2
    <3> QED BY ONLY <3>1, <3>2, <3>3
  <2>2. QueueBounded'
    BY <2>1, Sizes DEF QueueBounded
  <2>3. /\ job' = [job EXCEPT ![w] = Head(queue)] /\ wpc' = [wpc EXCEPT ![w] = "running"]
        /\ invoked' = invoked \cup {Head(queue)} /\ Head(queue) # NoJob
        /\ UNCHANGED <<stopping, lifecycle_mutex_, handle, fut, call, arg, doomed, next>>
    BY <1>1, <2>1, Sizes
  <2>4. /\ job' \in [Workers -> Jobs \cup {NoJob}] /\ invoked' \subseteq Jobs
        /\ wpc' \in [Workers -> {"absent", "looking", "asleep", "running", "exited"}]
    BY <2>1, <2>3
  <2>5. \A v \in Workers : job'[v] # NoJob <=> wpc'[v] = "running"
    BY <2>3
  <2> QED BY <2>1, <2>2, <2>3, <2>4, <2>5
<1>2. CASE queue = << >>
  BY <1>2, Sizes DEF QueueBounded
<1> QED BY <1>1, <1>2

LEMMA TypesKept ==
    ASSUME IInv, [AnyNext]_vars
    PROVE  TypeOK' /\ QueueBounded'
<1> USE DEF IInv, TypeOK, Resolved
<1>1. ASSUME NEW a \in Actors, NEW j \in Jobs, CallSubmit(a, j)
      PROVE  TypeOK' /\ QueueBounded'
  BY <1>1, Sizes DEF CallSubmit, MakeJob, Idle, QueueBounded
<1>2. ASSUME NEW a \in Actors, SubmitNotify(a)
      PROVE  TypeOK' /\ QueueBounded'
  BY <1>2 DEF SubmitNotify, WakeOne, Asleep, QueueBounded
<1>3. ASSUME NEW w \in Workers, SpuriousWake(w)
      PROVE  TypeOK' /\ QueueBounded'
  BY <1>3 DEF SpuriousWake, QueueBounded
<1>4. ASSUME NEW w \in Workers, NEW r \in Resolved, Finish(w, r)
      PROVE  TypeOK' /\ QueueBounded'
  BY <1>4, Sizes DEF Finish, QueueBounded
<1>5. ASSUME NEW a \in Actors, CallShutdown(a)
      PROVE  TypeOK' /\ QueueBounded'
  BY <1>5 DEF CallShutdown, StartShutdown, Idle, QueueBounded
<1>6. ASSUME NEW a \in Actors, BeginShutdown(a)
      PROVE  TypeOK' /\ QueueBounded'
  <2>1. queue' \in Seq(Jobs) /\ Len(queue') = 0
    BY <1>6, EmptySeq DEF BeginShutdown
  <2>2. QueueBounded'
    BY <2>1, Sizes DEF QueueBounded
  <2> QED BY <1>6, <2>1, <2>2 DEF BeginShutdown
<1>7. ASSUME NEW a \in Actors, CancelQueued(a)
      PROVE  TypeOK' /\ QueueBounded'
  <2>1. Head(doomed) \in Jobs /\ doomed' \in Seq(Jobs)
    BY <1>7, LeavesQueue DEF CancelQueued, JobsInv, JobsApart
  <2> QED BY <1>7, <2>1 DEF CancelQueued, QueueBounded
<1>8. ASSUME NEW a \in Actors, ShutdownNotify(a)
      PROVE  TypeOK' /\ QueueBounded'
  <2>1. next' \in 1..WorkerCount + 1
    BY <1>8, Sizes DEF ShutdownNotify
  <2> QED BY <1>8, <2>1 DEF ShutdownNotify, WakeAll, QueueBounded
<1>9. ASSUME NEW a \in Actors, JoinNext(a)
      PROVE  TypeOK' /\ QueueBounded'
  <2>1. next' \in 1..WorkerCount + 1
    BY <1>9, StartedIsLast, Sizes DEF JoinNext, ThreadsInv
  <2> QED BY <1>9, <2>1 DEF JoinNext, Reap, QueueBounded
<1>10. ASSUME NEW a \in Actors, EndShutdown(a)
       PROVE  TypeOK' /\ QueueBounded'
  BY <1>10 DEF EndShutdown, QueueBounded
<1>11. CASE UNCHANGED vars
  BY <1>11 DEF vars, QueueBounded
<1> HIDE DEF IInv, TypeOK, Resolved
<1> QED
  BY <1>1, <1>2, <1>3, <1>4, <1>5, <1>6, <1>7, <1>8, <1>9, <1>10, <1>11, SubmitTypes, LookTypes, Endings
  DEF AnyNext, Next, Locking, Calling, Working

-----------------------------------------------------------------------------
(* Jobs: everybody's stay where they are, or one changes places.           *)
LEMMA JobsStay ==
    ASSUME JobsInv, UNCHANGED <<queue, doomed, job, arg, fut>>
    PROVE  JobsInv'
<1>1. /\ queue' = queue /\ doomed' = doomed /\ job' = job /\ arg' = arg
      /\ fut' = fut
  OBVIOUS
<1> QED BY ONLY JobsInv, <1>1 DEF JobsInv, JobsApart, PendingOwned

(* A job's promise is answered when it leaves its place.                   *)
LEMMA Answered ==
    ASSUME IInv, NEW j \in Jobs, NEW r, r # "pending", fut' = [fut EXCEPT ![j] = r]
    PROVE  /\ {i \in Jobs : fut'[i] = "pending"} = {i \in Jobs : fut[i] = "pending"} \ {j}
           /\ \A i \in Jobs : fut'[i] = IF i = j THEN r ELSE fut[i]
BY DEF IInv, TypeOK

LEMMA OfferedJobs ==
    ASSUME IInv, NEW a \in Actors, NEW j \in Jobs, arg[a] = NoJob, MakeJob(a, j)
    PROVE  JobsInv'
<1>1. fut[j] = "unsubmitted" /\ fut' = [fut EXCEPT ![j] = "pending"]
  BY DEF MakeJob
<1>2. \A i \in Jobs : fut'[i] = IF i = j THEN "pending" ELSE fut[i]
  BY <1>1 DEF IInv, TypeOK
<1>3. j \notin Held(queue) \cup Held(doomed) \cup Held(job) \cup Held(arg)
  BY <1>1 DEF IInv, JobsInv, PendingOwned
<1>4. Single(arg') /\ Held(arg') = Held(arg) \cup {j}
  <2>1. /\ arg \in [Actors -> Jobs \cup {NoJob}] /\ Single(arg) /\ j \notin Held(arg)
        /\ arg' = [arg EXCEPT ![a] = j] /\ arg[a] \notin Jobs
    BY <1>3, Sizes DEF MakeJob, IInv, TypeOK, JobsInv, JobsApart
  <2>2. Single([arg EXCEPT ![a] = j]) /\ \A i : i \in Held([arg EXCEPT ![a] = j]) <=> i \in Held(arg) \/ i = j
    BY <2>1, Enters
  <2> QED BY <2>1, <2>2
<1>5. {i \in Jobs : fut'[i] = "pending"} = {i \in Jobs : fut[i] = "pending"} \cup {j}
  BY <1>2
<1>6. queue' = queue /\ doomed' = doomed /\ job' = job
  BY DEF MakeJob
<1> QED BY <1>3, <1>4, <1>5, <1>6 DEF IInv, JobsInv, JobsApart, PendingOwned

LEMMA RejectedJobs ==
    ASSUME IInv, NEW a \in Actors, arg[a] \in Jobs, RejectJob(a), UNCHANGED <<doomed, job>>
    PROVE  JobsInv'
<1>1. /\ {i \in Jobs : fut'[i] = "pending"} = {i \in Jobs : fut[i] = "pending"} \ {arg[a]}
      /\ \A i \in Jobs : fut'[i] = IF i = arg[a] THEN "rejected" ELSE fut[i]
  BY Answered DEF RejectJob
<1>2. Single(arg') /\ Held(arg') = Held(arg) \ {arg[a]} /\ arg[a] \in Held(arg)
  <2>1. /\ arg \in [Actors -> Jobs \cup {NoJob}] /\ Single(arg) /\ arg[a] # NoJob
        /\ arg' = [arg EXCEPT ![a] = NoJob]
    BY Sizes DEF RejectJob, IInv, TypeOK, JobsInv, JobsApart
  <2> QED BY <2>1, Leaves
<1>3. queue' = queue /\ doomed' = doomed /\ job' = job
  BY DEF RejectJob
<1> QED BY <1>1, <1>2, <1>3 DEF IInv, JobsInv, JobsApart, PendingOwned

LEMMA AcceptedJobs ==
    ASSUME IInv, NEW a \in Actors, arg[a] \in Jobs, Accept(a), UNCHANGED <<doomed, job>>
    PROVE  JobsInv'
<1>1. Single(arg') /\ Held(arg') = Held(arg) \ {arg[a]} /\ arg[a] \in Held(arg)
  <2>1. /\ arg \in [Actors -> Jobs \cup {NoJob}] /\ Single(arg) /\ arg[a] # NoJob
        /\ arg' = [arg EXCEPT ![a] = NoJob]
    BY Sizes DEF Accept, IInv, TypeOK, JobsInv, JobsApart
  <2> QED BY <2>1, Leaves
<1>2. Single(queue') /\ Held(queue') = Held(queue) \cup {arg[a]}
  <2>1. queue \in Seq(Jobs) /\ Single(queue) /\ arg[a] \notin Held(queue) /\ queue' = Append(queue, arg[a])
    BY <1>1 DEF Accept, IInv, TypeOK, JobsInv, JobsApart
  <2> QED BY <2>1, EntersQueue
<1>3. fut' = fut /\ doomed' = doomed /\ job' = job
  BY DEF Accept
<1>4. JobsApart /\ PendingOwned
  BY DEF IInv, JobsInv
<1>5. JobsApart'
  BY <1>1, <1>2, <1>3, <1>4 DEF JobsApart
<1>6. PendingOwned'
  BY <1>1, <1>2, <1>3, <1>4 DEF PendingOwned
<1> QED BY <1>5, <1>6 DEF JobsInv

LEMMA TakenJobs ==
    ASSUME IInv, NEW w \in Workers, Look(w)
    PROVE  JobsInv'
<1>1. CASE queue = << >>
  BY <1>1, JobsStay DEF Look, IInv
<1>2. CASE queue # << >>
  <2> DEFINE j == Head(queue)
  <2>1. /\ job' = [job EXCEPT ![w] = j] /\ queue' = Tail(queue)
        /\ fut' = fut /\ doomed' = doomed /\ arg' = arg /\ job[w] = NoJob
    BY <1>2, Sizes DEF Look, IInv, TypeOK
  <2>2. /\ j \in Jobs /\ j \in Held(queue) /\ Single(queue') /\ Held(queue') = Held(queue) \ {j}
    <3>1. queue \in Seq(Jobs) /\ Single(queue)
      BY DEF IInv, TypeOK, JobsInv, JobsApart
    <3> QED BY <1>2, <2>1, <3>1, LeavesQueue
  <2> HIDE DEF j
  <2>3. Single(job') /\ \A i : i \in Held(job') <=> i \in Held(job) \/ i = j
    <3>1. /\ job \in [Workers -> Jobs \cup {NoJob}] /\ Single(job) /\ j \notin Held(job)
          /\ job' = [job EXCEPT ![w] = j] /\ job[w] \notin Jobs
      BY <2>1, <2>2, Sizes DEF IInv, TypeOK, JobsInv, JobsApart
    <3>2. /\ Single([job EXCEPT ![w] = j])
          /\ \A i : i \in Held([job EXCEPT ![w] = j]) <=> i \in Held(job) \/ i = j
      BY <2>2, <3>1, Enters
    <3> QED BY <3>1, <3>2
  <2>4. JobsApart /\ PendingOwned
    BY DEF IInv, JobsInv
  <2>5. JobsApart'
    BY <2>1, <2>2, <2>3, <2>4 DEF JobsApart
  <2>6. PendingOwned'
    BY <2>1, <2>2, <2>3, <2>4 DEF PendingOwned
  <2> QED BY <2>5, <2>6 DEF JobsInv
<1> QED BY <1>1, <1>2

LEMMA FinishedJobs ==
    ASSUME IInv, NEW w \in Workers, NEW r \in Resolved, Finish(w, r)
    PROVE  JobsInv'
<1>1. /\ fut' = [fut EXCEPT ![job[w]] = r] /\ job' = [job EXCEPT ![w] = NoJob] /\ job[w] \in Jobs
      /\ queue' = queue /\ doomed' = doomed /\ arg' = arg
  BY Sizes DEF Finish, IInv, TypeOK
<1>2. {i \in Jobs : fut'[i] = "pending"} = {i \in Jobs : fut[i] = "pending"} \ {job[w]}
  BY <1>1, Answered DEF Resolved
<1>3. Single(job') /\ Held(job') = Held(job) \ {job[w]} /\ job[w] \in Held(job)
  <2>1. /\ job \in [Workers -> Jobs \cup {NoJob}] /\ Single(job) /\ job[w] # NoJob
        /\ job' = [job EXCEPT ![w] = NoJob]
    BY <1>1, Sizes DEF IInv, TypeOK, JobsInv, JobsApart
  <2> QED BY <2>1, Leaves
<1>4. JobsApart /\ PendingOwned
  BY DEF IInv, JobsInv
<1>5. JobsApart'
  BY <1>1, <1>3, <1>4 DEF JobsApart
<1>6. PendingOwned'
  <2>1. /\ job[w] \notin Held(queue) /\ job[w] \notin Held(doomed)
        /\ job[w] \notin Held(arg)
    BY <1>3, <1>4 DEF JobsApart
  <2>2. {i \in Jobs : fut[i] = "pending"}
            = Held(queue) \cup Held(doomed) \cup Held(job) \cup Held(arg)
    BY <1>4 DEF PendingOwned
  <2>3. Held(queue') = Held(queue) /\ Held(doomed') = Held(doomed) /\ Held(arg') = Held(arg)
    BY <1>1
  <2>4. {i \in Jobs : fut'[i] = "pending"}
            = Held(queue') \cup Held(doomed') \cup Held(job') \cup Held(arg')
    BY ONLY <1>2, <1>3, <2>1, <2>2, <2>3
  <2> QED BY <2>4 DEF PendingOwned
<1> QED BY <1>5, <1>6 DEF JobsInv

LEMMA SweptJobs ==
    ASSUME IInv, NEW a \in Actors, BeginShutdown(a)
    PROVE  JobsInv'
<1>1. doomed = << >>
  BY Sizes DEF BeginShutdown, IInv, ThreadsInv, StopShape, LockShape
<1>2. doomed' = queue /\ queue' = << >> /\ Held(queue') = {} /\ Single(queue') /\ Held(doomed) = {}
  BY <1>1, NoneHeld DEF BeginShutdown
<1>3. job' = job /\ arg' = arg /\ fut' = fut
  BY DEF BeginShutdown
<1>4. JobsApart /\ PendingOwned
  BY DEF IInv, JobsInv
<1>5. JobsApart' /\ PendingOwned'
  BY <1>2, <1>3, <1>4 DEF JobsApart, PendingOwned
<1> QED BY <1>5 DEF JobsInv

LEMMA CancelledJobs ==
    ASSUME IInv, NEW a \in Actors, CancelQueued(a)
    PROVE  JobsInv'
<1> DEFINE j == Head(doomed)
<1>1. /\ fut' = [fut EXCEPT ![j] = "cancelled"] /\ doomed' = Tail(doomed)
      /\ queue' = queue /\ job' = job /\ arg' = arg
  BY DEF CancelQueued
<1>2. j \in Jobs /\ j \in Held(doomed) /\ Single(doomed') /\ Held(doomed') = Held(doomed) \ {j}
  <2>1. doomed \in Seq(Jobs) /\ Single(doomed) /\ doomed # << >>
    BY DEF CancelQueued, IInv, TypeOK, JobsInv, JobsApart
  <2> QED BY <1>1, <2>1, LeavesQueue
<1> HIDE DEF j
<1>3. /\ {i \in Jobs : fut'[i] = "pending"} = {i \in Jobs : fut[i] = "pending"} \ {j}
      /\ \A i \in Jobs : fut'[i] = IF i = j THEN "cancelled" ELSE fut[i]
  BY <1>1, <1>2, Answered
<1>4. JobsApart /\ PendingOwned
  BY DEF IInv, JobsInv
<1>5. JobsApart'
  BY <1>1, <1>2, <1>4 DEF JobsApart
<1>6. PendingOwned'
  BY <1>1, <1>2, <1>3, <1>4 DEF JobsApart, PendingOwned
<1> QED BY <1>5, <1>6 DEF JobsInv

LEMMA JobsKept ==
    ASSUME IInv, [AnyNext]_vars
    PROVE  JobsInv'
<1>0. JobsInv
  BY DEF IInv
<1>1. ASSUME NEW a \in Actors, NEW j \in Jobs, CallSubmit(a, j)
      PROVE  JobsInv'
  <2>1. MakeJob(a, j) /\ call[a] # "submit"
    BY <1>1 DEF CallSubmit, Idle
  <2>2. arg[a] = NoJob
    BY <2>1 DEF IInv, TypeOK
  <2> QED BY <2>1, <2>2, OfferedJobs
<1>2. ASSUME NEW a \in Actors, Submit(a)
      PROVE  JobsInv'
  <2>0. call[a] = "submit" /\ doomed' = doomed /\ job' = job
    BY <1>2 DEF Submit
  <2>1. arg[a] \in Jobs
    BY <2>0, Sizes DEF IInv, TypeOK
  <2>2. RejectJob(a) \/ Accept(a)
    BY <1>2 DEF Submit, Stopped, QueueFull, SpawnThrows
  <2> QED BY <2>0, <2>1, <2>2, RejectedJobs, AcceptedJobs
<1>3. ASSUME NEW a \in Actors, CallShutdown(a) \/ SubmitNotify(a) \/ ShutdownNotify(a)
                                \/ JoinNext(a) \/ EndShutdown(a)
      PROVE  JobsInv'
  <2>1. UNCHANGED <<queue, doomed, job, arg, fut>>
    BY <1>3 DEF CallShutdown, StartShutdown, SubmitNotify, ShutdownNotify, JoinNext, EndShutdown
  <2> QED BY <1>0, <2>1, JobsStay
<1>4. ASSUME NEW w \in Workers, SpuriousWake(w)
      PROVE  JobsInv'
  BY <1>0, <1>4, JobsStay DEF SpuriousWake
<1>5. CASE UNCHANGED vars
  BY <1>0, <1>5, JobsStay DEF vars
<1> QED
  BY <1>1, <1>2, <1>3, <1>4, <1>5, TakenJobs, FinishedJobs, SweptJobs, CancelledJobs, Endings
  DEF AnyNext, Next, Locking, Calling, Working

-----------------------------------------------------------------------------
(* Threads: one lemma for the steps that only move threads along, and one    *)
(* for each of the others.                                                 *)

(* An actor enters or leaves a call, but not the locked part of shutdown.  *)
Moves(b) ==
    /\ call[b] \notin {"cancelling", "joining"} /\ call'[b] \notin {"cancelling", "joining"}
    /\ b \in Workers /\ call'[b] # "none" => wpc[b] = "running"
    /\ b \in Workers /\ call'[b] = "shutdown" => job[b] \in Stoppers

(* Handles, the lock, the flag and both lists stay; a sleeper may wake.    *)
LEMMA ThreadsStay ==
    ASSUME IInv, UNCHANGED <<stopping, lifecycle_mutex_, handle, job, next>>,
           \A w \in Workers : wpc'[w] = wpc[w] \/ (wpc[w] = "asleep" /\ wpc'[w] = "looking"),
           \A b \in Actors : call'[b] = call[b] \/ Moves(b),
           stopping => queue' = << >>, doomed' = doomed
    PROVE  ThreadsInv'
<1>1. HandleShape /\ CallShape /\ LockShape /\ StopShape
  BY DEF IInv, ThreadsInv
<1>2. HandleShape'
  BY <1>1 DEF HandleShape
<1>3. CallShape'
  BY <1>1, Sizes DEF CallShape, Moves
<1>4. LockShape'
  BY <1>1 DEF LockShape, Moves
<1>5. StopShape'
  <2>1. doomed' # << >> => \E b \in Actors : call'[b] = "cancelling"
    BY <1>1 DEF StopShape, Moves
  <2>2. \A w \in Workers : handle'[w] = "detached" =>
            stopping' /\ (wpc'[w] = "running" => job'[w] \in Stoppers)
    BY <1>1 DEF StopShape
  <2>3. \A b \in Actors : call'[b] = "joining" =>
            \A w \in Workers : w < next' => handle'[w] # "joinable"
    BY <1>1 DEF StopShape, Moves
  <2> QED BY <1>1, <2>1, <2>2, <2>3 DEF StopShape
<1> QED BY <1>2, <1>3, <1>4, <1>5 DEF ThreadsInv

LEMMA SubmitThreads ==
    ASSUME IInv, NEW a \in Actors, Submit(a)
    PROVE  ThreadsInv'
<1>1. /\ call \in [Actors -> {"none", "submit", "notify", "shutdown", "cancelling", "joining"}]
      /\ HandleShape /\ CallShape /\ LockShape /\ StopShape
  BY DEF IInv, TypeOK, ThreadsInv
<1>2. /\ call[a] = "submit"
      /\ a \in Workers => wpc[a] = "running"
      /\ UNCHANGED <<stopping, lifecycle_mutex_, job, doomed, next>>
  BY <1>1 DEF Submit, CallShape
<1>3. CASE Stopped(a) \/ QueueFull(a)
  <2>1. /\ call' = [call EXCEPT ![a] = "none"] /\ queue' = queue /\ handle' = handle /\ wpc' = wpc
    BY <1>3 DEF Stopped, QueueFull, RejectJob
  <2>2. stopping => queue' = << >>
    BY <1>1, <2>1 DEF StopShape
  <2>3. \A b \in Actors : call'[b] = IF b = a THEN "none" ELSE call[b]
    BY <1>1, <2>1
  <2>4. \A b \in Actors : call'[b] = call[b] \/ Moves(b)
    BY <1>2, <2>3 DEF Moves
  <2>5. \A w \in Workers : wpc'[w] = wpc[w] \/ (wpc[w] = "asleep" /\ wpc'[w] = "looking")
    BY <2>1
  <2> QED BY <1>2, <2>1, <2>2, <2>4, <2>5, ThreadsStay
<1>4. CASE SpawnThrows(a) \/ Accept(a)
  <2>1. PICK n \in Started..WorkerCount : StartUpTo(n)
    <3>1. Started \in 0..WorkerCount
      BY <1>1, StartedIsLast
    <3>2. WorkerCount \in Started..WorkerCount /\ Started..WorkerCount - 1 \subseteq Started..WorkerCount
      BY <3>1, Sizes
    <3> QED BY <1>4, <3>2 DEF SpawnThrows, Accept
  <2>2. /\ ~stopping /\ lifecycle_mutex_ = Free
        /\ \E c \in {"none", "notify"} : \A b \in Actors : call'[b] = IF b = a THEN c ELSE call[b]
    BY <1>1, <1>4 DEF SpawnThrows, Accept, RejectJob, Submit
  <2>3. /\ n \in 0..WorkerCount /\ Started \in 0..WorkerCount /\ Started <= n
        /\ \A w \in Workers : handle[w] = "none" <=> w > Started
    BY <1>1, <2>1, StartedIsLast, Sizes
  <2>4. \A w \in Workers :
           /\ handle'[w] = IF handle[w] = "none" /\ w <= n THEN "joinable" ELSE handle[w]
           /\ wpc'[w] = IF wpc[w] = "absent" /\ w <= n THEN "looking" ELSE wpc[w]
    BY <2>1 DEF StartUpTo
  <2>5. HandleShape'
    <3>1. \A w \in Workers : handle'[w] = "none" <=> w > n
      BY <2>3, <2>4, Sizes DEF Workers
    <3>2. \A w \in Workers : /\ handle'[w] = "none" <=> wpc'[w] = "absent"
                             /\ handle'[w] = "joined" => wpc'[w] = "exited"
      BY <1>1, <2>4 DEF HandleShape
    <3> QED BY <2>3, <3>1, <3>2 DEF HandleShape
  <2>6. CallShape'
    <3>1. \A w \in Workers : wpc[w] = "running" => wpc'[w] = "running"
      BY <2>4
    <3>2. PICK c \in {"none", "notify"} : \A b \in Actors : call'[b] = IF b = a THEN c ELSE call[b]
      BY <2>2
    <3> QED BY <1>1, <1>2, <3>1, <3>2, Sizes DEF CallShape
  <2>7. LockShape'
    BY <1>1, <1>2, <2>2 DEF LockShape
  <2>8. StopShape'
    BY <1>1, <1>2, <2>2, <2>4, Sizes DEF StopShape, LockShape
  <2> QED BY <2>5, <2>6, <2>7, <2>8 DEF ThreadsInv
<1> QED BY <1>3, <1>4 DEF Submit

LEMMA WorkerThreads ==
    ASSUME IInv, NEW w \in Workers, NEW p \in {"looking", "asleep", "running", "exited"},
           wpc' = [wpc EXCEPT ![w] = p],
           wpc[w] \notin {"absent", "exited"}, wpc[w] = "running" => call[w] = "none",
           \A v \in Workers : v # w => job'[v] = job[v],
           p = "running" => queue # << >>,
           UNCHANGED <<stopping, lifecycle_mutex_, handle, call, doomed, next>>, stopping => queue' = << >>
    PROVE  ThreadsInv'
<1>1. /\ \A v \in Workers : wpc'[v] = IF v = w THEN p ELSE wpc[v]
      /\ HandleShape /\ CallShape /\ LockShape /\ StopShape
  BY DEF IInv, TypeOK, ThreadsInv
<1>2. HandleShape'
  BY <1>1 DEF HandleShape
<1>3. CallShape'
  BY <1>1 DEF CallShape
<1>4. LockShape' /\ StopShape'
  BY <1>1 DEF LockShape, StopShape
<1> QED BY <1>2, <1>3, <1>4 DEF ThreadsInv

LEMMA BeginShutdownThreads ==
    ASSUME IInv, NEW a \in Actors, BeginShutdown(a)
    PROVE  ThreadsInv'
<1>1. /\ \A b \in Actors : call'[b] = IF b = a THEN "cancelling" ELSE call[b]
      /\ call[a] = "shutdown" /\ lifecycle_mutex_ = Free /\ lifecycle_mutex_' = a /\ stopping' = TRUE
      /\ queue' = << >> /\ handle' = handle /\ wpc' = wpc /\ job' = job /\ next' = next
      /\ HandleShape /\ CallShape /\ LockShape /\ StopShape
  BY DEF BeginShutdown, IInv, TypeOK, ThreadsInv
<1>2. HandleShape'
  BY <1>1 DEF HandleShape
<1>3. CallShape'
  BY <1>1, Sizes DEF CallShape
<1>4. LockShape'
  BY <1>1, Sizes DEF LockShape
<1>5. StopShape'
  BY <1>1, Sizes DEF StopShape, LockShape
<1> QED BY <1>2, <1>3, <1>4, <1>5 DEF ThreadsInv

LEMMA CancelQueuedThreads ==
    ASSUME IInv, NEW a \in Actors, CancelQueued(a)
    PROVE  ThreadsInv'
<1>1. /\ call[a] = "cancelling" /\ HandleShape /\ CallShape /\ LockShape /\ StopShape
      /\ UNCHANGED <<queue, stopping, lifecycle_mutex_, handle, wpc, job, call, next>>
  BY DEF CancelQueued, IInv, ThreadsInv
<1> QED BY <1>1 DEF ThreadsInv, HandleShape, CallShape, LockShape, StopShape

LEMMA ShutdownNotifyThreads ==
    ASSUME IInv, NEW a \in Actors, ShutdownNotify(a)
    PROVE  ThreadsInv'
<1>1. /\ \A b \in Actors : call'[b] = IF b = a THEN "joining" ELSE call[b]
      /\ call[a] = "cancelling" /\ doomed = << >> /\ next' = 1
      /\ UNCHANGED <<queue, stopping, lifecycle_mutex_, handle, job, doomed>>
      /\ HandleShape /\ CallShape /\ LockShape /\ StopShape
  BY DEF ShutdownNotify, IInv, TypeOK, ThreadsInv
<1>2. \A w \in Workers : wpc'[w] = IF wpc[w] = "asleep" THEN "looking" ELSE wpc[w]
  BY DEF ShutdownNotify, WakeAll
<1>3. HandleShape'
  BY <1>1, <1>2 DEF HandleShape
<1>4. CallShape'
  BY <1>1, <1>2, Sizes DEF CallShape
<1>5. LockShape'
  BY <1>1 DEF LockShape
<1>6. StopShape'
  <2>1. \A w \in Workers : ~(w < 1)
    BY DEF Workers
  <2> QED BY <1>1, <1>2, <2>1 DEF StopShape
<1> QED BY <1>3, <1>4, <1>5, <1>6 DEF ThreadsInv

LEMMA JoinNextThreads ==
    ASSUME IInv, NEW a \in Actors, JoinNext(a)
    PROVE  ThreadsInv'
<1>1. /\ call[a] = "joining" /\ next \in 1..WorkerCount + 1 /\ next <= Started /\ next' = next + 1
      /\ UNCHANGED <<queue, stopping, lifecycle_mutex_, wpc, job, call, doomed>>
      /\ HandleShape /\ CallShape /\ LockShape /\ StopShape
      /\ handle \in [Workers -> {"none", "joinable", "joined", "detached"}]
  BY DEF JoinNext, IInv, TypeOK, ThreadsInv
<1>2. next \in Workers /\ handle[next] # "none"
  <2>1. Started \in 0..WorkerCount /\ \A w \in Workers : handle[w] = "none" <=> w > Started
    BY <1>1, StartedIsLast
  <2>2. next \in Workers
    BY <1>1, <2>1, Sizes DEF Workers
  <2> QED BY <1>1, <2>1, <2>2, Sizes
<1>3. PICK h \in {"joined", "detached"} :
         /\ \A w \in Workers : handle'[w] = IF w = next THEN h ELSE handle[w]
         /\ h = "joined" => wpc[next] = "exited"
         /\ h = "detached" => next = a \/ handle[next] = "detached"
  BY <1>1, <1>2 DEF JoinNext, Reap, Joinable, HandleShape
<1>4. HandleShape'
  <2>1. \A w \in Workers : handle'[w] = "none" <=> handle[w] = "none"
    BY <1>2, <1>3
  <2>2. \A w \in Workers : /\ handle'[w] = "none" <=> wpc'[w] = "absent"
                           /\ handle'[w] = "joined" => wpc'[w] = "exited"
    BY <1>1, <1>3, <2>1 DEF HandleShape
  <2> QED BY <1>1, <2>1, <2>2 DEF HandleShape
<1>5. CallShape' /\ LockShape'
  BY <1>1 DEF CallShape, LockShape
<1>6. StopShape'
  <2>1. lifecycle_mutex_ = a /\ stopping
    BY <1>1, Sizes DEF LockShape, StopShape
  <2>2. \A w \in Workers : handle'[w] = "detached" =>
            stopping' /\ (wpc'[w] = "running" => job'[w] \in Stoppers)
    BY <1>1, <1>3, <2>1 DEF StopShape, CallShape
  <2>3. \A w \in Workers : w < next' => handle'[w] # "joinable"
    BY <1>1, <1>2, <1>3, Sizes DEF StopShape, Workers
  <2> QED BY <1>1, <2>1, <2>2, <2>3, Sizes DEF StopShape
<1> QED BY <1>4, <1>5, <1>6 DEF ThreadsInv

LEMMA EndShutdownThreads ==
    ASSUME IInv, NEW a \in Actors, EndShutdown(a)
    PROVE  ThreadsInv'
<1>1. /\ \A b \in Actors : call'[b] = IF b = a THEN "none" ELSE call[b]
      /\ call[a] = "joining" /\ next > Started /\ lifecycle_mutex_' = Free
      /\ UNCHANGED <<queue, stopping, handle, wpc, job, doomed, next>> /\ next \in Nat
      /\ HandleShape /\ CallShape /\ LockShape /\ StopShape
  BY Sizes DEF EndShutdown, IInv, TypeOK, ThreadsInv
<1>2. HandleShape'
  BY <1>1 DEF HandleShape
<1>3. CallShape'
  BY <1>1, Sizes DEF CallShape
<1>4. \A b \in Actors : call'[b] \notin {"cancelling", "joining"}
  BY <1>1 DEF LockShape
<1>5. LockShape'
  BY <1>1, <1>4, Sizes DEF LockShape
<1>6. \A w \in Workers : handle[w] # "joinable"
  <2>1. Started \in 0..WorkerCount /\ \A w \in Workers : handle[w] = "none" <=> w > Started
    BY <1>1, StartedIsLast
  <2>2. \A w \in Workers : w < next \/ w > Started
    BY <1>1, <2>1, Sizes
  <2> QED BY <1>1, <2>1, <2>2 DEF StopShape
<1>7. doomed = << >>
  BY <1>1 DEF StopShape, LockShape
<1>8. StopShape'
  BY <1>1, <1>4, <1>6, <1>7 DEF StopShape
<1> QED BY <1>2, <1>3, <1>5, <1>8 DEF ThreadsInv

LEMMA ThreadsKept ==
    ASSUME IInv, [AnyNext]_vars
    PROVE  ThreadsInv'
<1>0. stopping => queue = << >>
  BY DEF IInv, ThreadsInv, StopShape
<1>1. ASSUME NEW a \in Actors, NEW j \in Jobs, CallSubmit(a, j)
      PROVE  ThreadsInv'
  <2>1. /\ \A b \in Actors : call'[b] = IF b = a THEN "submit" ELSE call[b]
        /\ call[a] = "none" /\ (a \in Workers => wpc[a] = "running")
        /\ UNCHANGED <<queue, stopping, lifecycle_mutex_, handle, wpc, job, doomed, next>>
    BY <1>1 DEF CallSubmit, MakeJob, Idle, IInv, TypeOK
  <2>2. \A b \in Actors : call'[b] = call[b] \/ Moves(b)
    BY <2>1 DEF Moves
  <2> QED BY <1>0, <2>1, <2>2, ThreadsStay
<1>2. ASSUME NEW a \in Actors, CallShutdown(a)
      PROVE  ThreadsInv'
  <2>1. /\ \A b \in Actors : call'[b] = IF b = a THEN "shutdown" ELSE call[b]
        /\ call[a] = "none" /\ (a \in Workers => wpc[a] = "running" /\ job[a] \in Stoppers)
        /\ UNCHANGED <<queue, stopping, lifecycle_mutex_, handle, wpc, job, doomed, next>>
    BY <1>2 DEF CallShutdown, StartShutdown, MayStop, Idle, IInv, TypeOK
  <2>2. \A b \in Actors : call'[b] = call[b] \/ Moves(b)
    BY <2>1 DEF Moves
  <2> QED BY <1>0, <2>1, <2>2, ThreadsStay
<1>3. ASSUME NEW a \in Actors, SubmitNotify(a)
      PROVE  ThreadsInv'
  <2>1. /\ \A b \in Actors : call'[b] = IF b = a THEN "none" ELSE call[b]
        /\ call[a] = "notify"
        /\ UNCHANGED <<queue, stopping, lifecycle_mutex_, handle, job, doomed, next>>
    BY <1>3 DEF SubmitNotify, IInv, TypeOK
  <2>2. \A b \in Actors : call'[b] = call[b] \/ Moves(b)
    BY <2>1 DEF Moves
  <2>3. \A w \in Workers : wpc'[w] = wpc[w] \/ (wpc[w] = "asleep" /\ wpc'[w] = "looking")
    BY <1>3 DEF SubmitNotify, WakeOne, Asleep, IInv, TypeOK
  <2> QED BY <1>0, <2>1, <2>2, <2>3, ThreadsStay
<1>4. ASSUME NEW w \in Workers, Look(w)
      PROVE  ThreadsInv'
  <2>1. stopping => queue' = << >>
    BY <1>0, <1>4 DEF Look
  <2>2. /\ wpc[w] = "looking" /\ (\A v \in Workers : v # w => job'[v] = job[v])
        /\ UNCHANGED <<stopping, lifecycle_mutex_, handle, call, doomed, next>>
    BY <1>4 DEF Look, IInv, TypeOK
  <2>3. CASE queue # << >>
    <3>1. wpc' = [wpc EXCEPT ![w] = "running"]
      BY <1>4, <2>3 DEF Look
    <3> QED BY <2>1, <2>2, <2>3, <3>1, WorkerThreads
  <2>4. CASE queue = << >>
    <3>1. CASE stopping
      <4>1. wpc' = [wpc EXCEPT ![w] = "exited"]
        BY <1>4, <2>4, <3>1 DEF Look
      <4> QED BY <2>1, <2>2, <4>1, WorkerThreads
    <3>2. CASE ~stopping
      <4>1. wpc' = [wpc EXCEPT ![w] = "asleep"]
        BY <1>4, <2>4, <3>2 DEF Look
      <4> QED BY <2>1, <2>2, <4>1, WorkerThreads
    <3> QED BY <3>1, <3>2
  <2> QED BY <2>3, <2>4
<1>5. ASSUME NEW w \in Workers, NEW r \in Resolved, Finish(w, r)
      PROVE  ThreadsInv'
  <2>1. /\ wpc[w] = "running" /\ call[w] = "none" /\ (\A v \in Workers : v # w => job'[v] = job[v])
        /\ wpc' = [wpc EXCEPT ![w] = "looking"]
        /\ UNCHANGED <<queue, stopping, lifecycle_mutex_, handle, call, doomed, next>>
    BY <1>5 DEF Finish, IInv, TypeOK
  <2> QED BY <1>0, <2>1, WorkerThreads
<1>6. ASSUME NEW w \in Workers, SpuriousWake(w)
      PROVE  ThreadsInv'
  <2>1. /\ \A v \in Workers : wpc'[v] = wpc[v] \/ (wpc[v] = "asleep" /\ wpc'[v] = "looking")
        /\ \A b \in Actors : call'[b] = call[b]
        /\ UNCHANGED <<queue, stopping, lifecycle_mutex_, handle, job, doomed, next>>
    BY <1>6 DEF SpuriousWake, IInv, TypeOK
  <2> QED BY <1>0, <2>1, ThreadsStay
<1>7. CASE UNCHANGED vars
  BY <1>0, <1>7, ThreadsStay DEF vars
<1> QED
  BY <1>1, <1>2, <1>3, <1>4, <1>5, <1>6, <1>7, SubmitThreads, BeginShutdownThreads, CancelQueuedThreads,
     ShutdownNotifyThreads, JoinNextThreads, EndShutdownThreads, Endings
  DEF AnyNext, Next, Locking, Calling, Working

-----------------------------------------------------------------------------
(* The invariant holds in every state.                                     *)
LEMMA InvKept ==
    ASSUME IInv, [AnyNext]_vars
    PROVE  IInv'
BY TypesKept, JobsKept, ThreadsKept DEF IInv

LEMMA Invariance == Spec => []IInv
<1>1. IInv /\ [Next]_vars => IInv'
  BY InvKept DEF AnyNext
<1> QED BY <1>1, InitInv, PTL DEF Spec

(* Every variable keeps to its type, and an actor's job and a worker's are *)
(* there just while submit() and the callback need them.                   *)
THEOREM ExecutorTypes == Spec => []TypeOK
BY Invariance, PTL DEF IInv

(* submit() never lets more than queue_capacity jobs wait.                 *)
THEOREM QueueIsBounded == Spec => []QueueBounded
BY Invariance, PTL DEF IInv

(* The steps of the executor's own: no call begins and no callback ends.   *)
OwnStep ==
    \/ \E a \in Actors : Locking(a) \/ Calling(a)
    \/ \E w \in Workers : Look(w) \/ SpuriousWake(w)

(* They answer no job but one that waits, disturb no callback and start    *)
(* none on a worker that has one.                                          *)
Undisturbed ==
    /\ \A j \in Jobs : fut[j] # "pending" \/ j \in Held(job) => fut'[j] = fut[j]
    /\ \A w \in Workers : wpc[w] = "running" => wpc'[w] = "running" /\ job'[w] = job[w]
    /\ \A w \in Workers : wpc'[w] = "running" => wpc[w] = "running" \/ job'[w] \in invoked'
    /\ invoked \subseteq invoked' /\ invoked' \subseteq invoked \cup Held(job')
    /\ stopping => stopping'

LEMMA OwnSteps ==
    ASSUME IInv, OwnStep
    PROVE  Undisturbed
<1>0. /\ fut \in [Jobs -> Resolved \cup {"unsubmitted", "pending"}]
      /\ job \in [Workers -> Jobs \cup {NoJob}] /\ arg \in [Actors -> Jobs \cup {NoJob}]
      /\ wpc \in [Workers -> {"absent", "looking", "asleep", "running", "exited"}]
      /\ \A a \in Actors : call[a] = "submit" => arg[a] \in Jobs
      /\ \A w \in Workers : job[w] # NoJob <=> wpc[w] = "running"
  BY Sizes DEF IInv, TypeOK
<1>1. \A j \in Jobs : j \in Held(arg) \/ j \in Held(doomed) => fut[j] = "pending" /\ j \notin Held(job)
  BY DEF IInv, JobsInv, JobsApart, PendingOwned
<1>2. ASSUME NEW j \in Jobs, fut[j] = "pending", j \notin Held(job), NEW r,
             fut' = [fut EXCEPT ![j] = r]
      PROVE  \A i \in Jobs : fut[i] # "pending" \/ i \in Held(job) => fut'[i] = fut[i]
  BY <1>0, <1>2
<1>3. ASSUME fut' = fut \/ \E j \in Held(arg) \cup Held(doomed) : \E r :
                                j \in Jobs /\ fut' = [fut EXCEPT ![j] = r],
             job' = job, invoked' = invoked, stopping => stopping',
             \A w \in Workers : wpc'[w] = wpc[w] \/ (wpc[w] \in {"absent", "asleep"} /\ wpc'[w] = "looking")
      PROVE  Undisturbed
  <2>1. \A i \in Jobs : fut[i] # "pending" \/ i \in Held(job) => fut'[i] = fut[i]
    BY <1>1, <1>2, <1>3
  <2> QED BY <1>3, <2>1 DEF Undisturbed
<1>4. ASSUME NEW a \in Actors, Submit(a)
      PROVE  Undisturbed
  <2>1. call[a] = "submit" /\ job' = job /\ invoked' = invoked /\ stopping' = stopping
    BY <1>4 DEF Submit
  <2>2. arg[a] \in Jobs /\ arg[a] \in Held(arg)
    BY <1>0, <2>1, Sizes DEF Held
  <2>3. fut' = fut \/ fut' = [fut EXCEPT ![arg[a]] = "rejected"]
    BY <1>4 DEF Submit, Stopped, QueueFull, SpawnThrows, Accept, RejectJob
  <2>4. \A w \in Workers : wpc'[w] = wpc[w] \/ (wpc[w] \in {"absent", "asleep"} /\ wpc'[w] = "looking")
    BY <1>0, <1>4 DEF Submit, Stopped, QueueFull, SpawnThrows, Accept, StartUpTo
  <2> QED BY <1>3, <2>1, <2>2, <2>3, <2>4
<1>5. ASSUME NEW a \in Actors, CancelQueued(a)
      PROVE  Undisturbed
  <2>1. Head(doomed) \in Jobs /\ Head(doomed) \in Held(doomed)
    BY <1>5, LeavesQueue DEF CancelQueued, IInv, TypeOK, JobsInv, JobsApart
  <2>2. /\ fut' = [fut EXCEPT ![Head(doomed)] = "cancelled"]
        /\ job' = job /\ invoked' = invoked /\ stopping' = stopping /\ wpc' = wpc
    BY <1>5 DEF CancelQueued
  <2> QED BY <1>3, <2>1, <2>2
<1>6. ASSUME NEW a \in Actors,
             BeginShutdown(a) \/ SubmitNotify(a) \/ ShutdownNotify(a) \/ JoinNext(a) \/ EndShutdown(a)
      PROVE  Undisturbed
  <2>1. fut' = fut /\ job' = job /\ invoked' = invoked /\ (stopping => stopping')
    BY <1>6 DEF BeginShutdown, SubmitNotify, ShutdownNotify, JoinNext, EndShutdown
  <2>2. \A w \in Workers : wpc'[w] = wpc[w] \/ (wpc[w] \in {"absent", "asleep"} /\ wpc'[w] = "looking")
    BY <1>0, <1>6 DEF BeginShutdown, SubmitNotify, ShutdownNotify, JoinNext, EndShutdown, WakeOne, Asleep, WakeAll
  <2> QED BY <1>3, <2>1, <2>2
<1>7. ASSUME NEW w \in Workers, Look(w)
      PROVE  Undisturbed
  <2>1. CASE queue = << >>
    <3>1. fut' = fut /\ job' = job /\ invoked' = invoked /\ stopping' = stopping
      BY <1>7, <2>1 DEF Look
    <3>2. /\ wpc[w] = "looking" /\ wpc'[w] # "running"
          /\ \A v \in Workers : v # w => wpc'[v] = wpc[v]
      BY <1>0, <1>7, <2>1 DEF Look
    <3> QED BY <3>1, <3>2 DEF Undisturbed
  <2>2. CASE queue # << >>
    <3>1. /\ fut' = fut /\ stopping' = stopping /\ wpc[w] = "looking"
          /\ \A v \in Workers : /\ wpc'[v] = IF v = w THEN "running" ELSE wpc[v]
                                /\ job'[v] = IF v = w THEN Head(queue) ELSE job[v]
          /\ invoked' = invoked \cup {Head(queue)} /\ DOMAIN job' = Workers
      BY <1>0, <1>7, <2>2 DEF Look
    <3>2. Head(queue) \in Jobs
      BY <2>2, LeavesQueue DEF IInv, TypeOK, JobsInv, JobsApart
    <3>3. Head(queue) \in Held(job')
      BY <3>1, <3>2, Sizes DEF Held
    <3> QED BY <3>1, <3>3 DEF Undisturbed
  <2> QED BY <2>1, <2>2
<1>8. ASSUME NEW w \in Workers, SpuriousWake(w)
      PROVE  Undisturbed
  BY <1>0, <1>3, <1>8 DEF SpuriousWake
<1> QED BY <1>4, <1>5, <1>6, <1>7, <1>8 DEF OwnStep, Locking, Calling

(* An invoked callback is running or has its answer, a value or an error.  *)
RanShape == \A j \in invoked : fut[j] \in {"value", "error"} \/ j \in Held(job)

LEMMA RanKept ==
    ASSUME IInv, RanShape, [Next]_vars
    PROVE  RanShape'
<1>0. /\ fut \in [Jobs -> Resolved \cup {"unsubmitted", "pending"}] /\ invoked \subseteq Jobs
      /\ job \in [Workers -> Jobs \cup {NoJob}] /\ NoJob \notin Jobs
      /\ \A w \in Workers : job[w] # NoJob <=> wpc[w] = "running"
      /\ \A j \in Held(job) : fut[j] = "pending"
  BY Sizes DEF IInv, TypeOK, JobsInv, PendingOwned
<1>1. CASE OwnStep
  <2>1. Undisturbed
    BY <1>1, OwnSteps
  <2>2. Held(job) \subseteq Held(job')
    <3> SUFFICES ASSUME NEW w \in Workers, job[w] # NoJob PROVE job[w] \in Held(job')
      BY <1>0 DEF Held
    <3>1. job'[w] = job[w] /\ w \in DOMAIN job'
      <4>1. wpc[w] = "running"
        BY <1>0
      <4>2. job' \in [Workers -> Jobs \cup {NoJob}]
        BY <1>1, InvKept DEF OwnStep, AnyNext, Next, Working, IInv, TypeOK
      <4> QED BY <2>1, <4>1, <4>2 DEF Undisturbed
    <3> QED BY <3>1 DEF Held
  <2>3. \A j \in invoked : fut[j] \in {"value", "error"} => fut'[j] = fut[j]
    BY <1>0, <2>1 DEF Undisturbed
  <2> QED BY <2>1, <2>2, <2>3 DEF Undisturbed, RanShape
<1>2. ASSUME NEW w \in Workers, NEW r \in {"value", "error"}, Finish(w, r)
      PROVE  RanShape'
  <2>1. /\ \A j \in Jobs : fut'[j] = IF j = job[w] THEN r ELSE fut[j]
        /\ \A v \in Workers : v # w => job'[v] = job[v]
        /\ DOMAIN job' = Workers /\ invoked' = invoked
    BY <1>0, <1>2 DEF Finish
  <2>2. \A j \in Held(job) : j = job[w] \/ j \in Held(job')
    BY <1>0, <2>1 DEF Held
  <2> QED BY <1>0, <2>1, <2>2 DEF RanShape
<1>3. CASE UNCHANGED vars \/ \E a \in Actors : CallShutdown(a)
  <2>1. fut' = fut /\ job' = job /\ invoked' = invoked
    BY <1>3 DEF vars, CallShutdown, StartShutdown
  <2> QED BY <2>1 DEF RanShape
<1>4. ASSUME NEW a \in Actors, NEW j \in Jobs, CallSubmit(a, j)
      PROVE  RanShape'
  <2>1. fut[j] = "unsubmitted" /\ fut' = [fut EXCEPT ![j] = "pending"] /\ job' = job /\ invoked' = invoked
    BY <1>4 DEF CallSubmit, MakeJob
  <2> QED BY <1>0, <2>1 DEF RanShape
<1> QED BY <1>1, <1>2, <1>3, <1>4 DEF Next, Working, OwnStep

(* A promise that shutdown() or submit() answered with an exception is of  *)
(* a callback that no worker ever invoked.                                 *)
THEOREM CancelledJobsNeverRan == Spec => []CancelledNeverRan
<1>1. Init => RanShape
  BY DEF Init, RanShape
<1>2. Spec => []RanShape
  BY <1>1, RanKept, Invariance, PTL DEF Spec
<1>3. IInv /\ RanShape => CancelledNeverRan
  <2> SUFFICES ASSUME IInv, RanShape, NEW j \in invoked, fut[j] \notin {"value", "error"}
               PROVE  fut[j] = "pending"
    BY DEF CancelledNeverRan
  <2>1. j \in Jobs /\ j \in Held(job)
    BY DEF IInv, TypeOK, RanShape
  <2> QED BY <2>1 DEF IInv, JobsInv, PendingOwned
<1> QED BY <1>2, <1>3, Invariance, PTL

(* How often a job is in a place, from whether it is there.                *)
LEMMA Occurrences ==
    ASSUME NEW f, Single(f), NEW j, j # NoJob
    PROVE  Cardinality({i \in DOMAIN f : f[i] = j}) = IF j \in Held(f) THEN 1 ELSE 0
<1>1. CASE j \in Held(f)
  <2>1. PICK i \in DOMAIN f : f[i] = j
    BY <1>1 DEF Held
  <2>2. {k \in DOMAIN f : f[k] = j} = {i}
    BY <2>1 DEF Single
  <2> QED BY <1>1, <2>2, FS_Singleton
<1>2. CASE j \notin Held(f)
  <2>1. {k \in DOMAIN f : f[k] = j} = {}
    BY <1>2 DEF Held
  <2> QED BY <1>2, <2>1, FS_EmptySet
<1> QED BY <1>1, <1>2

(* A job that waits for its answer is in exactly one place: no job is lost *)
(* and none run or answered twice.                                         *)
THEOREM PendingJobsHaveOneOwner == Spec => []PendingHasOneOwner
<1>1. IInv => PendingHasOneOwner
  <2> SUFFICES ASSUME IInv, NEW j \in Jobs
               PROVE  Places(j) = IF fut[j] = "pending" THEN 1 ELSE 0
    BY DEF PendingHasOneOwner
  <2> DEFINE q == Cardinality({i \in DOMAIN queue : queue[i] = j})
             d == Cardinality({i \in DOMAIN doomed : doomed[i] = j})
             r == Cardinality({w \in Workers : job[w] = j})
             o == Cardinality({a \in Actors : arg[a] = j})
  <2>1. JobsApart /\ j # NoJob /\ DOMAIN job = Workers /\ DOMAIN arg = Actors
    BY Sizes DEF IInv, JobsInv, TypeOK
  <2>2. /\ q = (IF j \in Held(queue) THEN 1 ELSE 0)
        /\ d = (IF j \in Held(doomed) THEN 1 ELSE 0)
    BY <2>1, Occurrences DEF JobsApart
  <2>3. r = (IF j \in Held(job) THEN 1 ELSE 0)
    BY <2>1, Occurrences DEF JobsApart
  <2>4. o = (IF j \in Held(arg) THEN 1 ELSE 0)
    BY <2>1, Occurrences DEF JobsApart
  <2>5. Places(j) = q + d + r + o
    BY DEF Places
  <2>6. fut[j] = "pending" <=> j \in Held(queue) \/ j \in Held(doomed) \/ j \in Held(job) \/ j \in Held(arg)
    BY DEF IInv, JobsInv, PendingOwned
  <2> HIDE DEF q, d, r, o
  <2> QED BY <2>1, <2>2, <2>3, <2>4, <2>5, <2>6 DEF JobsApart
<1> QED BY <1>1, Invariance, PTL

(* A future that has its answer keeps it: no later answer of a worker, of  *)
(* submit() or of shutdown() is for the same job.                          *)
THEOREM FuturesAreFinal == Spec => FutureIsFinal
<1>1. ASSUME IInv, Next, NEW j \in Jobs, fut[j] \in Resolved
      PROVE  fut'[j] = fut[j]
  <2>1. fut \in [Jobs -> Resolved \cup {"unsubmitted", "pending"}] /\ fut[j] # "pending" /\ fut[j] # "unsubmitted"
    BY <1>1 DEF IInv, TypeOK, Resolved
  <2>2. CASE OwnStep
    BY <1>1, <2>1, <2>2, OwnSteps DEF Undisturbed
  <2>3. ASSUME NEW a \in Actors, NEW k \in Jobs, CallSubmit(a, k)
        PROVE  fut'[j] = fut[j]
    BY <2>1, <2>3 DEF CallSubmit, MakeJob
  <2>4. ASSUME NEW w \in Workers, NEW r \in {"value", "error"}, Finish(w, r)
        PROVE  fut'[j] = fut[j]
    <3>1. job[w] \in Held(job) /\ fut' = [fut EXCEPT ![job[w]] = r]
      BY <1>1, <2>4, Sizes DEF Finish, IInv, TypeOK, Held
    <3>2. j \notin Held(job)
      BY <1>1, <2>1 DEF IInv, JobsInv, PendingOwned
    <3> QED BY <2>1, <3>1, <3>2
  <2> QED BY <1>1, <2>2, <2>3, <2>4 DEF Next, Working, OwnStep, CallShutdown, StartShutdown
<1>2. IInv /\ [Next]_vars => [\A j \in Jobs : fut[j] \in Resolved => fut'[j] = fut[j]]_vars
  BY <1>1
<1> QED BY <1>2, Invariance, PTL DEF Spec, FutureIsFinal

LEMMA Quiet == IInv => QuietAfterShutdown
<1> SUFFICES ASSUME IInv, stopping, lifecycle_mutex_ = Free
             PROVE  /\ queue = << >> /\ doomed = << >>
                    /\ \A w \in Workers : wpc[w] = "running" => handle[w] = "detached" /\ job[w] \in Stoppers
  BY DEF QuietAfterShutdown
<1>1. queue = << >> /\ doomed = << >>
  BY Sizes DEF IInv, ThreadsInv, StopShape, LockShape
<1>2. ASSUME NEW w \in Workers, wpc[w] = "running"
      PROVE  handle[w] = "detached" /\ job[w] \in Stoppers
  BY <1>2 DEF IInv, TypeOK, ThreadsInv, StopShape, HandleShape
<1> QED BY <1>1, <1>2

(* After shutdown() returned nothing is queued, and the only callbacks     *)
(* still running are those that called shutdown() themselves.              *)
THEOREM ShutdownQuiets == Spec => []QuietAfterShutdown
BY Quiet, Invariance, PTL

-----------------------------------------------------------------------------
(* No lost wakeup: NoSleepingOnWork compares three numbers, and each step  *)
(* changes one of them by one, two by one, or none.                        *)
Lookers == {w \in Workers : wpc[w] = "looking"}
Notifiers == {a \in Actors : call[a] = "notify"}

LEMMA Counted ==
    ASSUME NEW S, S \subseteq Workers \/ S \subseteq Actors
    PROVE  IsFiniteSet(S) /\ Cardinality(S) \in Nat
<1>1. IsFiniteSet(Workers)
  <2>1. WorkerCount \in Int
    BY Sizes
  <2> QED BY <2>1, FS_Interval DEF Workers
<1>2. IsFiniteSet(Actors)
  BY <1>1, FS_Union, ExecutorAssumption DEF Actors
<1> QED BY <1>1, <1>2, FS_Subset, FS_CardinalityType

LEMMA CountedMore ==
    ASSUME NEW S, NEW T, T \subseteq Workers \/ T \subseteq Actors, S \subseteq T
    PROVE  Cardinality(S) <= Cardinality(T)
BY Counted, FS_Subset

(* Nobody falls asleep, no looker or notifier is lost, no job is added.    *)
LEMMA NothingLost ==
    ASSUME IInv, TypeOK', NoSleepingOnWork, Asleep(wpc') # {} => Asleep(wpc) # {},
           Lookers \subseteq Lookers', Notifiers \subseteq Notifiers', Len(queue') <= Len(queue)
    PROVE  NoSleepingOnWork'
<1>1. /\ Len(queue) \in Nat /\ Len(queue') \in Nat
      /\ Cardinality(Lookers) \in Nat /\ Cardinality(Lookers') \in Nat
      /\ Cardinality(Notifiers) \in Nat /\ Cardinality(Notifiers') \in Nat
  BY Counted, LenProperties DEF IInv, TypeOK, Lookers, Notifiers
<1>2. Cardinality(Lookers) <= Cardinality(Lookers') /\ Cardinality(Notifiers) <= Cardinality(Notifiers')
  BY CountedMore DEF Lookers, Notifiers
<1>3. Asleep(wpc) # {} => Len(queue) <= Cardinality(Lookers) + Cardinality(Notifiers)
  BY DEF NoSleepingOnWork, Lookers, Notifiers
<1>4. Asleep(wpc') # {} => Len(queue') <= Cardinality(Lookers') + Cardinality(Notifiers')
  BY <1>1, <1>2, <1>3
<1> QED BY <1>4 DEF NoSleepingOnWork, Lookers, Notifiers

(* A job comes with a notify_one.                                          *)
LEMMA AcceptWakes ==
    ASSUME IInv, NoSleepingOnWork, NEW a \in Actors, call[a] = "submit", arg[a] \in Jobs, Accept(a)
    PROVE  NoSleepingOnWork'
<1>1. /\ \A b \in Actors : call'[b] = IF b = a THEN "notify" ELSE call[b]
      /\ \A w \in Workers : wpc'[w] = wpc[w] \/ (wpc[w] = "absent" /\ wpc'[w] = "looking")
  BY DEF Accept, StartUpTo, IInv, TypeOK
<1>2. Notifiers' = Notifiers \cup {a} /\ a \notin Notifiers /\ Lookers \subseteq Lookers'
      /\ Asleep(wpc') = Asleep(wpc)
  BY <1>1 DEF Notifiers, Lookers, Asleep
<1>3. /\ Len(queue) \in Nat /\ Cardinality(Lookers) \in Nat /\ Cardinality(Lookers') \in Nat
      /\ Cardinality(Notifiers) \in Nat /\ IsFiniteSet(Notifiers)
  BY Counted, LenProperties DEF IInv, TypeOK, Lookers, Notifiers
<1>4. Cardinality(Lookers) <= Cardinality(Lookers')
  BY <1>2, CountedMore DEF Lookers
<1>5. Cardinality(Notifiers') = Cardinality(Notifiers) + 1
  BY <1>2, <1>3, FS_AddElement
<1>6. Len(queue') = Len(queue) + 1
  BY AppendProperties DEF Accept, IInv, TypeOK
<1>7. Asleep(wpc) # {} => Len(queue) <= Cardinality(Lookers) + Cardinality(Notifiers)
  BY DEF NoSleepingOnWork, Lookers, Notifiers
<1>8. Asleep(wpc') # {} => Len(queue') <= Cardinality(Lookers') + Cardinality(Notifiers')
  BY <1>2, <1>3, <1>4, <1>5, <1>6, <1>7
<1> QED BY <1>8 DEF NoSleepingOnWork, Lookers, Notifiers

(* A notify_one turns into a looker, unless nobody sleeps.                 *)
LEMMA NotifyWakes ==
    ASSUME IInv, NoSleepingOnWork, NEW a \in Actors, SubmitNotify(a)
    PROVE  NoSleepingOnWork'
<1>1. CASE Asleep(wpc) = {}
  BY <1>1 DEF SubmitNotify, WakeOne, NoSleepingOnWork
<1>2. CASE Asleep(wpc) # {}
  <2>1. PICK w \in Asleep(wpc) : wpc' = [wpc EXCEPT ![w] = "looking"]
    BY <1>2 DEF SubmitNotify, WakeOne
  <2>2. Lookers' = Lookers \cup {w} /\ w \notin Lookers
    BY <2>1 DEF Lookers, Asleep, IInv, TypeOK
  <2>3. Notifiers' = Notifiers \ {a} /\ a \in Notifiers
    BY DEF SubmitNotify, Notifiers, IInv, TypeOK
  <2>4. /\ Len(queue) \in Nat /\ Cardinality(Lookers) \in Nat /\ Cardinality(Notifiers) \in Nat
        /\ IsFiniteSet(Lookers) /\ IsFiniteSet(Notifiers)
    BY Counted, LenProperties DEF IInv, TypeOK, Lookers, Notifiers
  <2>5. Cardinality(Lookers') = Cardinality(Lookers) + 1
    BY <2>2, <2>4, FS_AddElement
  <2>6. Cardinality(Notifiers') = Cardinality(Notifiers) - 1
    BY <2>3, <2>4, FS_RemoveElement
  <2>7. queue' = queue /\ Len(queue) <= Cardinality(Lookers) + Cardinality(Notifiers)
    BY <1>2 DEF SubmitNotify, NoSleepingOnWork, Lookers, Notifiers
  <2>8. Len(queue') <= Cardinality(Lookers') + Cardinality(Notifiers')
    BY <2>4, <2>5, <2>6, <2>7
  <2> QED BY <2>8 DEF NoSleepingOnWork, Lookers, Notifiers
<1> QED BY <1>1, <1>2

(* A looker leaves with a job, or finds none.                              *)
LEMMA LookWakes ==
    ASSUME IInv, NoSleepingOnWork, NEW w \in Workers, Look(w)
    PROVE  NoSleepingOnWork'
<1>1. CASE queue = << >>
  <2>1. Len(queue') = 0
    BY <1>1, EmptySeq DEF Look
  <2>2. Cardinality(Lookers') \in Nat /\ Cardinality(Notifiers') \in Nat
    BY Counted DEF Lookers, Notifiers
  <2>3. Len(queue') <= Cardinality(Lookers') + Cardinality(Notifiers')
    BY <2>1, <2>2
  <2> QED BY <2>3 DEF NoSleepingOnWork, Lookers, Notifiers
<1>2. CASE queue # << >>
  <2>1. /\ wpc[w] = "looking" /\ wpc' = [wpc EXCEPT ![w] = "running"]
        /\ queue' = Tail(queue) /\ call' = call
    BY <1>2 DEF Look
  <2>2. Lookers' = Lookers \ {w} /\ w \in Lookers /\ Asleep(wpc') = Asleep(wpc) /\ Notifiers' = Notifiers
    BY <2>1 DEF Lookers, Notifiers, Asleep, IInv, TypeOK
  <2>3. /\ Len(queue) \in Nat /\ Cardinality(Lookers) \in Nat /\ Cardinality(Notifiers) \in Nat
        /\ IsFiniteSet(Lookers)
    BY Counted, LenProperties DEF IInv, TypeOK, Lookers, Notifiers
  <2>4. Cardinality(Lookers') = Cardinality(Lookers) - 1
    BY <2>2, <2>3, FS_RemoveElement
  <2>5. Len(queue') = Len(queue) - 1
    BY <1>2, <2>1, LeavesQueue DEF IInv, TypeOK, JobsInv, JobsApart
  <2>6. Asleep(wpc) # {} => Len(queue) <= Cardinality(Lookers) + Cardinality(Notifiers)
    BY DEF NoSleepingOnWork, Lookers, Notifiers
  <2>7. Asleep(wpc') # {} => Len(queue') <= Cardinality(Lookers') + Cardinality(Notifiers')
    BY <2>2, <2>3, <2>4, <2>5, <2>6
  <2> QED BY <2>7 DEF NoSleepingOnWork, Lookers, Notifiers
<1> QED BY <1>1, <1>2

(* Whatever wakeups are merged or come for nothing: while a worker sleeps, *)
(* each waiting job has a worker on its way or a notify_one to come.       *)
THEOREM NoWakeupIsLost == Spec => []NoSleepingOnWork
<1>1. Init => NoSleepingOnWork
  BY DEF Init, NoSleepingOnWork, Asleep
<1>2. ASSUME IInv, IInv', NoSleepingOnWork, [Next]_vars
      PROVE  NoSleepingOnWork'
  <2> DEFINE Goal == NoSleepingOnWork'
  <2>1. TypeOK' /\ Len(queue) \in Nat
    BY <1>2, LenProperties DEF IInv, TypeOK
  <2>2. ASSUME queue' = queue,
               \A b \in Actors : call[b] = "notify" => call'[b] = "notify",
               \A w \in Workers : /\ wpc[w] = "looking" => wpc'[w] = "looking"
                                  /\ wpc'[w] = "asleep" => wpc[w] = "asleep"
        PROVE  Goal
    <3>1. Lookers \subseteq Lookers' /\ Notifiers \subseteq Notifiers' /\ Len(queue') <= Len(queue)
      BY <2>1, <2>2 DEF Lookers, Notifiers
    <3>2. Asleep(wpc') # {} => Asleep(wpc) # {}
      BY <2>2 DEF Asleep
    <3> QED BY <1>2, <2>1, <3>1, <3>2, NothingLost
  <2> HIDE DEF Goal
  <2>3. ASSUME NEW a \in Actors, NEW j \in Jobs, CallSubmit(a, j)
        PROVE  Goal
    <3>1. /\ queue' = queue /\ wpc' = wpc
          /\ \A b \in Actors : call'[b] = call[b] \/ (b = a /\ call[b] = "none")
      BY <1>2, <2>3 DEF CallSubmit, MakeJob, Idle, IInv, TypeOK
    <3> QED BY <2>2, <3>1
  <2>4. ASSUME NEW a \in Actors, Submit(a)
        PROVE  Goal
    <3>1. CASE Accept(a)
      BY <1>2, <2>4, <3>1, AcceptWakes, Sizes DEF Submit, IInv, TypeOK, Goal
    <3>2. CASE Stopped(a) \/ QueueFull(a) \/ SpawnThrows(a)
      <4>1. queue' = queue /\ call' = [call EXCEPT ![a] = "none"] /\ call[a] = "submit"
        BY <2>4, <3>2 DEF Submit, Stopped, QueueFull, SpawnThrows, RejectJob
      <4>2. \A w \in Workers : wpc'[w] = wpc[w] \/ (wpc[w] = "absent" /\ wpc'[w] = "looking")
        BY <1>2, <3>2 DEF Stopped, QueueFull, SpawnThrows, StartUpTo, IInv, TypeOK
      <4> QED BY <1>2, <2>2, <4>1, <4>2 DEF IInv, TypeOK
    <3> QED BY <2>4, <3>1, <3>2 DEF Submit
  <2>5. ASSUME NEW a \in Actors, CallShutdown(a)
        PROVE  Goal
    <3>1. /\ queue' = queue /\ wpc' = wpc
          /\ \A b \in Actors : call'[b] = call[b] \/ (b = a /\ call[b] = "none")
      BY <1>2, <2>5 DEF CallShutdown, StartShutdown, Idle, IInv, TypeOK
    <3> QED BY <2>2, <3>1
  <2>6. ASSUME NEW a \in Actors, BeginShutdown(a)
        PROVE  Goal
    <3>1. Len(queue') <= Len(queue)
      BY <2>1, <2>6, EmptySeq DEF BeginShutdown
    <3>2. Lookers \subseteq Lookers' /\ Notifiers \subseteq Notifiers' /\ wpc' = wpc
      BY <1>2, <2>6 DEF BeginShutdown, Lookers, Notifiers, IInv, TypeOK
    <3> QED BY <1>2, <2>1, <3>1, <3>2, NothingLost DEF Goal
  <2>7. ASSUME NEW a \in Actors, ShutdownNotify(a)
        PROVE  Goal
    <3>1. Asleep(wpc') = {}
      BY <1>2, <2>7 DEF ShutdownNotify, WakeAll, Asleep
    <3> QED BY <3>1 DEF NoSleepingOnWork, Goal
  <2>8. ASSUME NEW a \in Actors, CancelQueued(a) \/ JoinNext(a) \/ EndShutdown(a)
        PROVE  Goal
    <3>1. /\ queue' = queue /\ wpc' = wpc
          /\ \A b \in Actors : call'[b] = call[b] \/ (b = a /\ call[b] = "joining")
      BY <1>2, <2>8 DEF CancelQueued, JoinNext, EndShutdown, IInv, TypeOK
    <3> QED BY <2>2, <3>1
  <2>9. ASSUME NEW w \in Workers, SpuriousWake(w) \/ \E r \in {"value", "error"} : Finish(w, r)
        PROVE  Goal
    <3>1. /\ queue' = queue /\ call' = call
          /\ \A v \in Workers : wpc'[v] = wpc[v] \/ (wpc[v] \in {"asleep", "running"} /\ wpc'[v] = "looking")
      BY <1>2, <2>9 DEF SpuriousWake, Finish, IInv, TypeOK
    <3> QED BY <2>2, <3>1
  <2>10. ASSUME UNCHANGED vars
         PROVE  Goal
    <3>1. queue' = queue /\ call' = call /\ wpc' = wpc
      BY <2>10 DEF vars
    <3> QED BY <2>2, <3>1
  <2>11. ASSUME NEW a \in Actors, SubmitNotify(a)
         PROVE  Goal
    BY <1>2, <2>11, NotifyWakes DEF Goal
  <2>12. ASSUME NEW w \in Workers, Look(w)
         PROVE  Goal
    BY <1>2, <2>12, LookWakes DEF Goal
  <2>13. Goal
    BY <1>2, <2>3, <2>4, <2>5, <2>6, <2>7, <2>8, <2>9, <2>10, <2>11, <2>12
    DEF Next, Locking, Calling, Working
  <2> QED BY <2>13 DEF Goal
<1> QED BY <1>1, <1>2, Invariance, PTL DEF Spec

-----------------------------------------------------------------------------
(* The executor implements JobService: the states its jobs are in.         *)
Running == {job[w] : w \in Workers} \ {NoJob}
Answers == [j \in Jobs |-> IF fut[j] \in Resolved THEN fut[j] ELSE "none"]

(* The places of the executor's jobs are those of the service, where a job *)
(* in the hands of its submitter is not known yet.                         *)
LEMMA ServicePlaces ==
    ASSUME IInv
    PROVE  /\ Running = Held(job)
           /\ {queue[i] : i \in DOMAIN queue} = Held(queue)
           /\ {doomed[i] : i \in DOMAIN doomed} = Held(doomed)
           /\ Service!Known = Held(queue) \cup Held(job) \cup Held(doomed)
<1>1. Running = Held(job)
  BY DEF Running, Held, IInv, TypeOK
<1>2. {queue[i] : i \in DOMAIN queue} = Held(queue)
  <2>1. \A i \in DOMAIN queue : queue[i] \in Jobs
    BY DEF IInv, TypeOK
  <2> QED BY <2>1, Sizes DEF Held
<1>3. {doomed[i] : i \in DOMAIN doomed} = Held(doomed)
  <2>1. \A i \in DOMAIN doomed : doomed[i] \in Jobs
    BY DEF IInv, TypeOK
  <2> QED BY <2>1, Sizes DEF Held
<1> QED BY <1>1, <1>2, <1>3 DEF Service!Known, Running

LEMMA OfferedIsUnknown ==
    ASSUME IInv, NEW j \in Held(arg)
    PROVE  j \in Jobs /\ Service!Unknown(j)
<1>1. j \notin Service!Known
  BY ServicePlaces DEF IInv, JobsInv, JobsApart
<1>2. j \in Jobs /\ fut[j] = "pending"
  BY DEF IInv, JobsInv, PendingOwned
<1> QED BY <1>1, <1>2 DEF Service!Unknown, Resolved

(* What the service sees of an answer, and that it sees nothing else.      *)
LEMMA AnswerSeen ==
    ASSUME IInv, NEW j \in Jobs, NEW r \in Resolved, fut' = [fut EXCEPT ![j] = r]
    PROVE  Answers' = [Answers EXCEPT ![j] = r]
<1>1. \A i \in Jobs : fut'[i] = IF i = j THEN r ELSE fut[i]
  BY DEF IInv, TypeOK
<1> QED BY <1>1 DEF Answers, Resolved

LEMMA OfferUnseen ==
    ASSUME IInv, NEW a \in Actors, NEW j \in Jobs, CallSubmit(a, j)
    PROVE  Answers' = Answers
<1>1. fut[j] = "unsubmitted" /\ fut' = [fut EXCEPT ![j] = "pending"]
  BY DEF CallSubmit, MakeJob
<1>2. \A i \in Jobs : fut'[i] = IF i = j THEN "pending" ELSE fut[i]
  BY <1>1 DEF IInv, TypeOK
<1> QED BY <1>1, <1>2 DEF Answers, Resolved

(* The service counts as this module does.                                 *)
LEMMA SameCount == ASSUME NEW S PROVE Service!Cardinality(S) = Cardinality(S)
BY DEF Service!Cardinality, Cardinality

(* A worker that looks for a job leaves room for one to run.               *)
LEMMA RoomToRun ==
    ASSUME IInv, NEW w \in Workers, job[w] = NoJob
    PROVE  Cardinality(Running) < WorkerCount
<1> DEFINE Busy == {v \in Workers : job[v] # NoJob}
           f == [v \in Busy |-> job[v]]
<1>1. f \in Surjection(Busy, Running)
  <2>1. f \in [Busy -> Running]
    BY DEF Running
  <2>2. \A j \in Running : \E v \in Busy : f[v] = j
    BY DEF Running
  <2> QED BY <2>1, <2>2 DEF Surjection
<1>2. IsFiniteSet(Workers) /\ Cardinality(Workers) = WorkerCount
  <2>1. WorkerCount \in Int /\ 1 \in Int /\ ~(1 > WorkerCount) /\ WorkerCount - 1 + 1 = WorkerCount
    BY Sizes
  <2> QED BY <2>1, FS_Interval DEF Workers
<1>3. IsFiniteSet(Workers \ {w}) /\ Cardinality(Workers \ {w}) = WorkerCount - 1
  BY <1>2, FS_RemoveElement
<1>4. Busy \in SUBSET (Workers \ {w})
  OBVIOUS
<1> HIDE DEF f, Busy
<1>5. IsFiniteSet(Busy) /\ Cardinality(Busy) <= WorkerCount - 1
  BY <1>3, <1>4, FS_Subset
<1>6. IsFiniteSet(Running) /\ Cardinality(Running) <= Cardinality(Busy)
  BY <1>1, <1>5, FS_Surjection
<1>7. Cardinality(Busy) \in Nat /\ Cardinality(Running) \in Nat
  BY <1>5, <1>6, FS_CardinalityType
<1> QED BY <1>5, <1>6, <1>7, Sizes

(* Steps the service does not see.                                         *)
LEMMA UnseenStutters ==
    ASSUME UNCHANGED <<queue, job, doomed, stopping>>, Answers' = Answers
    PROVE  UNCHANGED Service!serviceVars
BY DEF Service!serviceVars, Answers

LEMMA SubmitRefines ==
    ASSUME IInv, NEW a \in Actors, Submit(a)
    PROVE  \E j \in Jobs : Service!Accept(j) \/ Service!Refuse(j)
<1>1. PICK j \in Held(arg) : j = arg[a]
  BY Sizes DEF Submit, IInv, TypeOK, Held
<1>2. j \in Jobs /\ Service!Unknown(j)
  BY OfferedIsUnknown
<1>3. /\ job' = job /\ doomed' = doomed /\ stopping' = stopping /\ Running' = Running
      /\ {doomed'[i] : i \in DOMAIN doomed'} = {doomed[i] : i \in DOMAIN doomed}
  BY DEF Submit, Running
<1>4. CASE RejectJob(a)
  <2>1. queue' = queue /\ fut' = [fut EXCEPT ![j] = "rejected"] /\ "rejected" \in Resolved
    BY <1>1, <1>4 DEF RejectJob, Resolved
  <2>2. Answers' = [Answers EXCEPT ![j] = "rejected"]
    BY <1>2, <2>1, AnswerSeen
  <2>3. Service!Refuse(j)
    BY <1>2, <1>3, <2>1, <2>2 DEF Service!Refuse, Answers, Running
  <2> QED BY <1>2, <2>3
<1>5. CASE Accept(a)
  <2>1. ~stopping /\ Len(queue) < QueueCapacity /\ queue' = Append(queue, j)
    <3>1. Len(queue) \in Nat
      BY LenProperties DEF IInv, TypeOK
    <3> QED BY <1>1, <1>5, <3>1, Sizes DEF Accept, Full
  <2>2. Answers' = Answers
    BY <1>5 DEF Accept, Answers
  <2>3. Service!Accept(j)
    BY <1>2, <1>3, <2>1, <2>2 DEF Service!Accept, Answers, Running
  <2> QED BY <1>2, <2>3
<1> QED BY <1>4, <1>5 DEF Submit, Stopped, QueueFull, SpawnThrows

LEMMA LookRefines ==
    ASSUME IInv, NEW w \in Workers, Look(w)
    PROVE  Service!Start \/ UNCHANGED Service!serviceVars
<1>1. Answers' = Answers /\ doomed' = doomed /\ stopping' = stopping /\ job[w] = NoJob
  BY DEF Look, Answers, IInv, TypeOK
<1>2. CASE queue = << >>
  BY <1>1, <1>2, UnseenStutters DEF Look
<1>3. CASE queue # << >>
  <2>1. queue' = Tail(queue) /\ job' = [job EXCEPT ![w] = Head(queue)]
    BY <1>3 DEF Look
  <2>2. Head(queue) \in Jobs
    BY <1>3, LeavesQueue DEF IInv, TypeOK, JobsInv, JobsApart
  <2>3. Running' = Running \cup {Head(queue)}
    <3>1. \A v \in Workers : job'[v] = IF v = w THEN Head(queue) ELSE job[v]
      BY <2>1 DEF IInv, TypeOK
    <3> QED BY <1>1, <2>2, <3>1, Sizes DEF Running
  <2>4. Service!Cardinality(Running) < WorkerCount
    BY <1>1, RoomToRun, SameCount
  <2> QED BY <1>1, <1>3, <2>1, <2>3, <2>4 DEF Service!Start, Answers, Running
<1> QED BY <1>2, <1>3

LEMMA FinishRefines ==
    ASSUME IInv, NEW w \in Workers, NEW r \in {"value", "error"}, Finish(w, r)
    PROVE  \E j \in Jobs : Service!Answer(j, r)
<1>1. PICK j \in Jobs : j = job[w]
  BY Sizes DEF Finish, IInv, TypeOK
<1>2. /\ fut' = [fut EXCEPT ![j] = r]
      /\ \A v \in Workers : job'[v] = IF v = w THEN NoJob ELSE job[v]
      /\ queue' = queue /\ doomed' = doomed /\ stopping' = stopping
  BY <1>1 DEF Finish, IInv, TypeOK
<1>3. \A v \in Workers : job[v] = j => v = w
  BY <1>1, Sizes DEF IInv, TypeOK, JobsInv, JobsApart, Single
<1>4. Running' = Running \ {j} /\ j \in Running
  BY <1>1, <1>2, <1>3, Sizes DEF Running
<1>5. Answers' = [Answers EXCEPT ![j] = r]
  BY <1>2, AnswerSeen, Endings
<1>6. Service!Answer(j, r)
  BY <1>2, <1>4, <1>5 DEF Service!Answer, Answers, Running
<1> QED BY <1>6

(* The first shutdown() closes the service; a later one finds nothing.     *)
LEMMA BeginShutdownRefines ==
    ASSUME IInv, NEW a \in Actors, BeginShutdown(a)
    PROVE  Service!Close \/ UNCHANGED Service!serviceVars
<1>1. /\ doomed' = queue /\ queue' = << >> /\ stopping' = TRUE /\ job' = job
      /\ Answers' = Answers /\ Running' = Running
  BY DEF BeginShutdown, Answers, Running
<1>2. CASE ~stopping
  <2>1. {doomed'[i] : i \in DOMAIN doomed'} = {queue[i] : i \in DOMAIN queue}
    BY <1>1
  <2> QED BY <1>1, <1>2, <2>1 DEF Service!Close, Answers, Running
<1>3. CASE stopping
  <2>1. queue = << >> /\ doomed = << >>
    BY <1>3, Sizes DEF BeginShutdown, IInv, ThreadsInv, StopShape, LockShape
  <2>2. stopping' = stopping
    BY <1>1, <1>3 DEF IInv, TypeOK
  <2> QED BY <1>1, <2>1, <2>2, UnseenStutters
<1> QED BY <1>2, <1>3

LEMMA CancelQueuedRefines ==
    ASSUME IInv, NEW a \in Actors, CancelQueued(a)
    PROVE  \E j \in Jobs : Service!Cancel(j)
<1>1. doomed \in Seq(Jobs) /\ Single(doomed) /\ doomed # << >>
  BY DEF CancelQueued, IInv, TypeOK, JobsInv, JobsApart
<1>2. PICK j \in Jobs : j = Head(doomed)
  BY <1>1, LeavesQueue
<1>3. /\ fut' = [fut EXCEPT ![j] = "cancelled"] /\ "cancelled" \in Resolved
      /\ queue' = queue /\ job' = job /\ stopping' = stopping /\ Running' = Running
  BY <1>2 DEF CancelQueued, Running, Resolved
<1>4. /\ doomed' \in Seq(Jobs) /\ j \in Held(doomed) /\ Held(doomed') = Held(doomed) \ {j}
  BY <1>1, <1>2, LeavesQueue DEF CancelQueued
<1>5. /\ {doomed[i] : i \in DOMAIN doomed} = Held(doomed)
      /\ {doomed'[i] : i \in DOMAIN doomed'} = Held(doomed')
  <2>1. \A s \in Seq(Jobs) : {s[i] : i \in DOMAIN s} = Held(s)
    BY Sizes DEF Held
  <2> QED BY <1>1, <1>4, <2>1
<1>6. Answers' = [Answers EXCEPT ![j] = "cancelled"]
  BY <1>3, AnswerSeen
<1>7. Service!Cancel(j)
  BY <1>3, <1>4, <1>5, <1>6 DEF Service!Cancel, Answers, Running
<1> QED BY <1>7

(* Every step of the executor is one step of the service or none.          *)
LEMMA StepRefines ==
    ASSUME IInv, [Next]_vars
    PROVE  [Service!Next]_(Service!serviceVars)
<1>1. CASE UNCHANGED vars
  BY <1>1, UnseenStutters DEF vars, Answers
<1>2. ASSUME NEW a \in Actors, Submit(a)
      PROVE  Service!Next
  BY <1>2, SubmitRefines DEF Service!Next
<1>3. ASSUME NEW a \in Actors, NEW j \in Jobs, CallSubmit(a, j)
      PROVE  UNCHANGED Service!serviceVars
  BY <1>3, OfferUnseen, UnseenStutters DEF CallSubmit, MakeJob
<1>4. ASSUME NEW a \in Actors,
             CallShutdown(a) \/ SubmitNotify(a) \/ ShutdownNotify(a) \/ JoinNext(a) \/ EndShutdown(a)
      PROVE  UNCHANGED Service!serviceVars
  <2>1. UNCHANGED <<queue, job, doomed, stopping, fut>>
    BY <1>4 DEF CallShutdown, StartShutdown, SubmitNotify, ShutdownNotify, JoinNext, EndShutdown
  <2> QED BY <2>1, UnseenStutters DEF Answers
<1>5. ASSUME NEW w \in Workers, SpuriousWake(w)
      PROVE  UNCHANGED Service!serviceVars
  BY <1>5, UnseenStutters DEF SpuriousWake, Answers
<1>6. ASSUME NEW a \in Actors, BeginShutdown(a)
      PROVE  [Service!Next]_(Service!serviceVars)
  BY <1>6, BeginShutdownRefines DEF Service!Next
<1>7. ASSUME NEW a \in Actors, CancelQueued(a)
      PROVE  Service!Next
  BY <1>7, CancelQueuedRefines DEF Service!Next
<1>8. ASSUME NEW w \in Workers, Look(w)
      PROVE  [Service!Next]_(Service!serviceVars)
  BY <1>8, LookRefines DEF Service!Next
<1>9. ASSUME NEW w \in Workers, NEW r \in {"value", "error"}, Finish(w, r)
      PROVE  Service!Next
  BY <1>9, FinishRefines DEF Service!Next
<1> QED BY <1>1, <1>2, <1>3, <1>4, <1>5, <1>6, <1>7, <1>8, <1>9 DEF Next, Locking, Calling, Working

(* The executor implements JobService, for any threads, jobs, worker count *)
(* and capacity: accepted jobs are started in the order of their           *)
(* acceptance, never more of them at once than there are workers, and each *)
(* is answered once, by its callback, by the refusal or by shutdown().     *)
THEOREM ExecutorImplementsJobService == Spec => ImplementsJobService
<1>1. IInv /\ [Next]_vars => [Service!Next]_(Service!serviceVars)
  BY StepRefines
<1>2. Init => Service!Init
  <2> SUFFICES ASSUME Init PROVE Service!Init
    OBVIOUS
  <2>1. Running = {} /\ Answers = [j \in Jobs |-> "none"] /\ doomed = << >>
    BY DEF Init, Running, Answers, Resolved
  <2>2. {doomed[i] : i \in DOMAIN doomed} = {}
    BY <2>1
  <2> QED BY <2>1, <2>2 DEF Init, Service!Init, Running, Answers
<1> QED BY <1>1, <1>2, Invariance, PTL DEF Spec, ImplementsJobService, Service!Spec
=============================================================================
