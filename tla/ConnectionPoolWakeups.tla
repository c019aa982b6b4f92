------------------------ MODULE ConnectionPoolWakeups ------------------------
(***************************************************************************)
(* Who wakes whom in ConnectionPool, for every number of callers and       *)
(* connections and every PoolConfig: a wait that times out found nothing   *)
(* to take, and a caller is left asleep beside a connection or a free slot *)
(* only by a stop request.                                                 *)
(*                                                                         *)
(* The second is a count: what can be claimed against the callers awake to *)
(* claim it.  Each step changes the two numbers in one of a few ways, and  *)
(* one lemma deals with each way.                                          *)
(***************************************************************************)
EXTENDS ConnectionPoolProofs

(* Nothing to take, and not closed: why a waiter goes to sleep.            *)
Exhausted == idle_connections_ = << >> /\ ~Room /\ ~closed_

(* A caller about to sleep, or to report a timeout, holds mutex_ and has   *)
(* seen an exhausted pool; nobody sleeps on a closed one; only a caller    *)
(* with a token is stopped.                                                *)
WakeInv ==
    /\ \A t \in Callers : pc[t] \in {"parking", "timedout"} => Exhausted
    /\ closed_ => Waiters = {}
    /\ \A t \in Callers : stop[t] # "none" => t \in TokenCallers

(* All that is known of a reachable state here.                            *)
Known == IInv /\ GrantInv /\ WakeInv

-----------------------------------------------------------------------------
(* Each step keeps WakeInv                                                 *)

(* Nobody sleeps on a pool that was closed, when nobody falls asleep.      *)
LEMMA NoNewSleeper ==
    ASSUME WakeInv, closed_' = closed_,
           \A u \in Callers : pc'[u] = "blocked" => pc[u] = "blocked"
    PROVE  closed_' => Waiters' = {}
BY DEF WakeInv, Waiters

(* Steps that leave the pool's fields alone and that no caller enters the  *)
(* critical points by.                                                     *)
LEMMA PlainWake ==
    ASSUME WakeInv, UNCHANGED <<idle_connections_, total_connections_, closed_>>,
           \A u \in Callers : pc'[u] = "blocked" => pc[u] = "blocked",
           \A u \in Callers : pc'[u] \in {"parking", "timedout"} => pc'[u] = pc[u],
           \A u \in Callers : stop'[u] # "none" => u \in TokenCallers
    PROVE  WakeInv'
<1>1. Exhausted' = Exhausted
  BY DEF Exhausted, Room
<1> QED BY <1>1, NoNewSleeper DEF WakeInv

(* Steps of a caller that holds mutex_, or takes it while it is free: no   *)
(* other caller is at one of the critical points.                          *)
LEMMA MutexWake ==
    ASSUME WakeInv,
           \A u \in Callers : pc'[u] \notin {"parking", "timedout"},
           closed_' => Waiters' = {},
           \A u \in Callers : stop'[u] # "none" => u \in TokenCallers
    PROVE  WakeInv'
BY DEF WakeInv

(* The turns of wait_for.                                                  *)
LEMMA WaitWake ==
    ASSUME Known, NEW t \in Callers,
           Test(t) \/ Park(t) \/ Recheck(t)
    PROVE  WakeInv'
<1> USE DEF Known, IInv, TypeOK, WakeInv
<1>1. /\ UNCHANGED <<idle_connections_, total_connections_, closed_, stop>>
      /\ Exhausted' = Exhausted
  BY DEF Test, Park, Recheck, Exhausted, Room
<1>2. CASE Test(t) \/ Recheck(t)
  <2>1. /\ pc'[t] \in {"granted", "parking", "timedout"}
        /\ pc'[t] # "granted" => Exhausted
        /\ \A u \in Callers : u # t => pc'[u] = pc[u]
    BY <1>2 DEF Test, Recheck, Predicate, Exhausted
  <2>2. closed_' => Waiters' = {}
    BY <1>1, <2>1, NoNewSleeper
  <2> QED BY <1>1, <2>1, <2>2
<1>3. CASE Park(t)
  <2>1. /\ pc'[t] = "blocked" /\ Exhausted /\ \A u \in Callers : u # t => pc'[u] = pc[u]
    BY <1>3 DEF Park
  <2>2. ~closed_'
    BY <1>1, <2>1 DEF Exhausted
  <2> QED BY <1>1, <2>1, <2>2
<1> QED BY <1>2, <1>3

(* What follows wait_for, with mutex_ held.                                *)
LEMMA DecideWake ==
    ASSUME Known, NEW t \in Callers, Decide(t)
    PROVE  WakeInv'
<1> USE DEF Known, IInv, TypeOK
<1>1. /\ pc[t] \in {"granted", "timedout"} /\ closed_' = closed_
      /\ \A u \in Callers : u # t => pc[u] \notin LockedPCs
  BY DEF Decide, GrantInv, LockedPCs
<1>2. /\ pc'[t] \in {"outside", "leased", "creating"}
      /\ \A u \in Callers : u # t => pc'[u] = pc[u] /\ stop'[u] = stop[u]
      /\ stop'[t] # "none" => stop[t] # "none"
  BY DEF Decide, GiveUp, Return, Claim, TakeIdle, Reserve
<1>3. \A u \in Callers : pc'[u] \notin {"parking", "timedout"}
  BY <1>1, <1>2 DEF LockedPCs
<1>4. closed_' => Waiters' = {}
  BY <1>1, <1>2, NoNewSleeper
<1>5. \A u \in Callers : stop'[u] # "none" => u \in TokenCallers
  BY <1>2 DEF WakeInv
<1> QED BY <1>3, <1>4, <1>5, MutexWake

(* Steps that take mutex_ while it is free and notify.                     *)
LEMMA LockedWake ==
    ASSUME Known, NEW t \in Callers, Undo(t) \/ ReturnConnection(t) \/ Close(t)
    PROVE  WakeInv'
<1> USE DEF Known, IInv
<1>1. \A u \in Callers : pc[u] \notin LockedPCs
  BY ConfigAssumption DEF Undo, ReturnConnection, Close, GrantInv
<1>2. PICK x \in {"outside", "discarding", "draining"} : Moves(t, x)
  <2>1. CASE Undo(t)
    BY <2>1, WakeOneMoves DEF Undo, PCs
  <2>2. CASE ReturnConnection(t)
    BY <2>2, WakeOneMoves DEF ReturnConnection, PCs
  <2>3. CASE Close(t)
    BY <2>3, WakeAllMoves DEF Close, PCs
  <2> QED BY <2>1, <2>2, <2>3
<1>3. \A u \in Callers : pc'[u] \notin {"parking", "timedout"}
  BY <1>1, <1>2 DEF Moves, LockedPCs
<1>4. \A u \in Callers : stop'[u] # "none" => u \in TokenCallers
  BY DEF Undo, ReturnConnection, Close, WakeInv, TypeOK
<1>5. closed_' => Waiters' = {}
  <2>1. CASE Undo(t) \/ ReturnConnection(t)
    <3>1. closed_' = closed_
      BY <2>1 DEF Undo, ReturnConnection
    <3>2. \A u \in Callers : pc'[u] = "blocked" => pc[u] = "blocked"
      BY <1>2 DEF Moves
    <3> QED BY <3>1, <3>2, NoNewSleeper
  <2>2. CASE Close(t)
    BY <2>2 DEF Close, WakeAll, Waiters
  <2> QED BY <2>1, <2>2
<1> QED BY <1>3, <1>4, <1>5, MutexWake

(* All the others.                                                         *)
LEMMA OtherWake ==
    ASSUME Known, NEW t \in Callers,
           \/ Enter(t) \/ Register(t) \/ Lock(t) \/ Expire(t) \/ SpuriousWake(t)
           \/ Relock(t) \/ RequestStop(t) \/ StopCallback(t) \/ Break(t) \/ Release(t)
           \/ Opened(t) \/ OpenThrows(t) \/ CloseConn(t)
    PROVE  WakeInv'
<1> USE DEF Known, IInv, TypeOK
<1>1. UNCHANGED <<idle_connections_, total_connections_, closed_>>
  BY DEF Enter, Register, Lock, Expire, SpuriousWake, Relock, RequestStop, StopCallback,
         Break, Release, Opened, OpenThrows, CloseConn
<1>2. \A u \in Callers : pc'[u] \in {"blocked", "parking", "timedout"} => pc'[u] = pc[u]
  <2>1. CASE Enter(t) \/ Lock(t) \/ Expire(t) \/ SpuriousWake(t) \/ Relock(t)
    BY <2>1 DEF Enter, Lock, Return, Expire, SpuriousWake, Relock
  <2>2. CASE Register(t) \/ StopCallback(t)
    BY <2>2 DEF Register, StopCallback, WakeAll
  <2>3. CASE RequestStop(t) \/ Break(t) \/ Release(t) \/ Opened(t) \/ OpenThrows(t) \/ CloseConn(t)
    BY <2>3 DEF RequestStop, Break, Release, Opened, Return, OpenThrows, CloseConn
  <2> QED BY <2>1, <2>2, <2>3
<1>3. \A u \in Callers : stop'[u] # "none" => u \in TokenCallers
  <2>1. CASE Enter(t)
    BY <2>1 DEF Enter, Return, WakeInv
  <2>2. CASE Lock(t) \/ Opened(t)
    BY <2>2 DEF Lock, Opened, Return, WakeInv
  <2>3. CASE Register(t) \/ RequestStop(t) \/ StopCallback(t)
    BY <2>3 DEF Register, RequestStop, StopCallback, WakeInv
  <2>4. CASE \/ Expire(t) \/ SpuriousWake(t) \/ Relock(t) \/ Break(t) \/ Release(t)
             \/ OpenThrows(t) \/ CloseConn(t)
    BY <2>4 DEF Expire, SpuriousWake, Relock, Break, Release, OpenThrows, CloseConn, WakeInv
  <2> QED BY <2>1, <2>2, <2>3, <2>4
<1> HIDE DEF Known, IInv, TypeOK
<1> QED BY <1>1, <1>2, <1>3, PlainWake DEF Known

(* Every step.                                                             *)
LEMMA WakeKept == ASSUME Known, [Next]_vars PROVE WakeInv'
<1>1. CASE UNCHANGED vars
  BY <1>1 DEF vars, Known, WakeInv, Exhausted, Room, Waiters
<1>2. ASSUME NEW t \in Callers, Waiting(t) \/ Locking(t) \/ Opening(t) \/ Expire(t)
                                \/ CloseConn(t) \/ Environment(t)
      PROVE  WakeInv'
  BY <1>2, WaitWake, DecideWake, LockedWake, OtherWake
     DEF Waiting, Locking, Opening, Environment
<1> QED BY <1>1, <1>2 DEF Next

(* All that is known holds in every state.                                 *)
LEMMA KnownInvariance == Spec => []Known
<1>1. Init => WakeInv
  BY DEF Init, WakeInv, Waiters
<1>2. Known /\ [Next]_vars => WakeInv'
  BY WakeKept
<1>3. (Known <=> IInv /\ GrantInv /\ WakeInv) /\ (Known' <=> IInv' /\ GrantInv' /\ WakeInv')
  BY DEF Known
<1> QED BY <1>1, <1>2, <1>3, Invariance, GrantInvariance, PTL DEF Spec

-----------------------------------------------------------------------------
(* Timeouts                                                                *)

(* In an exhausted pool there is nothing to claim.                         *)
LEMMA ExhaustedIsEmpty == ASSUME TypeOK, Exhausted PROVE Claimable <= 0
<1>1. Len(idle_connections_) = 0
  BY EmptySeq DEF Exhausted
<1>2. total_connections_ \in Int /\ MaxConns \in Int /\ total_connections_ >= MaxConns
  BY Limits DEF TypeOK, Exhausted, Room
<1> QED BY <1>1, <1>2 DEF Claimable

(* acquire reports a timeout only of an exhausted pool: a connection that  *)
(* came back before the last look at the predicate is handed out.          *)
THEOREM TimeoutsAreHonest == Spec => TimeoutMeansExhausted
<1>1. Known => \A t \in Callers : pc[t] = "timedout" => Claimable <= 0
  BY ExhaustedIsEmpty DEF Known, WakeInv, IInv
<1>2. Known /\ [Next]_vars =>
        [\A t \in Callers : pc[t] = "timedout" /\ pc'[t] = "outside" /\ ~StopRequested(t)
            => Claimable <= 0]_vars
  BY <1>1
<1> QED BY <1>2, KnownInvariance, PTL DEF Spec, TimeoutMeansExhausted

-----------------------------------------------------------------------------
(* Wakeups: the ways in which a step keeps NoStrandedWaiter                *)

(* Both counts are numbers.                                                *)
LEMMA Counts ==
    ASSUME TypeOK
    PROVE  Claimable \in Int /\ Cardinality(Awake) \in Nat
<1>1. Len(idle_connections_) \in Nat /\ total_connections_ \in Nat /\ MaxConns \in Nat
  BY Limits, LenProperties DEF TypeOK
<1>2. Cardinality(Awake) \in Nat
  BY Countable DEF Awake
<1> QED BY <1>1, <1>2 DEF Claimable

(* No more to claim, no caller newly asleep and none less awake.           *)
LEMMA MoreAwake ==
    ASSUME IInv, IInv', NoStrandedWaiter,
           UNCHANGED <<idle_connections_, total_connections_>>,
           Waiters' \subseteq Waiters, Awake \subseteq Awake'
    PROVE  NoStrandedWaiter'
<1>1. Claimable' = Claimable
  BY DEF Claimable
<1>2. Cardinality(Awake) <= Cardinality(Awake')
  <2>1. IsFiniteSet(Awake')
    BY Countable DEF Awake
  <2> QED BY <2>1, FS_Subset
<1>3. Claimable \in Int /\ Cardinality(Awake) \in Nat /\ Cardinality(Awake') \in Nat
  BY Counts, Countable DEF IInv, Awake
<1> QED BY <1>1, <1>2, <1>3 DEF NoStrandedWaiter

(* Nothing to claim afterwards.                                            *)
LEMMA NothingLeft ==
    ASSUME IInv', Exhausted'
    PROVE  NoStrandedWaiter'
<1>1. Len(idle_connections_') = 0
  BY EmptySeq DEF Exhausted
<1>2. total_connections_' \in Int /\ MaxConns \in Int /\ total_connections_' >= MaxConns
  BY Limits DEF IInv, TypeOK, Exhausted, Room
<1>3. Cardinality(Awake') \in Nat
  BY Countable DEF Awake
<1> QED BY <1>1, <1>2, <1>3 DEF NoStrandedWaiter, Claimable

(* An awake caller claims one of the things to claim.                      *)
LEMMA OneClaimed ==
    ASSUME IInv, NoStrandedWaiter, NEW t \in Awake,
           Claimable' = Claimable - 1, Waiters' = Waiters, Awake' = Awake \ {t}
    PROVE  NoStrandedWaiter'
<1>1. Cardinality(Awake') = Cardinality(Awake) - 1
  BY RemoveOne DEF Awake
<1> QED BY <1>1, Counts DEF IInv, NoStrandedWaiter

(* One thing more to claim, and a waiter woken for it if there is one.     *)
LEMMA OneWoken ==
    ASSUME IInv, NoStrandedWaiter, NEW t \in Callers,
           pc[t] \in {"undoing", "returning"}, NEW x \in {"outside", "discarding"},
           pc' \in WakeOne([pc EXCEPT ![t] = x]),
           Claimable' = Claimable + 1
    PROVE  NoStrandedWaiter'
<1> DEFINE p == [pc EXCEPT ![t] = x]
<1>1. /\ p \in [Callers -> PCs] /\ p[t] = x /\ \A u \in Callers : u # t => p[u] = pc[u]
      /\ {u \in Callers : p[u] = "blocked"} = Waiters
  BY DEF IInv, TypeOK, Waiters, PCs
<1>2. pc' \in WakeOne(p)
  OBVIOUS
<1> HIDE DEF p
<1>3. CASE Waiters = {}
  <2>1. pc' = p
    BY <1>1, <1>2, <1>3 DEF WakeOne
  <2> QED BY <1>1, <1>3, <2>1 DEF NoStrandedWaiter, Waiters
<1>4. CASE Waiters # {}
  <2>1. PICK v \in Waiters : pc' = [p EXCEPT ![v] = "woken"]
    BY <1>1, <1>2, <1>4 DEF WakeOne
  <2>2. v \in Callers /\ v # t /\ v \notin Awake
    BY <1>1, <2>1 DEF Waiters, Awake
  <2>3. /\ pc'[v] = "woken" /\ pc'[t] = x
        /\ \A u \in Callers : u # t /\ u # v => pc'[u] = pc[u]
    BY <1>1, <2>1, <2>2
  <2>4. Awake' = Awake \cup {v}
    BY <2>2, <2>3 DEF Awake
  <2>5. Cardinality(Awake') = Cardinality(Awake) + 1
    BY <2>2, <2>4, AddOne DEF Awake
  <2> QED BY <1>4, <2>5, Counts DEF IInv, NoStrandedWaiter
<1> QED BY <1>3, <1>4

-----------------------------------------------------------------------------
(* Wakeups: each step                                                      *)

(* A caller told to stop leaves without claiming what it was woken for.    *)
Leaves(t) == StopRequested(t) /\ pc[t] \in CallPCs /\ pc'[t] = "outside"

(* The turns of wait_for: a caller goes to sleep, or to its timeout, on an *)
(* exhausted pool.                                                         *)
LEMMA WaitStrandsNobody ==
    ASSUME Known, Known', NoStrandedWaiter, NEW t \in Callers,
           Test(t) \/ Park(t) \/ Recheck(t)
    PROVE  NoStrandedWaiter'
<1> USE DEF Known, IInv, TypeOK
<1>1. /\ UNCHANGED <<idle_connections_, total_connections_, closed_>>
      /\ \A u \in Callers : u # t => pc'[u] = pc[u]
  BY DEF Test, Park, Recheck
<1>2. Exhausted' = Exhausted
  BY <1>1 DEF Exhausted, Room
<1>3. CASE pc'[t] = "granted"
  <2>1. pc[t] \in {"waiting", "rechecking"}
    BY <1>3 DEF Test, Park, Recheck
  <2>2. Waiters' \subseteq Waiters /\ Awake \subseteq Awake'
    BY <1>1, <1>3, <2>1 DEF Waiters, Awake
  <2> QED BY <1>1, <2>2, MoreAwake
<1>4. CASE pc'[t] # "granted"
  <2>1. Exhausted
    BY <1>4 DEF Test, Park, Recheck, Predicate, Exhausted, WakeInv
  <2> QED BY <1>2, <2>1, NothingLeft
<1> QED BY <1>3, <1>4

(* After wait_for the caller claims something, or leaves for a reason.     *)
LEMMA DecideStrandsByStop ==
    ASSUME Known, Known', NoStrandedWaiter, NEW t \in Callers, Decide(t)
    PROVE  NoStrandedWaiter' \/ (t \in TokenCallers /\ Leaves(t))
<1> USE DEF Known
<1>1. /\ pc[t] \in {"granted", "timedout"} /\ closed_' = closed_
      /\ pc'[t] \in {"outside", "leased", "creating"}
      /\ \A u \in Callers : u # t => pc'[u] = pc[u]
  BY DEF Decide, GiveUp, Return, Claim, TakeIdle, Reserve, IInv, TypeOK
<1>2. Waiters' = Waiters /\ Awake' = Awake \ {t}
  BY <1>1 DEF Waiters, Awake
<1>3. CASE StopRequested(t)
  <2>1. t \in TokenCallers
    BY <1>3 DEF StopRequested, WakeInv
  <2>2. pc'[t] = "outside"
    BY <1>3 DEF Decide, GiveUp, Return, IInv, TypeOK
  <2> QED BY <1>1, <1>3, <2>1, <2>2 DEF Leaves, CallPCs, LockedPCs
<1>4. CASE ~StopRequested(t) /\ closed_
  BY <1>1, <1>4 DEF WakeInv, NoStrandedWaiter
<1>5. CASE ~StopRequested(t) /\ ~closed_ /\ pc[t] = "timedout"
  <2>1. UNCHANGED <<idle_connections_, total_connections_>>
    BY <1>5 DEF Decide, GiveUp
  <2>2. Awake \subseteq Awake'
    BY <1>2, <1>5 DEF Awake
  <2> QED BY <1>2, <2>1, <2>2, MoreAwake
<1>6. CASE ~StopRequested(t) /\ ~closed_ /\ pc[t] = "granted"
  <2>1. Claim(t) /\ (idle_connections_ # << >> \/ Room)
    BY <1>6 DEF Decide, GrantInv, Predicate
  <2>2. /\ Len(idle_connections_) \in Nat /\ total_connections_ \in Nat /\ MaxConns \in Nat
    BY Limits, LenProperties DEF IInv, TypeOK
  <2>3. t \in Awake
    BY <1>6 DEF Awake
  <2>4. CASE idle_connections_ # << >>
    <3>1. TakeIdle(t)
      BY <2>1, <2>4 DEF Claim
    <3>2. Len(idle_connections_') = Len(idle_connections_) - 1
      <4>1. idle_connections_ \in Seq(Conns) /\ IsInjective(idle_connections_)
        BY DEF IInv, TypeOK, ExclusiveOwner
      <4>2. idle_connections_' = SubSeq(idle_connections_, 1, Len(idle_connections_) - 1)
        BY <3>1 DEF TakeIdle
      <4> QED BY <2>4, <4>1, <4>2, PopBack
    <3>3. total_connections_' = total_connections_
      BY <3>1 DEF TakeIdle
    <3>4. Claimable' = Claimable - 1
      BY <2>2, <3>2, <3>3 DEF Claimable
    <3> QED BY <1>2, <2>3, <3>4, OneClaimed
  <2>5. CASE idle_connections_ = << >>
    <3>1. Reserve(t)
      BY <2>1, <2>5 DEF Claim
    <3>2. total_connections_' = total_connections_ + 1 /\ idle_connections_' = idle_connections_
      BY <3>1 DEF Reserve
    <3>3. Claimable' = Claimable - 1
      BY <2>2, <3>2 DEF Claimable
    <3> QED BY <1>2, <2>3, <3>3, OneClaimed
  <2> QED BY <2>4, <2>5
<1> QED BY <1>1, <1>3, <1>4, <1>5, <1>6

(* A slot or a connection comes back, and one waiter is told.              *)
LEMMA ComebackStrandsNobody ==
    ASSUME Known, Known', NoStrandedWaiter, NEW t \in Callers,
           Undo(t) \/ ReturnConnection(t)
    PROVE  NoStrandedWaiter'
<1> USE DEF Known
<1>1. /\ Len(idle_connections_) \in Nat /\ total_connections_ \in Nat /\ MaxConns \in Nat
  BY Limits, LenProperties DEF IInv, TypeOK
<1>2. CASE Undo(t)
  <2>1. /\ pc[t] = "undoing" /\ pc' \in WakeOne([pc EXCEPT ![t] = "outside"])
        /\ total_connections_' = total_connections_ - 1 /\ idle_connections_' = idle_connections_
    BY <1>2 DEF Undo
  <2>2. Claimable' = Claimable + 1
    BY <1>1, <2>1 DEF Claimable
  <2> QED BY <2>1, <2>2, OneWoken
<1>3. CASE ReturnConnection(t)
  <2>1. pc[t] = "returning"
    BY <1>3 DEF ReturnConnection
  <2>2. PICK x \in {"outside", "discarding"} : pc' \in WakeOne([pc EXCEPT ![t] = x])
    BY <1>3 DEF ReturnConnection
  <2>3. PICK c \in held[t] :
            \/ /\ total_connections_' = total_connections_ - 1
               /\ idle_connections_' = idle_connections_
            \/ /\ total_connections_' = total_connections_
               /\ idle_connections_' = Append(idle_connections_, c)
    BY <1>3 DEF ReturnConnection
  <2>4. c \in Conns
    BY DEF IInv, TypeOK
  <2>5. Claimable' = Claimable + 1
    <3>1. CASE /\ total_connections_' = total_connections_ - 1
               /\ idle_connections_' = idle_connections_
      BY <1>1, <3>1 DEF Claimable
    <3>2. CASE /\ total_connections_' = total_connections_
               /\ idle_connections_' = Append(idle_connections_, c)
      <4>1. Len(idle_connections_') = Len(idle_connections_) + 1
        BY <2>4, <3>2, AppendProperties DEF IInv, TypeOK
      <4> QED BY <1>1, <3>2, <4>1 DEF Claimable
    <3> QED BY <2>3, <3>1, <3>2
  <2> QED BY <2>1, <2>2, <2>5, OneWoken
<1> QED BY <1>2, <1>3

(* The other steps take nothing, put nobody to sleep and wake who sleeps.  *)
LEMMA OthersStrandNobody ==
    ASSUME Known, Known', NoStrandedWaiter, NEW t \in Callers,
           \/ Enter(t) \/ Register(t) \/ Lock(t) \/ Expire(t) \/ SpuriousWake(t)
           \/ Relock(t) \/ RequestStop(t) \/ StopCallback(t) \/ Break(t) \/ Release(t)
           \/ Opened(t) \/ OpenThrows(t) \/ CloseConn(t)
    PROVE  NoStrandedWaiter'
<1> USE DEF Known, IInv, TypeOK
<1>1. UNCHANGED <<idle_connections_, total_connections_>>
  BY DEF Enter, Register, Lock, Expire, SpuriousWake, Relock, RequestStop, StopCallback,
         Break, Release, Opened, OpenThrows, CloseConn
<1>2. /\ \A u \in Callers : pc'[u] = "blocked" => pc[u] = "blocked"
      /\ \A u \in Callers : u \in Awake => u \in Awake'
  <2>1. CASE Enter(t) \/ Lock(t) \/ Expire(t) \/ SpuriousWake(t) \/ Relock(t)
    BY <2>1 DEF Enter, Lock, Return, Expire, SpuriousWake, Relock, Awake
  <2>2. CASE Register(t) \/ StopCallback(t)
    BY <2>2 DEF Register, StopCallback, WakeAll, Awake
  <2>3. CASE RequestStop(t) \/ Break(t) \/ Release(t) \/ Opened(t) \/ OpenThrows(t) \/ CloseConn(t)
    BY <2>3 DEF RequestStop, Break, Release, Opened, Return, OpenThrows, CloseConn, Awake
  <2> QED BY <2>1, <2>2, <2>3
<1>3. Waiters' \subseteq Waiters /\ Awake \subseteq Awake'
  BY <1>2 DEF Waiters, Awake
<1> HIDE DEF IInv, TypeOK
<1> QED BY <1>1, <1>3, MoreAwake

(* Every step.                                                             *)
LEMMA StepStrandsByStop ==
    ASSUME Known, Known', NoStrandedWaiter, [Next]_vars
    PROVE  NoStrandedWaiter' \/ \E t \in TokenCallers : Leaves(t)
<1>1. CASE UNCHANGED vars
  BY <1>1 DEF vars, NoStrandedWaiter, Waiters, Claimable, Awake
<1>2. ASSUME NEW t \in Callers, Waiting(t) \/ Locking(t) \/ Opening(t) \/ Expire(t)
                                \/ CloseConn(t) \/ Environment(t)
      PROVE  NoStrandedWaiter' \/ \E u \in TokenCallers : Leaves(u)
  <2>1. CASE Close(t)
    <3>1. Waiters' = {}
      BY <2>1 DEF Close, WakeAll, Waiters
    <3> QED BY <3>1 DEF NoStrandedWaiter
  <2> QED BY <1>2, <2>1, WaitStrandsNobody, DecideStrandsByStop, ComebackStrandsNobody,
             OthersStrandNobody DEF Waiting, Locking, Opening, Environment
<1> QED BY <1>1, <1>2 DEF Next

(* No wakeup of the pool is lost but by a stop: return_connection, close   *)
(* and the catch block of a failed open wake enough waiters, timeouts and  *)
(* spurious wakeups included, and the one step that can leave a caller     *)
(* asleep beside what it could take is another one's cancellation.         *)
THEOREM OnlyStopsStrand == Spec => StrandedOnlyByStop
<1>1. Known /\ Known' /\ [Next]_vars =>
        [NoStrandedWaiter /\ ~NoStrandedWaiter'
            => \E t \in TokenCallers :
                 StopRequested(t) /\ pc[t] \in CallPCs /\ pc'[t] = "outside"]_vars
  BY StepStrandsByStop DEF Leaves
<1> QED BY <1>1, KnownInvariance, PTL DEF Spec, StrandedOnlyByStop

(* A pool whose callers have no stop tokens loses no wakeup at all: nobody *)
(* is ever asleep beside a connection or a free slot that no caller awake  *)
(* will take.                                                              *)
THEOREM NobodyIsStrandedWithoutTokens ==
    ASSUME TokenCallers = {} PROVE Spec => []NoStrandedWaiter
<1>1. Init => NoStrandedWaiter
  BY DEF Init, NoStrandedWaiter, Waiters
<1>2. Known /\ Known' /\ NoStrandedWaiter /\ [Next]_vars => NoStrandedWaiter'
  BY StepStrandsByStop
<1> QED BY <1>1, <1>2, KnownInvariance, PTL DEF Spec
=============================================================================
