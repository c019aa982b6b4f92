--------------------------- MODULE ConnectionPool ---------------------------
(***************************************************************************)
(* detail::ConnectionPoolState of include/cpplinq/driver/connection_pool.h *)
(* and the RAII lease PooledConnection: acquire, try_acquire,              *)
(* return_connection and close, run by any number of threads.              *)
(*                                                                         *)
(* A caller is one acquisition at a time: a thread that holds two leases   *)
(* is two callers.  A critical section of mutex_ is one step unless the    *)
(* code reads the stop flag inside it more than once; then mutex_ is held  *)
(* across the steps, because request_stop() does not take mutex_.          *)
(* Time is abstracted: a timed wait may expire whenever it is blocked.     *)
(***************************************************************************)
EXTENDS Integers, Sequences, FiniteSets, Functions

CONSTANTS
    Callers,          \* the threads (one acquisition each)
    TokenCallers,     \* those that pass a std::stop_token
    Conns,            \* identities of physical connections
    Free,             \* the value of mutex_ when nobody holds it
    min_connections,  \* PoolConfig as the user wrote it
    max_connections

(* The constructor's clamping of PoolConfig. *)
MaxConns == IF max_connections = 0 THEN 1 ELSE max_connections
MinConns == IF min_connections > MaxConns THEN MaxConns ELSE min_connections

ASSUME ConfigAssumption ==
    /\ min_connections \in Nat
    /\ max_connections \in Nat
    /\ TokenCallers \subseteq Callers
    /\ Free \notin Callers
    /\ IsFiniteSet(Callers)
    /\ IsFiniteSet(Conns)
    /\ Cardinality(Conns) >= MaxConns

VARIABLES
    mutex_,              \* the caller inside a critical section, or Free
    idle_connections_,   \* vector used as a stack
    total_connections_,  \* the counter the capacity test reads
    closed_,
    conn,                \* conn[c]: what is_open() would say of the object c
    pc,                  \* where each caller is in the code
    kind,                \* which of the two acquisitions it runs
    stop,                \* its stop token and the callback registered on it
    held,                \* the unique_ptrs a caller owns
    result               \* how its last acquisition ended

vars == <<mutex_, idle_connections_, total_connections_, closed_, conn,
          pc, kind, stop, held, result>>

(* Program points that own mutex_. *)
LockedPCs == {"waiting", "parking", "rechecking", "granted", "timedout"}
(* Program points inside acquire / try_acquire. *)
CallPCs == LockedPCs \cup {"entered", "locking", "blocked", "woken",
                           "expired", "creating", "undoing"}
(* Program points whose caller is counted in total_connections_. *)
SlotPCs == {"creating", "undoing", "leased", "returning"}
PCs == CallPCs \cup SlotPCs \cup {"outside", "discarding", "draining"}

Results == {"none", "lease", "cancelled", "closed", "nullopt", "timeout",
            "create_failed", "fell_through"}

Waiters == {t \in Callers : pc[t] = "blocked"}
Openers == {t \in Callers : pc[t] \in {"creating", "undoing"}}
SlotHolders == {t \in Callers : pc[t] \in SlotPCs}
Existing == {c \in Conns : conn[c] # "none"}

(* Room in the pool: what a claimant could take, now. *)
Claimable == Len(idle_connections_) + (MaxConns - total_connections_)

StopRequested(t) == stop[t] \in {"requested", "delivered"}

(* initialize(): the minimum is opened before any thread sees the pool. *)
Init ==
    /\ mutex_ = Free
    /\ idle_connections_ \in
         {s \in [1 .. MinConns -> Conns] :
             IsInjective(s)}
    /\ total_connections_ = MinConns
    /\ closed_ = FALSE
    /\ conn = [c \in Conns |->
                 IF c \in Range(idle_connections_) THEN "open" ELSE "none"]
    /\ pc = [t \in Callers |-> "outside"]
    /\ kind = [t \in Callers |-> "acquire"]
    /\ stop = [t \in Callers |-> "none"]
    /\ held = [t \in Callers |-> {}]
    /\ result = [t \in Callers |-> "none"]

-----------------------------------------------------------------------------
(* Mutants, here and below: definitions named for a plausible bug stand    *)
(* before the definition they replace when a property is put to the test.  *)

(* condition_.notify_all() and notify_one(), as what they do to pc. *)
WakeAll(p) == [t \in Callers |-> IF p[t] = "blocked" THEN "woken" ELSE p[t]]
WakeNobody(p) == {p}
WakeOne(p) == IF \E t \in Callers : p[t] = "blocked"
              THEN {[p EXCEPT ![t] = "woken"] : t \in {u \in Callers : p[u] = "blocked"}}
              ELSE {p}

(* The call ends: stop_cb is destroyed with it, run or not. *)
Return(t, r, p) ==
    /\ pc' = [pc EXCEPT ![t] = p]
    /\ result' = [result EXCEPT ![t] = r]
    /\ stop' = [stop EXCEPT ![t] = "none"]

(* try_acquire reports as nullopt what acquire throws. *)
Outcome(t, r) == IF kind[t] = "try_acquire" THEN "nullopt" ELSE r

-----------------------------------------------------------------------------
(* acquire() and try_acquire() *)

(* Entry: a token already stopped throws before anything is registered. *)
Enter(t) ==
    /\ pc[t] = "outside"
    /\ \E k \in {"acquire", "try_acquire"},
          s \in IF t \in TokenCallers THEN {"armed", "requested"} ELSE {"none"} :
          /\ kind' = [kind EXCEPT ![t] = k]
          /\ IF s = "requested"
             THEN Return(t, "cancelled", "outside")
             ELSE /\ pc' = [pc EXCEPT ![t] = "entered"]
                  /\ stop' = [stop EXCEPT ![t] = s]
                  /\ result' = [result EXCEPT ![t] = "none"]
    /\ UNCHANGED <<mutex_, idle_connections_, total_connections_, closed_, conn, held>>

(* stop_cb.emplace: on a token stopped in the meantime the callback runs   *)
(* here and now.                                                           *)
Register(t) ==
    /\ pc[t] = "entered"
    /\ IF stop[t] = "requested"
       THEN /\ pc' = WakeAll([pc EXCEPT ![t] = "locking"])
            /\ stop' = [stop EXCEPT ![t] = "delivered"]
       ELSE /\ pc' = [pc EXCEPT ![t] = "locking"]
            /\ UNCHANGED stop
    /\ UNCHANGED <<mutex_, idle_connections_, total_connections_, closed_, conn,
                   kind, held, result>>

(* unique_lock on mutex_, then the closed_ test. *)
Lock(t) ==
    /\ pc[t] = "locking"
    /\ mutex_ = Free
    /\ IF closed_
       THEN /\ Return(t, Outcome(t, "closed"), "outside")
            /\ UNCHANGED mutex_
       ELSE /\ mutex_' = t
            /\ pc' = [pc EXCEPT ![t] = "waiting"]
            /\ UNCHANGED <<stop, result>>
    /\ UNCHANGED <<idle_connections_, total_connections_, closed_, conn, kind, held>>

(* The capacity test, in the predicate and before a connection is opened.  *)
RoomOffByOne == total_connections_ <= MaxConns
Room == total_connections_ < MaxConns

(* The lambda given to wait_for. *)
PredicateOffByOne(t) ==
    \/ StopRequested(t)
    \/ closed_
    \/ idle_connections_ # << >>
    \/ total_connections_ <= MaxConns
Predicate(t) ==
    \/ StopRequested(t)
    \/ closed_
    \/ idle_connections_ # << >>
    \/ Room

(* One turn of wait_for's loop: the predicate, under mutex_. *)
Test(t) ==
    /\ pc[t] = "waiting"
    /\ pc' = [pc EXCEPT ![t] = IF Predicate(t) THEN "granted" ELSE "parking"]
    /\ UNCHANGED <<mutex_, idle_connections_, total_connections_, closed_, conn,
                   kind, stop, held, result>>

(* The thread blocks and releases mutex_ in one step; the stop flag may    *)
(* have been set since the predicate was read.                             *)
Park(t) ==
    /\ pc[t] = "parking"
    /\ mutex_' = Free
    /\ pc' = [pc EXCEPT ![t] = "blocked"]
    /\ UNCHANGED <<idle_connections_, total_connections_, closed_, conn,
                   kind, stop, held, result>>

(* acquire_timeout elapses. *)
WaitWithoutDeadline(t) == pc[t] = "blocked" /\ FALSE
Expire(t) ==
    /\ pc[t] = "blocked"
    /\ pc' = [pc EXCEPT ![t] = "expired"]
    /\ UNCHANGED <<mutex_, idle_connections_, total_connections_, closed_, conn,
                   kind, stop, held, result>>

(* A condition variable may wake a waiter nobody notified. *)
SpuriousWake(t) ==
    /\ pc[t] = "blocked"
    /\ pc' = [pc EXCEPT ![t] = "woken"]
    /\ UNCHANGED <<mutex_, idle_connections_, total_connections_, closed_, conn,
                   kind, stop, held, result>>

(* Awake, the waiter takes mutex_ again before it looks at anything. *)
Relock(t) ==
    /\ pc[t] \in {"woken", "expired"}
    /\ mutex_ = Free
    /\ mutex_' = t
    /\ pc' = [pc EXCEPT ![t] = IF pc[t] = "woken" THEN "waiting" ELSE "rechecking"]
    /\ UNCHANGED <<idle_connections_, total_connections_, closed_, conn,
                   kind, stop, held, result>>

(* wait_for's last look: after the deadline it returns the predicate. *)
RecheckNothing(t) ==
    /\ pc[t] = "rechecking"
    /\ pc' = [pc EXCEPT ![t] = "timedout"]
    /\ UNCHANGED <<mutex_, idle_connections_, total_connections_, closed_, conn,
                   kind, stop, held, result>>
Recheck(t) ==
    /\ pc[t] = "rechecking"
    /\ pc' = [pc EXCEPT ![t] = IF Predicate(t) THEN "granted" ELSE "timedout"]
    /\ UNCHANGED <<mutex_, idle_connections_, total_connections_, closed_, conn,
                   kind, stop, held, result>>

(* What follows wait_for, one disjunct per way out; each leaves mutex_. *)
GiveUp(t, r) ==
    /\ Return(t, r, "outside")
    /\ UNCHANGED <<idle_connections_, total_connections_, held>>

TakeIdleNoPop(t) ==
    /\ held' = [held EXCEPT ![t] = {idle_connections_[Len(idle_connections_)]}]
    /\ Return(t, "lease", "leased")
    /\ UNCHANGED <<total_connections_, idle_connections_>>

TakeIdle(t) ==
    LET n == Len(idle_connections_) IN
    /\ held' = [held EXCEPT ![t] = {idle_connections_[n]}]
    /\ idle_connections_' = SubSeq(idle_connections_, 1, n - 1)
    /\ Return(t, "lease", "leased")
    /\ UNCHANGED total_connections_

ReserveUncounted(t) ==
    /\ pc' = [pc EXCEPT ![t] = "creating"]
    /\ UNCHANGED <<total_connections_, idle_connections_, stop, held, result>>

Reserve(t) ==
    /\ total_connections_' = total_connections_ + 1
    /\ pc' = [pc EXCEPT ![t] = "creating"]
    /\ UNCHANGED <<idle_connections_, stop, held, result>>

ClaimFreshFirst(t) == IF Room THEN Reserve(t) ELSE TakeIdle(t)
Claim(t) ==
    IF idle_connections_ # << >> THEN TakeIdle(t)
    ELSE IF Room THEN Reserve(t)
    ELSE GiveUp(t, Outcome(t, "fell_through"))

Decide(t) ==
    /\ pc[t] \in {"granted", "timedout"}
    /\ mutex_' = Free
    /\ \/ StopRequested(t) /\ GiveUp(t, "cancelled")
       \/ ~StopRequested(t) /\ closed_ /\ GiveUp(t, Outcome(t, "closed"))
       \/ ~StopRequested(t) /\ ~closed_ /\ pc[t] = "timedout"
             /\ GiveUp(t, Outcome(t, "timeout"))
       \/ ~StopRequested(t) /\ ~closed_ /\ pc[t] = "granted" /\ Claim(t)
    /\ UNCHANGED <<closed_, conn, kind>>

(* create_new_connection(), outside mutex_: it opens a connection ... *)
Opened(t) ==
    /\ pc[t] = "creating"
    /\ \E c \in Conns :
          /\ conn[c] = "none"
          /\ conn' = [conn EXCEPT ![c] = "open"]
          /\ held' = [held EXCEPT ![t] = {c}]
    /\ Return(t, "lease", "leased")
    /\ UNCHANGED <<mutex_, idle_connections_, total_connections_, closed_, kind>>

(* ... or throws ... *)
OpenThrows(t) ==
    /\ pc[t] = "creating"
    /\ pc' = [pc EXCEPT ![t] = "undoing"]
    /\ UNCHANGED <<mutex_, idle_connections_, total_connections_, closed_, conn,
                   kind, stop, held, result>>

(* ... and the catch block gives the slot back and wakes one waiter. *)
UndoKeepsSlot(t) ==
    /\ pc[t] = "undoing"
    /\ mutex_ = Free
    /\ pc' \in WakeOne([pc EXCEPT ![t] = "outside"])
    /\ result' = [result EXCEPT ![t] = "create_failed"]
    /\ stop' = [stop EXCEPT ![t] = "none"]
    /\ UNCHANGED <<mutex_, idle_connections_, total_connections_, closed_, conn, kind, held>>

Undo(t) ==
    /\ pc[t] = "undoing"
    /\ mutex_ = Free
    /\ total_connections_' = total_connections_ - 1
    /\ pc' \in WakeOne([pc EXCEPT ![t] = "outside"])
    /\ result' = [result EXCEPT ![t] = "create_failed"]
    /\ stop' = [stop EXCEPT ![t] = "none"]
    /\ UNCHANGED <<mutex_, idle_connections_, closed_, conn, kind, held>>

-----------------------------------------------------------------------------
(* request_stop() by another thread: the flag first, the callback later;   *)
(* a callback whose call has ended by then no longer runs.                 *)
RequestStop(t) ==
    /\ pc[t] \in CallPCs
    /\ stop[t] = "armed"
    /\ stop' = [stop EXCEPT ![t] = "requested"]
    /\ UNCHANGED <<mutex_, idle_connections_, total_connections_, closed_, conn,
                   pc, kind, held, result>>

StopCallback(t) ==
    /\ pc[t] \in CallPCs \ {"entered"}
    /\ stop[t] = "requested"
    /\ stop' = [stop EXCEPT ![t] = "delivered"]
    /\ pc' = WakeAll(pc)
    /\ UNCHANGED <<mutex_, idle_connections_, total_connections_, closed_, conn,
                   kind, held, result>>

-----------------------------------------------------------------------------
(* The lease *)

(* The holder closes its connection, or the server drops one, leased or    *)
(* idle: acquire() hands out an idle connection without looking at it.     *)
Break(t) ==
    /\ \E c \in Range(idle_connections_) \cup (IF pc[t] = "leased" THEN held[t] ELSE {}) :
          /\ conn[c] = "open"
          /\ conn' = [conn EXCEPT ![c] = "broken"]
    /\ UNCHANGED <<mutex_, idle_connections_, total_connections_, closed_,
                   pc, kind, stop, held, result>>

(* ~PooledConnection, or a move assignment over it: release(). *)
Release(t) ==
    /\ pc[t] = "leased"
    /\ pc' = [pc EXCEPT ![t] = "returning"]
    /\ UNCHANGED <<mutex_, idle_connections_, total_connections_, closed_, conn,
                   kind, stop, held, result>>

(* A connection the pool does not take back. *)
RefusedIfDead(c) == conn[c] # "open"
Refused(c) == closed_ \/ conn[c] # "open"

(* return_connection's critical section.  An open connection given back to *)
(* a closed pool is closed after mutex_ is released.                       *)
ReturnConnection(t) ==
    /\ pc[t] = "returning"
    /\ mutex_ = Free
    /\ \E c \in held[t] :
         IF Refused(c)
         THEN /\ total_connections_' = total_connections_ - 1
              /\ UNCHANGED idle_connections_
              /\ IF conn[c] = "open"
                 THEN /\ pc' \in WakeOne([pc EXCEPT ![t] = "discarding"])
                      /\ UNCHANGED <<conn, held>>
                 ELSE /\ pc' \in WakeOne([pc EXCEPT ![t] = "outside"])
                      /\ conn' = [conn EXCEPT ![c] = "none"]
                      /\ held' = [held EXCEPT ![t] = {}]
         ELSE /\ idle_connections_' = Append(idle_connections_, c)
              /\ held' = [held EXCEPT ![t] = {}]
              /\ pc' \in WakeOne([pc EXCEPT ![t] = "outside"])
              /\ UNCHANGED <<total_connections_, conn>>
    /\ UNCHANGED <<mutex_, closed_, kind, stop, result>>

(* The close of a connection the pool gave up, outside mutex_. *)
CloseConn(t) ==
    /\ pc[t] \in {"discarding", "draining"}
    /\ \E c \in held[t] :
          /\ conn' = [conn EXCEPT ![c] = "none"]
          /\ held' = [held EXCEPT ![t] = @ \ {c}]
          /\ pc' = [pc EXCEPT ![t] = IF held[t] = {c} THEN "outside" ELSE pc[t]]
    /\ UNCHANGED <<mutex_, idle_connections_, total_connections_, closed_,
                   kind, stop, result>>

(* close(): the idle connections leave the pool under mutex_ and are       *)
(* closed after it.  A second close() returns at once.                     *)
Close(t) ==
    /\ pc[t] = "outside"
    /\ mutex_ = Free
    /\ ~closed_
    /\ closed_' = TRUE
    /\ held' = [held EXCEPT ![t] = Range(idle_connections_)]
    /\ total_connections_' = total_connections_ - Len(idle_connections_)
    /\ idle_connections_' = << >>
    /\ pc' = WakeAll([pc EXCEPT ![t] =
                IF idle_connections_ = << >> THEN "outside" ELSE "draining"])
    /\ UNCHANGED <<mutex_, conn, kind, stop, result>>

-----------------------------------------------------------------------------
(* The steps a thread takes by itself once it is in the code. *)
Waiting(t) == Register(t) \/ Test(t) \/ Park(t) \/ Recheck(t) \/ Decide(t)
Locking(t) == Lock(t) \/ Relock(t) \/ Undo(t) \/ ReturnConnection(t)
Opening(t) == Opened(t) \/ OpenThrows(t)
Environment(t) ==
    \/ Enter(t) \/ SpuriousWake(t) \/ RequestStop(t) \/ StopCallback(t)
    \/ Break(t) \/ Release(t) \/ Close(t)

Next == \E t \in Callers :
    \/ Waiting(t) \/ Locking(t) \/ Opening(t) \/ Expire(t) \/ CloseConn(t)
    \/ Environment(t)

Spec == Init /\ [][Next]_vars

(* The scheduler runs every thread and a thread that keeps asking for      *)
(* mutex_ gets it.  The clock passes every deadline, however often the     *)
(* waiter is woken before it.  Nothing makes a holder release its lease.   *)
Fairness == \A t \in Callers :
    /\ WF_vars(Waiting(t))
    /\ WF_vars(Opening(t))
    /\ WF_vars(CloseConn(t))
    /\ SF_vars(Locking(t))
    /\ SF_vars(Expire(t))

FairSpec == Spec /\ Fairness

-----------------------------------------------------------------------------
(* Properties *)

TypeOK ==
    /\ mutex_ \in Callers \cup {Free}
    /\ idle_connections_ \in Seq(Conns)
    /\ total_connections_ \in 0 .. MaxConns
    /\ closed_ \in BOOLEAN
    /\ conn \in [Conns -> {"none", "open", "broken"}]
    /\ pc \in [Callers -> PCs]
    /\ kind \in [Callers -> {"acquire", "try_acquire"}]
    /\ stop \in [Callers -> {"none", "armed", "requested", "delivered"}]
    /\ held \in [Callers -> SUBSET Conns]
    /\ result \in [Callers -> Results]

(* The capacity test reads a counter that is kept by hand on six paths,    *)
(* one of them the catch block of a failed open: the counter is always the *)
(* idle connections plus the callers that own a slot.                      *)
Accounting ==
    total_connections_ = Len(idle_connections_) + Cardinality(SlotHolders)

(* max_connections is a bound on physical connections, those being opened  *)
(* and those a closing pool has not closed yet included, not only on the   *)
(* counter, which close() and return_connection lower before they close.   *)
HardBound == Cardinality(Existing) + Cardinality(Openers) <= MaxConns

(* A connection has one owner: it is once in the idle stack or with one    *)
(* caller, and the connections that exist are the owned ones: none is      *)
(* leaked and none is used after its close.                                *)
ExclusiveOwner ==
    /\ IsInjective(idle_connections_)
    /\ \A t \in Callers : held[t] \cap Range(idle_connections_) = {}
    /\ \A t, u \in Callers : t # u => held[t] \cap held[u] = {}
    /\ \A c \in Conns : conn[c] # "none" <=>
          c \in Range(idle_connections_) \/ \E t \in Callers : c \in held[t]

(* However close() interleaves with opens and returns, a closed pool whose *)
(* callers have all left owns no connection and counts none.               *)
DrainedAfterClose ==
    closed_ /\ (\A t \in Callers : pc[t] = "outside")
       => Existing = {} /\ total_connections_ = 0

(* The throw after the last test of acquire (and the nullopt of            *)
(* try_acquire) is unreachable: wait_for says yes only for a reason that   *)
(* still holds when the code acts on it.                                   *)
NeverFallsThrough == \A t \in Callers : result[t] # "fell_through"

(* No lost wakeup: a caller sleeps only while everything that is claimable *)
(* has an awake caller to claim it.                                        *)
Awake == {t \in Callers : pc[t] \in {"woken", "expired", "waiting", "rechecking", "granted"}}
NoStrandedWaiter == Waiters # {} => Claimable <= Cardinality(Awake)

(* Nothing loses a wakeup but a stop: a caller is left asleep beside what   *)
(* it could claim only by the step in which another caller, woken for it,  *)
(* leaves its call because a stop was requested.                           *)
StrandedOnlyByStop ==
    [][NoStrandedWaiter /\ ~NoStrandedWaiter'
         => \E t \in TokenCallers :
              StopRequested(t) /\ pc[t] \in CallPCs /\ pc'[t] = "outside"]_vars

(* A stop request whose callback has run leaves no caller asleep on it.    *)
StopWakesCaller == \A t \in Callers : ~(pc[t] = "blocked" /\ stop[t] = "delivered")

(* A wait that ends in a timeout ends with the pool exhausted: a           *)
(* connection that comes back as the deadline passes is not refused.       *)
TimeoutMeansExhausted ==
    [][\A t \in Callers : pc[t] = "timedout" /\ pc'[t] = "outside" /\ ~StopRequested(t)
          => Claimable <= 0]_vars

(* Every acquisition ends, with a lease or without, even if no lease is    *)
(* ever released.                                                          *)
CallReturns == \A t \in Callers : pc[t] \in CallPCs ~> pc[t] \notin CallPCs

(* The pool is the abstract pool: the counter, the mutex, the waits, the   *)
(* timeouts and the stop tokens implement it.                              *)
Leased(t) == IF pc[t] \in {"leased", "returning"} THEN held[t] ELSE {}
Doomed(t) == IF pc[t] \in {"discarding", "draining"} THEN held[t] ELSE {}
Abstract == INSTANCE LeasePool WITH
    idle <- Range(idle_connections_),
    leased <- [t \in Callers |-> Leased(t)],
    broken <- {c \in Conns : conn[c] = "broken"},
    opening <- Openers,
    doomed <- [t \in Callers |-> Doomed(t)],
    closed <- closed_
ImplementsLeasePool == Abstract!Spec
=============================================================================
