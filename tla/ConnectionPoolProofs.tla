------------------------ MODULE ConnectionPoolProofs ------------------------
(***************************************************************************)
(* Proofs about ConnectionPool, for every number of callers, connections   *)
(* and every PoolConfig.                                                   *)
(*                                                                         *)
(* Most steps of the pool only move a caller along its code: they are      *)
(* "quiet", and one lemma deals with them.  Nine steps touch the stack,    *)
(* the counter or a connection; each has a lemma of its own.               *)
(***************************************************************************)
EXTENDS ConnectionPool, FiniteSetTheorems, SequenceTheorems, TLAPS

(* What a caller owns follows from where it is. *)
HeldShape == \A t \in Callers :
    /\ pc[t] \in {"leased", "returning", "discarding"} => \E c \in Conns : held[t] = {c}
    /\ pc[t] \notin {"leased", "returning", "discarding", "draining"} => held[t] = {}

(* Only a closed pool discards connections, and it keeps none.             *)
ClosedShape ==
    /\ closed_ => idle_connections_ = << >>
    /\ ~closed_ => \A t \in Callers : pc[t] \notin {"discarding", "draining"}

(* Until close(), the counter is the number of physical connections that   *)
(* exist or are being opened.                                              *)
CountsConnections ==
    ~closed_ => total_connections_ = Cardinality(Existing) + Cardinality(Openers)

(* The inductive invariant. *)
IInv ==
    /\ TypeOK
    /\ Accounting
    /\ ExclusiveOwner
    /\ HeldShape
    /\ ClosedShape
    /\ CountsConnections
    /\ HardBound

-----------------------------------------------------------------------------
(* Facts about the constants and about finite sets *)

(* The constructor's clamping leaves a usable configuration: at least one  *)
(* connection, and the minimum within the maximum.                         *)
LEMMA Limits == MaxConns \in Nat /\ MinConns \in Nat /\ MinConns <= MaxConns /\ MaxConns > 0
BY ConfigAssumption DEF MaxConns, MinConns

(* Every set of callers or of connections can be counted. *)
LEMMA Countable ==
  ASSUME NEW S, S \subseteq Callers \/ S \subseteq Conns
  PROVE  IsFiniteSet(S) /\ Cardinality(S) \in Nat
BY ConfigAssumption, FS_Subset, FS_CardinalityType

(* One more, one less. *)
LEMMA AddOne ==
  ASSUME NEW S, NEW x, x \notin S,
         S \subseteq Callers \/ S \subseteq Conns
  PROVE  Cardinality(S \cup {x}) = Cardinality(S) + 1
BY Countable, FS_AddElement

(* One less.                                                               *)
LEMMA RemoveOne ==
  ASSUME NEW S, NEW x \in S,
         S \subseteq Callers \/ S \subseteq Conns
  PROVE  Cardinality(S \ {x}) = Cardinality(S) - 1 /\ Cardinality(S) > 0
<1>1. Cardinality(S \ {x}) = Cardinality(S) - 1
  BY Countable, FS_RemoveElement
<1>2. S \ {x} \subseteq Callers \/ S \ {x} \subseteq Conns
  OBVIOUS
<1>3. Cardinality(S \ {x}) \in Nat /\ Cardinality(S) \in Nat
  BY <1>2, Countable
<1> QED
  BY <1>1, <1>3

-----------------------------------------------------------------------------
(* Waking *)

(* q is p with some blocked callers woken. *)
Rouses(p, q) ==
    /\ q \in [Callers -> PCs]
    /\ \A t \in Callers : q[t] = p[t] \/ (p[t] = "blocked" /\ q[t] = "woken")

(* notify_all moves only blocked callers, and only to woken.               *)
LEMMA WakeAllRouses ==
  ASSUME NEW p \in [Callers -> PCs]
  PROVE  Rouses(p, WakeAll(p))
BY DEF Rouses, WakeAll, PCs, CallPCs, LockedPCs

(* notify_one moves at most one blocked caller, to woken.                  *)
LEMMA WakeOneRouses ==
  ASSUME NEW p \in [Callers -> PCs], NEW q \in WakeOne(p)
  PROVE  Rouses(p, q)
BY DEF Rouses, WakeOne, PCs, CallPCs, LockedPCs

(* Caller t goes to point x, and some blocked callers are woken.           *)
Moves(t, x) ==
    /\ pc' \in [Callers -> PCs]
    /\ pc'[t] = x
    /\ \A u \in Callers :
          u # t => pc'[u] = pc[u] \/ (pc[u] = "blocked" /\ pc'[u] = "woken")

(* A step that moves caller t and then notifies disturbs the others only   *)
(* by waking them.                                                         *)
LEMMA RousesMoves ==
  ASSUME TypeOK, NEW t \in Callers, NEW x \in PCs, x # "blocked",
         Rouses([pc EXCEPT ![t] = x], pc')
  PROVE  Moves(t, x)
BY DEF Rouses, Moves, TypeOK

(* The same after a notify_one.                                            *)
LEMMA WakeOneMoves ==
  ASSUME TypeOK, NEW t \in Callers, NEW x \in PCs, x # "blocked",
         pc' \in WakeOne([pc EXCEPT ![t] = x])
  PROVE  Moves(t, x)
<1>1. [pc EXCEPT ![t] = x] \in [Callers -> PCs]
  BY DEF TypeOK
<1> QED
  BY <1>1, WakeOneRouses, RousesMoves

(* The same after a notify_all.                                            *)
LEMMA WakeAllMoves ==
  ASSUME TypeOK, NEW t \in Callers, NEW x \in PCs, x # "blocked",
         pc' = WakeAll([pc EXCEPT ![t] = x])
  PROVE  Moves(t, x)
<1>1. [pc EXCEPT ![t] = x] \in [Callers -> PCs]
  BY DEF TypeOK
<1> QED
  BY <1>1, WakeAllRouses, RousesMoves

(* A caller that stops owning a slot.                                      *)
LEMMA LeaveSlot ==
  ASSUME TypeOK, NEW t \in Callers, pc[t] \in SlotPCs,
         NEW x \in {"outside", "discarding"}, Moves(t, x)
  PROVE  /\ SlotHolders' = SlotHolders \ {t}
         /\ Cardinality(SlotHolders') = Cardinality(SlotHolders) - 1
         /\ Cardinality(SlotHolders) > 0
<1>1. SlotHolders' = SlotHolders \ {t} /\ t \in SlotHolders
  BY DEF SlotHolders, SlotPCs, Moves, TypeOK
<1> QED
  BY <1>1, RemoveOne DEF SlotHolders

-----------------------------------------------------------------------------
(* The initial state *)

(* The pool that initialize() leaves satisfies the invariant.              *)
LEMMA InitIInv == Init => IInv
<1> SUFFICES ASSUME Init PROVE IInv
  OBVIOUS
<1> USE DEF Init
<1>1. /\ idle_connections_ \in [1 .. MinConns -> Conns]
      /\ IsInjective(idle_connections_)
  OBVIOUS
<1>2. /\ idle_connections_ \in Seq(Conns)
      /\ Len(idle_connections_) = MinConns
  BY <1>1, Limits, IsASeq, LenProperties
<1>3. TypeOK
  <2>1. total_connections_ \in 0 .. MaxConns
    BY Limits
  <2>2. conn \in [Conns -> {"none", "open", "broken"}]
    OBVIOUS
  <2>3. pc \in [Callers -> PCs] /\ result \in [Callers -> Results]
    BY DEF PCs, Results
  <2> QED
    BY <1>2, <2>1, <2>2, <2>3 DEF TypeOK
<1>4. SlotHolders = {} /\ Openers = {}
  BY DEF SlotHolders, SlotPCs, Openers
<1>5. Existing = Range(idle_connections_)
  BY <1>1 DEF Existing, Range
<1>6. Cardinality(Existing) = MinConns
  <2>1. idle_connections_ \in Bijection(1 .. MinConns, Existing)
    BY <1>1, <1>5 DEF Bijection, Injection, Surjection, IsInjective, Range
  <2>2. IsFiniteSet(1 .. MinConns) /\ Cardinality(1 .. MinConns) = MinConns
    BY Limits, FS_Interval
  <2> QED
    BY <2>1, <2>2, FS_Bijection DEF ExistsBijection
<1>7. Cardinality({}) = 0
  BY FS_EmptySet
<1>8. Accounting /\ CountsConnections /\ HardBound
  BY <1>2, <1>4, <1>6, <1>7, Limits DEF Accounting, CountsConnections, HardBound
<1>9. ExclusiveOwner
  BY <1>1 DEF ExclusiveOwner
<1>10. HeldShape /\ ClosedShape
  BY DEF HeldShape, ClosedShape
<1> QED
  BY <1>3, <1>8, <1>9, <1>10 DEF IInv

-----------------------------------------------------------------------------
(* Quiet steps *)

(* Where a caller owns nothing and is counted nowhere.                     *)
Light == (CallPCs \ SlotPCs) \cup {"outside"}

Quiet ==
    /\ TypeOK'
    /\ UNCHANGED <<idle_connections_, total_connections_, closed_, conn, held>>
    /\ \A t \in Callers :
          \/ pc'[t] = pc[t]
          \/ pc[t] \in Light /\ pc'[t] \in Light
          \/ pc[t] = "creating" /\ pc'[t] = "undoing"
          \/ pc[t] = "leased" /\ pc'[t] = "returning"

(* A step that touches neither the pool nor who owns a slot keeps the      *)
(* invariant.                                                              *)
LEMMA QuietIInv == IInv /\ Quiet => IInv'
<1> SUFFICES ASSUME IInv, Quiet PROVE IInv'
  OBVIOUS
<1> USE DEF Quiet, Light, CallPCs, LockedPCs, SlotPCs
<1>1. SlotHolders' = SlotHolders /\ Openers' = Openers /\ Existing' = Existing
  BY DEF SlotHolders, Openers, Existing
<1>2. Accounting' /\ HardBound' /\ CountsConnections'
  BY <1>1 DEF IInv, Accounting, HardBound, CountsConnections
<1>3. ExclusiveOwner'
  BY <1>1 DEF IInv, ExclusiveOwner
<1>4. HeldShape' /\ ClosedShape'
  BY DEF IInv, HeldShape, ClosedShape
<1> QED
  BY <1>2, <1>3, <1>4 DEF IInv

(* Entering acquire, or being refused at its first test, is quiet.         *)
LEMMA EnterQuiet == ASSUME IInv, NEW t \in Callers, Enter(t) PROVE Quiet
<1>1. PICK k \in {"acquire", "try_acquire"},
           s \in IF t \in TokenCallers THEN {"armed", "requested"} ELSE {"none"} :
          /\ kind' = [kind EXCEPT ![t] = k]
          /\ IF s = "requested"
             THEN Return(t, "cancelled", "outside")
             ELSE /\ pc' = [pc EXCEPT ![t] = "entered"]
                  /\ stop' = [stop EXCEPT ![t] = s]
                  /\ result' = [result EXCEPT ![t] = "none"]
  BY DEF Enter
<1>2. PICK p \in {"outside", "entered"}, q \in {"none", "armed"}, r \in {"cancelled", "none"} :
          /\ pc' = [pc EXCEPT ![t] = p] /\ stop' = [stop EXCEPT ![t] = q]
          /\ result' = [result EXCEPT ![t] = r]
  BY <1>1 DEF Return
<1>3. pc[t] = "outside" /\ UNCHANGED <<mutex_, idle_connections_, total_connections_, closed_, conn, held>>
  BY DEF Enter
<1>4. kind' \in [Callers -> {"acquire", "try_acquire"}]
  BY <1>1 DEF IInv, TypeOK
<1>5. /\ pc' \in [Callers -> PCs] /\ result' \in [Callers -> Results]
      /\ stop' \in [Callers -> {"none", "armed", "requested", "delivered"}]
  BY <1>2 DEF IInv, TypeOK, PCs, CallPCs, LockedPCs, SlotPCs, Results
<1>6. TypeOK'
  BY <1>3, <1>4, <1>5 DEF IInv, TypeOK
<1>7. \A u \in Callers : pc'[u] = pc[u] \/ (pc[u] \in Light /\ pc'[u] \in Light)
  BY <1>2, <1>3 DEF IInv, TypeOK, Light, CallPCs, LockedPCs, SlotPCs
<1> QED
  BY <1>3, <1>6, <1>7 DEF Quiet

(* Registering the stop callback is quiet, also when it runs at once and   *)
(* wakes every waiter.                                                     *)
LEMMA RegisterQuiet == ASSUME IInv, NEW t \in Callers, Register(t) PROVE Quiet
<1> USE DEF IInv, TypeOK, PCs, CallPCs, LockedPCs, SlotPCs, Light
<1>1. CASE stop[t] = "requested"
  <2> DEFINE p == [pc EXCEPT ![t] = "locking"]
  <2>1. p \in [Callers -> PCs]
    OBVIOUS
  <2>2. Rouses(p, pc')
    BY <1>1, <2>1, WakeAllRouses DEF Register
  <2>3. stop' \in [Callers -> {"none", "armed", "requested", "delivered"}]
    BY <1>1 DEF Register
  <2>4. UNCHANGED <<mutex_, idle_connections_, total_connections_, closed_, conn,
                    kind, held, result>>
    BY DEF Register
  <2>5. TypeOK'
    BY <2>2, <2>3, <2>4 DEF Rouses
  <2>6. \A u \in Callers : pc'[u] = pc[u] \/ (pc[u] \in Light /\ pc'[u] \in Light)
    BY <2>1, <2>2 DEF Rouses, Register
  <2> QED
    BY <2>4, <2>5, <2>6 DEF Quiet
<1>2. CASE stop[t] # "requested"
  BY <1>2 DEF Register, Quiet
<1> QED
  BY <1>1, <1>2

(* Taking mutex_ and the closed_ test are quiet.                           *)
LEMMA LockQuiet == ASSUME IInv, NEW t \in Callers, Lock(t) PROVE Quiet
<1> USE DEF IInv, TypeOK, PCs, CallPCs, LockedPCs, SlotPCs, Light, Results
<1> QED
  BY DEF Lock, Return, Outcome, Quiet

(* The turns of wait_for are quiet, those of its deadline and of spurious  *)
(* wakeups included.                                                       *)
LEMMA WaitStepsQuiet ==
  ASSUME IInv, NEW t \in Callers,
         Test(t) \/ Park(t) \/ Expire(t) \/ SpuriousWake(t) \/ Relock(t) \/ Recheck(t)
  PROVE  Quiet
<1> USE DEF IInv, TypeOK, PCs, CallPCs, LockedPCs, SlotPCs, Light
<1>1. CASE Test(t)
  BY <1>1 DEF Test, Quiet
<1>2. CASE Park(t)
  BY <1>2 DEF Park, Quiet
<1>3. CASE Expire(t) \/ SpuriousWake(t)
  BY <1>3 DEF Expire, SpuriousWake, Quiet
<1>4. CASE Relock(t)
  BY <1>4 DEF Relock, Quiet
<1>5. CASE Recheck(t)
  BY <1>5 DEF Recheck, Quiet
<1> QED
  BY <1>1, <1>2, <1>3, <1>4, <1>5

(* Every way out of the wait that takes nothing.                           *)
LEMMA GiveUpQuiet ==
  ASSUME IInv, NEW t \in Callers, Decide(t), NEW r \in Results, GiveUp(t, r)
  PROVE  Quiet
<1> USE DEF IInv, TypeOK, PCs, CallPCs, LockedPCs, SlotPCs, Light
<1> QED
  BY DEF Decide, GiveUp, Return, Quiet

(* A stop request and its callback are quiet.                              *)
LEMMA StopQuiet ==
  ASSUME IInv, NEW t \in Callers, RequestStop(t) \/ StopCallback(t)
  PROVE  Quiet
<1> USE DEF IInv, TypeOK, PCs, CallPCs, LockedPCs, SlotPCs, Light
<1>1. CASE RequestStop(t)
  BY <1>1 DEF RequestStop, Quiet
<1>2. CASE StopCallback(t)
  <2>1. Rouses(pc, pc')
    BY <1>2, WakeAllRouses DEF StopCallback
  <2> QED
    BY <1>2, <2>1 DEF StopCallback, Quiet, Rouses
<1> QED
  BY <1>1, <1>2

(* A failed open and the start of a return are quiet: the slot is still    *)
(* owned.                                                                  *)
LEMMA LeaseStepsQuiet ==
  ASSUME IInv, NEW t \in Callers, OpenThrows(t) \/ Release(t)
  PROVE  Quiet
<1> USE DEF IInv, TypeOK, PCs, CallPCs, LockedPCs, SlotPCs, Light
<1>1. CASE OpenThrows(t)
  BY <1>1 DEF OpenThrows, Quiet
<1>2. CASE Release(t)
  BY <1>2 DEF Release, Quiet
<1> QED
  BY <1>1, <1>2

-----------------------------------------------------------------------------
(* The idle stack: what pop_back and push_back do to an injective sequence *)

(* pop_back removes exactly the connection that was at the back.           *)
LEMMA PopBack ==
  ASSUME NEW s \in Seq(Conns), s # << >>, IsInjective(s),
         NEW n, n = Len(s), NEW r, r = SubSeq(s, 1, n - 1)
  PROVE  /\ r \in Seq(Conns) /\ Len(r) = n - 1 /\ n >= 1
         /\ IsInjective(r)
         /\ s[n] \in Conns
         /\ Range(r) = Range(s) \ {s[n]}
         /\ s[n] \in Range(s)
<1>1. n \in Nat \ {0} /\ DOMAIN s = 1 .. n /\ \A i \in 1 .. n : s[i] \in Conns
  BY EmptySeq, LenProperties, ElementOfSeq
<1>2. /\ r \in Seq(Conns) /\ Len(r) = n - 1
      /\ DOMAIN r = 1 .. n - 1
      /\ \A i \in 1 .. n - 1 : r[i] = s[i]
  BY <1>1, SubSeqProperties, LenProperties
<1>3. IsInjective(r)
  BY <1>1, <1>2 DEF IsInjective
<1>4. /\ 1 .. n = (1 .. n - 1) \cup {n}
      /\ \A i \in 1 .. n - 1 : s[i] # s[n]
  BY <1>1 DEF IsInjective
<1>5. \A x : x \in Range(r) <=> \E i \in 1 .. n - 1 : s[i] = x
  BY <1>2 DEF Range
<1>6. \A x : x \in Range(s) <=> \E i \in 1 .. n : s[i] = x
  BY <1>1 DEF Range
<1>7. \A x : x \in Range(r) <=> x \in Range(s) /\ x # s[n]
  BY <1>4, <1>5, <1>6
<1>8. Range(r) = Range(s) \ {s[n]}
  BY <1>7
<1> QED
  BY <1>1, <1>2, <1>3, <1>6, <1>8

(* push_back of a connection that is not idle adds exactly that            *)
(* connection.                                                             *)
LEMMA PushBack ==
  ASSUME NEW s \in Seq(Conns), IsInjective(s), NEW c \in Conns, c \notin Range(s),
         NEW r, r = Append(s, c)
  PROVE  /\ r \in Seq(Conns) /\ Len(r) = Len(s) + 1
         /\ IsInjective(r)
         /\ Range(r) = Range(s) \cup {c}
<1> DEFINE n == Len(s)
<1>1. n \in Nat /\ DOMAIN s = 1 .. n
  BY LenProperties
<1>2. /\ r \in Seq(Conns) /\ Len(r) = n + 1
      /\ DOMAIN r = 1 .. n + 1
      /\ \A i \in 1 .. n : r[i] = s[i]
      /\ r[n + 1] = c
  BY <1>1, AppendProperties, LenProperties
<1>3. \A i \in 1 .. n : s[i] # c
  BY <1>1 DEF Range
<1>4. IsInjective(r)
  BY <1>1, <1>2, <1>3 DEF IsInjective
<1>5. Range(r) = Range(s) \cup {c}
  <2>1. 1 .. n + 1 = (1 .. n) \cup {n + 1}
    BY <1>1
  <2> QED
    BY <1>1, <1>2, <2>1 DEF Range
<1> QED
  BY <1>2, <1>4, <1>5

-----------------------------------------------------------------------------
(* Steps of an acquisition *)

(* Taking an idle connection moves one owner to another and the counter    *)
(* stays.                                                                  *)
LEMMA TakeIdleIInv ==
  ASSUME IInv, NEW t \in Callers, Decide(t), ~closed_, idle_connections_ # << >>,
         pc[t] = "granted", TakeIdle(t)
  PROVE  IInv'
<1> DEFINE n == Len(idle_connections_)
           c == idle_connections_[n]
<1> USE DEF IInv
<1>1. /\ idle_connections_' \in Seq(Conns) /\ Len(idle_connections_') = n - 1 /\ n >= 1
      /\ IsInjective(idle_connections_')
      /\ c \in Conns
      /\ Range(idle_connections_') = Range(idle_connections_) \ {c}
      /\ c \in Range(idle_connections_)
  BY PopBack DEF TakeIdle, TypeOK, ExclusiveOwner
<1>2. /\ held' = [held EXCEPT ![t] = {c}]
      /\ pc' = [pc EXCEPT ![t] = "leased"]
      /\ UNCHANGED <<total_connections_, closed_, conn>>
  BY DEF TakeIdle, Return, Decide
<1>3. held[t] = {}
  BY DEF HeldShape
<1> HIDE DEF c, n
<1>4. TypeOK'
  <2>1. result' \in [Callers -> Results] /\ stop' \in [Callers -> {"none", "armed", "requested", "delivered"}]
    BY DEF TakeIdle, Return, TypeOK, Results
  <2>2. mutex_' \in Callers \cup {Free} /\ kind' = kind
    BY DEF Decide
  <2>3. pc' \in [Callers -> PCs] /\ held' \in [Callers -> SUBSET Conns]
    BY <1>1, <1>2 DEF TypeOK, PCs, SlotPCs
  <2> QED
    BY <1>1, <1>2, <2>1, <2>2, <2>3 DEF TypeOK
<1>5. SlotHolders' = SlotHolders \cup {t} /\ t \notin SlotHolders
  BY <1>2 DEF SlotHolders, SlotPCs, TypeOK
<1>6. Openers' = Openers /\ Existing' = Existing
  BY <1>2 DEF Openers, Existing, TypeOK
<1>7. Accounting'
  <2>1. Cardinality(SlotHolders') = Cardinality(SlotHolders) + 1
    BY <1>5, AddOne DEF SlotHolders
  <2>2. Cardinality(SlotHolders) \in Nat
    BY Countable DEF SlotHolders
  <2>3. n \in Nat
    BY LenProperties DEF TypeOK, n
  <2> QED
    BY <1>1, <1>2, <2>1, <2>2, <2>3 DEF Accounting, n
<1>8. ExclusiveOwner'
  <2>1. held' \in [Callers -> SUBSET Conns] /\ held'[t] = {c}
        /\ \A u \in Callers : u # t => held'[u] = held[u]
    BY <1>2, <1>4 DEF TypeOK
  <2>2. \A u \in Callers : u # t => c \notin held[u]
    BY <1>1 DEF ExclusiveOwner
  <2>3. \A u \in Callers : held'[u] \cap Range(idle_connections_') = {}
    BY <1>1, <2>1, <2>2 DEF ExclusiveOwner
  <2>4. \A u, v \in Callers : u # v => held'[u] \cap held'[v] = {}
    BY <2>1, <2>2 DEF ExclusiveOwner
  <2>5. \A d \in Conns :
          d \in Range(idle_connections_) \/ (\E u \in Callers : d \in held[u])
          <=> d \in Range(idle_connections_') \/ (\E u \in Callers : d \in held'[u])
    BY <1>1, <1>3, <2>1
  <2> QED
    BY <1>1, <1>2, <2>3, <2>4, <2>5 DEF ExclusiveOwner
<1>9. HeldShape' /\ ClosedShape'
  BY <1>1, <1>2 DEF HeldShape, ClosedShape, TypeOK
<1>10. HardBound' /\ CountsConnections'
  BY <1>2, <1>6 DEF HardBound, CountsConnections
<1> QED
  BY <1>4, <1>7, <1>8, <1>9, <1>10

(* Reserving a slot counts the caller that opens a connection for it.      *)
LEMMA ReserveIInv ==
  ASSUME IInv, NEW t \in Callers, Decide(t), ~closed_, pc[t] = "granted",
         Room, Reserve(t)
  PROVE  IInv'
<1> USE DEF IInv
<1>1. /\ total_connections_' = total_connections_ + 1
      /\ pc' = [pc EXCEPT ![t] = "creating"]
      /\ UNCHANGED <<idle_connections_, closed_, conn, kind, stop, held, result>>
      /\ mutex_' = Free
  BY DEF Reserve, Decide
<1>2. TypeOK'
  BY <1>1, Limits DEF TypeOK, PCs, SlotPCs, Room
<1>3. /\ SlotHolders' = SlotHolders \cup {t} /\ t \notin SlotHolders
      /\ Openers' = Openers \cup {t} /\ t \notin Openers
      /\ Existing' = Existing
  BY <1>1 DEF SlotHolders, SlotPCs, Openers, Existing, TypeOK
<1>4. /\ Cardinality(SlotHolders') = Cardinality(SlotHolders) + 1
      /\ Cardinality(Openers') = Cardinality(Openers) + 1
  BY <1>3, AddOne DEF SlotHolders, Openers
<1>5. /\ Cardinality(SlotHolders) \in Nat /\ Cardinality(Openers) \in Nat
      /\ Cardinality(Existing) \in Nat
      /\ Len(idle_connections_) \in Nat
      /\ total_connections_ \in Nat
  BY Countable, LenProperties DEF SlotHolders, Openers, Existing, TypeOK
<1>6. Accounting'
  BY <1>1, <1>4, <1>5 DEF Accounting
<1>7. HardBound' /\ CountsConnections'
  BY <1>1, <1>3, <1>4, <1>5, Limits DEF HardBound, CountsConnections, Room
<1>8. ExclusiveOwner'
  BY <1>1, <1>3 DEF ExclusiveOwner
<1>9. HeldShape' /\ ClosedShape'
  BY <1>1 DEF HeldShape, ClosedShape, TypeOK
<1> QED
  BY <1>2, <1>6, <1>7, <1>8, <1>9

(* A connection that was opened takes the place of its reservation.        *)
LEMMA OpenedIInv == ASSUME IInv, NEW t \in Callers, Opened(t) PROVE IInv'
<1> USE DEF IInv
<1>1. PICK c \in Conns :
        /\ conn[c] = "none"
        /\ conn' = [conn EXCEPT ![c] = "open"]
        /\ held' = [held EXCEPT ![t] = {c}]
  BY DEF Opened
<1>2. /\ pc[t] = "creating"
      /\ pc' = [pc EXCEPT ![t] = "leased"]
      /\ UNCHANGED <<idle_connections_, total_connections_, closed_>>
  BY DEF Opened, Return
<1>3. TypeOK'
  <2>1. result' \in [Callers -> Results] /\ stop' \in [Callers -> {"none", "armed", "requested", "delivered"}]
    BY DEF Opened, Return, TypeOK, Results
  <2>2. mutex_' = mutex_ /\ kind' = kind
    BY DEF Opened
  <2>3. pc' \in [Callers -> PCs] /\ held' \in [Callers -> SUBSET Conns]
    BY <1>1, <1>2 DEF TypeOK, PCs, SlotPCs
  <2> QED
    BY <1>1, <1>2, <2>1, <2>2, <2>3 DEF TypeOK
<1>4. /\ SlotHolders' = SlotHolders
      /\ Openers' = Openers \ {t} /\ t \in Openers
      /\ Existing' = Existing \cup {c} /\ c \notin Existing
  BY <1>1, <1>2 DEF SlotHolders, SlotPCs, Openers, Existing, TypeOK
<1>5. /\ Cardinality(Openers') = Cardinality(Openers) - 1
      /\ Cardinality(Existing') = Cardinality(Existing) + 1
  BY <1>4, AddOne, RemoveOne DEF Openers, Existing
<1>6. /\ Cardinality(Openers) \in Nat /\ Cardinality(Existing) \in Nat
  BY Countable DEF Openers, Existing
<1>7. Accounting' /\ HardBound' /\ CountsConnections'
  BY <1>2, <1>4, <1>5, <1>6 DEF Accounting, HardBound, CountsConnections
<1>8. held[t] = {}
  BY <1>2 DEF HeldShape
<1>9. ExclusiveOwner'
  <2>1. held'[t] = {c} /\ \A u \in Callers : u # t => held'[u] = held[u]
    BY <1>1 DEF TypeOK
  <2>2. c \notin Range(idle_connections_) /\ \A u \in Callers : c \notin held[u]
    BY <1>1 DEF ExclusiveOwner
  <2>3. conn'[c] # "none" /\ \A d \in Conns : d # c => conn'[d] = conn[d]
    BY <1>1 DEF TypeOK
  <2>4. \A d \in Conns : conn'[d] # "none" <=>
          d \in Range(idle_connections_') \/ \E u \in Callers : d \in held'[u]
    BY <1>2, <1>8, <2>1, <2>2, <2>3 DEF ExclusiveOwner
  <2> QED
    BY <1>2, <2>1, <2>2, <2>4 DEF ExclusiveOwner
<1>10. HeldShape' /\ ClosedShape'
  BY <1>1, <1>2 DEF HeldShape, ClosedShape, TypeOK
<1> QED
  BY <1>3, <1>7, <1>9, <1>10

(* The catch block gives back exactly the slot that was reserved.          *)
LEMMA UndoIInv == ASSUME IInv, NEW t \in Callers, Undo(t) PROVE IInv'
<1> USE DEF IInv
<1>1. /\ pc[t] = "undoing"
      /\ total_connections_' = total_connections_ - 1
      /\ UNCHANGED <<mutex_, kind, idle_connections_, closed_, conn, held>>
  BY DEF Undo
<1>2. Moves(t, "outside")
  BY WakeOneMoves DEF Undo, PCs
<1>3. /\ Cardinality(SlotHolders') = Cardinality(SlotHolders) - 1
      /\ Cardinality(SlotHolders) > 0
  BY <1>1, <1>2, LeaveSlot DEF SlotPCs
<1>4. Openers' = Openers \ {t} /\ t \in Openers /\ Existing' = Existing
  BY <1>1, <1>2 DEF Openers, Existing, Moves, TypeOK
<1>5. Cardinality(Openers') = Cardinality(Openers) - 1
  BY <1>4, RemoveOne DEF Openers
<1>6. /\ Cardinality(Openers) \in Nat /\ Cardinality(Existing) \in Nat
      /\ Cardinality(SlotHolders) \in Nat /\ Len(idle_connections_) \in Nat
  BY Countable, LenProperties DEF Openers, Existing, SlotHolders, TypeOK
<1>7. Accounting' /\ HardBound' /\ CountsConnections'
  <2>1. Accounting'
    BY <1>1, <1>3, <1>6 DEF Accounting
  <2>2. HardBound'
    BY <1>4, <1>5, <1>6, Limits DEF HardBound
  <2>3. CountsConnections'
    BY <1>1, <1>4, <1>5, <1>6 DEF CountsConnections
  <2> QED
    BY <2>1, <2>2, <2>3
<1>8. TypeOK'
  <2>1. result' \in [Callers -> Results] /\ stop' \in [Callers -> {"none", "armed", "requested", "delivered"}]
    BY DEF Undo, TypeOK, Results
  <2>2. total_connections_' \in 0 .. MaxConns
    BY <1>1, <1>3, <1>6, Limits DEF Accounting, TypeOK
  <2> QED
    BY <1>1, <1>2, <2>1, <2>2 DEF TypeOK, Moves
<1>9. ExclusiveOwner'
  BY <1>1 DEF ExclusiveOwner
<1>10. HeldShape' /\ ClosedShape'
  BY <1>1, <1>2 DEF HeldShape, ClosedShape, TypeOK, Moves
<1> QED
  BY <1>7, <1>8, <1>9, <1>10

-----------------------------------------------------------------------------
(* Steps of a lease, and close() *)

(* A connection that dies keeps its owner and its place in the counter.    *)
LEMMA BreakIInv == ASSUME IInv, NEW t \in Callers, Break(t) PROVE IInv'
<1> USE DEF IInv
<1>1. PICK c \in Range(idle_connections_) \cup held[t] :
          conn[c] = "open" /\ conn' = [conn EXCEPT ![c] = "broken"]
  BY DEF Break
<1>2. UNCHANGED <<mutex_, idle_connections_, total_connections_, closed_,
                  pc, kind, stop, held, result>>
  BY DEF Break
<1>a. c \in Conns
  BY <1>1 DEF TypeOK, Range
<1>3. TypeOK' /\ c \in Conns
  BY <1>a, <1>1, <1>2 DEF TypeOK
<1>4. \A d \in Conns : conn'[d] # "none" <=> conn[d] # "none"
  BY <1>1, <1>3 DEF TypeOK
<1>5. Existing' = Existing /\ Openers' = Openers /\ SlotHolders' = SlotHolders
  BY <1>2, <1>4 DEF Existing, Openers, SlotHolders
<1>6. Accounting' /\ HardBound' /\ CountsConnections'
  BY <1>2, <1>5 DEF Accounting, HardBound, CountsConnections
<1>7. ExclusiveOwner' /\ HeldShape' /\ ClosedShape'
  BY <1>2, <1>4 DEF ExclusiveOwner, HeldShape, ClosedShape
<1> QED
  BY <1>3, <1>6, <1>7

(* return_connection makes the connection idle, or gives up the connection *)
(* and its slot together.                                                  *)
LEMMA ReturnIInv == ASSUME IInv, NEW t \in Callers, ReturnConnection(t) PROVE IInv'
<1> USE DEF IInv
<1>1. pc[t] = "returning" /\ UNCHANGED <<mutex_, closed_, kind, stop, result>>
  BY DEF ReturnConnection
<1>2. PICK c \in Conns : held[t] = {c}
  BY <1>1 DEF HeldShape
<1>3. /\ conn[c] # "none"
      /\ c \notin Range(idle_connections_)
      /\ \A u \in Callers : u # t => c \notin held[u]
  BY <1>2 DEF ExclusiveOwner
<1>4. /\ Cardinality(Openers) \in Nat /\ Cardinality(Existing) \in Nat
      /\ Cardinality(SlotHolders) \in Nat /\ Len(idle_connections_) \in Nat
  BY Countable, LenProperties DEF Openers, Existing, SlotHolders, TypeOK
<1>5. ASSUME NEW x \in {"outside", "discarding"}, Moves(t, x)
      PROVE  /\ Cardinality(SlotHolders') = Cardinality(SlotHolders) - 1
             /\ Cardinality(SlotHolders) > 0
             /\ Openers' = Openers
  <2>1. Openers' = Openers
    BY <1>1, <1>5 DEF Openers, Moves, TypeOK
  <2> QED
    BY <1>1, <1>5, <2>1, LeaveSlot DEF SlotPCs
(* A healthy connection of a closed pool leaves the books, then is closed. *)
<1>6. CASE closed_ /\ conn[c] = "open"
  <2>1. /\ total_connections_' = total_connections_ - 1
        /\ UNCHANGED <<idle_connections_, conn, held>>
        /\ pc' \in WakeOne([pc EXCEPT ![t] = "discarding"])
    BY <1>2, <1>6 DEF ReturnConnection, Refused
  <2>2. Moves(t, "discarding")
    BY <2>1, WakeOneMoves DEF PCs
  <2>3. Accounting' /\ Existing' = Existing /\ total_connections_' \in 0 .. MaxConns
    BY <1>4, <1>5, <2>1, <2>2, Limits DEF Accounting, Existing, TypeOK
  <2>4. TypeOK'
    BY <1>1, <2>1, <2>2, <2>3 DEF TypeOK, Moves
  <2>5. HardBound' /\ CountsConnections'
    BY <1>1, <1>5, <1>6, <2>2, <2>3 DEF HardBound, CountsConnections
  <2>6. ExclusiveOwner'
    BY <2>1 DEF ExclusiveOwner
  <2>7. HeldShape' /\ ClosedShape'
    BY <1>1, <1>2, <1>6, <2>1, <2>2 DEF HeldShape, ClosedShape, Moves
  <2> QED
    BY <2>3, <2>4, <2>5, <2>6, <2>7
(* A dead connection is destroyed with its unique_ptr.                     *)
<1>7. CASE conn[c] # "open"
  <2>1. /\ total_connections_' = total_connections_ - 1
        /\ UNCHANGED idle_connections_
        /\ conn' = [conn EXCEPT ![c] = "none"]
        /\ held' = [held EXCEPT ![t] = {}]
        /\ pc' \in WakeOne([pc EXCEPT ![t] = "outside"])
    BY <1>2, <1>7 DEF ReturnConnection, Refused
  <2>2. Moves(t, "outside")
    BY <2>1, WakeOneMoves DEF PCs
  <2>3. Accounting' /\ total_connections_' \in 0 .. MaxConns
    BY <1>4, <1>5, <2>1, <2>2, Limits DEF Accounting, TypeOK
  <2>4. TypeOK'
    BY <1>1, <2>1, <2>2, <2>3 DEF TypeOK, Moves
  <2>5. Existing' = Existing \ {c} /\ c \in Existing
    BY <1>3, <2>1 DEF Existing, TypeOK
  <2>6. Cardinality(Existing') = Cardinality(Existing) - 1
    BY <2>5, RemoveOne DEF Existing
  <2>7. HardBound' /\ CountsConnections'
    <3>1. Openers' = Openers
      BY <1>5, <2>2
    <3>2. HardBound'
      BY <1>4, <2>6, <3>1, Limits DEF HardBound
    <3>3. CountsConnections'
      BY <1>1, <1>4, <2>1, <2>6, <3>1 DEF CountsConnections
    <3> QED
      BY <3>2, <3>3
  <2>8. ExclusiveOwner'
    <3>1. held'[t] = {} /\ \A u \in Callers : u # t => held'[u] = held[u]
      BY <2>1 DEF TypeOK
    <3>2. conn'[c] = "none" /\ \A d \in Conns : d # c => conn'[d] = conn[d]
      BY <2>1 DEF TypeOK
    <3>3. \A d \in Conns : conn'[d] # "none" <=>
            d \in Range(idle_connections_) \/ \E u \in Callers : d \in held'[u]
      BY <1>2, <1>3, <3>1, <3>2 DEF ExclusiveOwner
    <3> QED
      BY <2>1, <3>1, <3>3 DEF ExclusiveOwner
  <2>9. HeldShape' /\ ClosedShape'
    BY <1>1, <2>1, <2>2 DEF HeldShape, ClosedShape, Moves, TypeOK
  <2> QED
    BY <2>3, <2>4, <2>7, <2>8, <2>9
(* A healthy connection of an open pool goes back on the stack.            *)
<1>8. CASE ~closed_ /\ conn[c] = "open"
  <2>1. /\ idle_connections_' = Append(idle_connections_, c)
        /\ UNCHANGED <<total_connections_, conn>>
        /\ held' = [held EXCEPT ![t] = {}]
        /\ pc' \in WakeOne([pc EXCEPT ![t] = "outside"])
    BY <1>2, <1>8 DEF ReturnConnection, Refused
  <2>2. Moves(t, "outside")
    BY <2>1, WakeOneMoves DEF PCs
  <2>3. /\ idle_connections_' \in Seq(Conns)
        /\ Len(idle_connections_') = Len(idle_connections_) + 1
        /\ IsInjective(idle_connections_')
        /\ Range(idle_connections_') = Range(idle_connections_) \cup {c}
    BY <1>3, <2>1, PushBack DEF ExclusiveOwner, TypeOK
  <2>4. TypeOK'
    BY <1>1, <2>1, <2>2, <2>3 DEF TypeOK, Moves
  <2>5. Accounting'
    BY <1>4, <1>5, <2>1, <2>2, <2>3 DEF Accounting
  <2>6. HardBound' /\ CountsConnections'
    BY <1>1, <1>5, <2>1, <2>2 DEF HardBound, CountsConnections, Existing
  <2>7. ExclusiveOwner'
    <3>1. held'[t] = {} /\ \A u \in Callers : u # t => held'[u] = held[u]
      BY <2>1 DEF TypeOK
    <3>2. \A d \in Conns : conn'[d] # "none" <=>
            d \in Range(idle_connections_') \/ \E u \in Callers : d \in held'[u]
      BY <1>2, <1>3, <2>1, <2>3, <3>1 DEF ExclusiveOwner
    <3> QED
      BY <1>3, <2>3, <3>1, <3>2 DEF ExclusiveOwner
  <2>8. HeldShape' /\ ClosedShape'
    BY <1>1, <1>8, <2>1, <2>2 DEF HeldShape, ClosedShape, Moves, TypeOK
  <2> QED
    BY <2>4, <2>5, <2>6, <2>7, <2>8
<1> QED
  BY <1>6, <1>7, <1>8

(* A connection closed outside mutex_ was counted no more; it ends with    *)
(* its last owner.                                                         *)
LEMMA CloseConnIInv == ASSUME IInv, NEW t \in Callers, CloseConn(t) PROVE IInv'
<1> USE DEF IInv
<1>1. PICK c \in held[t] :
        /\ conn' = [conn EXCEPT ![c] = "none"]
        /\ held' = [held EXCEPT ![t] = @ \ {c}]
        /\ pc' = [pc EXCEPT ![t] = IF held[t] = {c} THEN "outside" ELSE pc[t]]
  BY DEF CloseConn
<1>2. /\ pc[t] \in {"discarding", "draining"} /\ closed_
      /\ UNCHANGED <<mutex_, idle_connections_, total_connections_, closed_,
                     kind, stop, result>>
  BY DEF CloseConn, ClosedShape
<1>3. c \in Conns /\ held'[t] = held[t] \ {c}
      /\ \A u \in Callers : u # t => held'[u] = held[u]
  BY <1>1 DEF TypeOK
<1>4. TypeOK'
  BY <1>1, <1>2, <1>3 DEF TypeOK, PCs
<1>5. /\ conn[c] # "none"
      /\ c \notin Range(idle_connections_)
      /\ \A u \in Callers : u # t => c \notin held[u]
  BY <1>3 DEF ExclusiveOwner
<1>6. Existing' = Existing \ {c} /\ c \in Existing
  BY <1>1, <1>3, <1>5 DEF Existing, TypeOK
<1>7. Openers' = Openers /\ SlotHolders' = SlotHolders
  BY <1>1, <1>2 DEF Openers, SlotHolders, SlotPCs, TypeOK
<1>8. /\ Cardinality(Existing') = Cardinality(Existing) - 1
      /\ Cardinality(Existing) \in Nat /\ Cardinality(Openers) \in Nat
  BY <1>6, RemoveOne, Countable DEF Existing, Openers
<1>9. Accounting' /\ CountsConnections'
  BY <1>2, <1>7 DEF Accounting, CountsConnections
<1>10. HardBound'
  BY <1>7, <1>8, Limits DEF HardBound
<1>11. ExclusiveOwner'
  <2>1. conn'[c] = "none" /\ \A d \in Conns : d # c => conn'[d] = conn[d]
    BY <1>1, <1>3 DEF TypeOK
  <2>2. \A d \in Conns : conn'[d] # "none" <=>
          d \in Range(idle_connections_) \/ \E u \in Callers : d \in held'[u]
    BY <1>3, <1>5, <2>1 DEF ExclusiveOwner
  <2>3. \A u \in Callers : held'[u] \subseteq held[u]
    BY <1>3
  <2> QED
    BY <1>2, <2>2, <2>3 DEF ExclusiveOwner
<1>12. HeldShape'
  <2>1. held[t] # {c} => pc[t] = "draining"
    BY <1>2 DEF HeldShape
  <2>2. CASE held[t] = {c}
    BY <1>1, <1>3, <2>2 DEF HeldShape, TypeOK
  <2>3. CASE held[t] # {c}
    BY <1>1, <1>3, <2>1, <2>3 DEF HeldShape, TypeOK
  <2> QED
    BY <2>2, <2>3
<1>13. ClosedShape'
  BY <1>2 DEF ClosedShape
<1> QED
  BY <1>4, <1>9, <1>10, <1>11, <1>12, <1>13

(* close() moves every idle connection to the closing caller and out of    *)
(* the counter.                                                            *)
LEMMA CloseIInv == ASSUME IInv, NEW t \in Callers, Close(t) PROVE IInv'
<1> USE DEF IInv
<1> DEFINE S == Range(idle_connections_)
           x == IF idle_connections_ = << >> THEN "outside" ELSE "draining"
<1>1. /\ pc[t] = "outside" /\ closed_' = TRUE
      /\ held' = [held EXCEPT ![t] = S]
      /\ total_connections_' = total_connections_ - Len(idle_connections_)
      /\ idle_connections_' = << >>
      /\ UNCHANGED <<mutex_, conn, kind, stop, result>>
  BY DEF Close
<1>2. x \in {"outside", "draining"} /\ Moves(t, x)
  BY WakeAllMoves DEF Close, PCs
<1>3. /\ S \subseteq Conns
      /\ Len(idle_connections_) \in Nat
      /\ idle_connections_ = << >> => S = {}
  <2>1. /\ Len(idle_connections_) \in Nat
        /\ DOMAIN idle_connections_ = 1 .. Len(idle_connections_)
        /\ \A i \in 1 .. Len(idle_connections_) : idle_connections_[i] \in Conns
    BY LenProperties, ElementOfSeq DEF TypeOK
  <2>2. idle_connections_ = << >> => Len(idle_connections_) = 0
    BY EmptySeq
  <2> QED
    BY <2>1, <2>2 DEF Range
<1>4. held[t] = {} /\ held'[t] = S
      /\ \A u \in Callers : u # t => held'[u] = held[u]
  BY <1>1 DEF HeldShape, TypeOK
<1>5. SlotHolders' = SlotHolders /\ Openers' = Openers /\ Existing' = Existing
  BY <1>1, <1>2 DEF SlotHolders, SlotPCs, Openers, Existing, Moves, TypeOK
<1>6. /\ Cardinality(SlotHolders) \in Nat
      /\ Len(idle_connections_') = 0
      /\ idle_connections_' \in Seq(Conns)
  BY <1>1, Countable, EmptySeq DEF SlotHolders
<1>7. Accounting' /\ total_connections_' \in 0 .. MaxConns
  <2>1. total_connections_' = Cardinality(SlotHolders)
    BY <1>1, <1>3, <1>6 DEF Accounting
  <2>2. total_connections_' <= total_connections_
    BY <1>1, <1>3 DEF TypeOK
  <2>3. Accounting'
    BY <1>5, <1>6, <2>1 DEF Accounting
  <2> QED
    BY <1>6, <2>1, <2>2, <2>3, Limits DEF TypeOK
<1>8. TypeOK'
  BY <1>1, <1>2, <1>3, <1>6, <1>7 DEF TypeOK, Moves
<1>9. HardBound' /\ CountsConnections'
  BY <1>1, <1>5 DEF HardBound, CountsConnections
<1>10. Range(idle_connections_') = {} /\ IsInjective(idle_connections_')
  BY <1>1 DEF Range, IsInjective
<1>11. ExclusiveOwner'
  <2>1. \A d \in Conns : conn'[d] # "none" <=> \E u \in Callers : d \in held'[u]
    BY <1>1, <1>4 DEF ExclusiveOwner
  <2>2. \A u, v \in Callers : u # v => held'[u] \cap held'[v] = {}
    BY <1>4 DEF ExclusiveOwner
  <2> QED
    BY <1>10, <2>1, <2>2 DEF ExclusiveOwner
<1>12. HeldShape' /\ ClosedShape'
  BY <1>1, <1>2, <1>3, <1>4 DEF HeldShape, ClosedShape, Moves
<1> QED
  BY <1>7, <1>8, <1>9, <1>11, <1>12

-----------------------------------------------------------------------------
(* Every step keeps the invariant *)

(* Whatever way out of the wait is taken, the invariant holds after it.    *)
LEMMA DecideIInv == ASSUME IInv, NEW t \in Callers, Decide(t) PROVE IInv'
<1>1. CASE \E r \in Results : GiveUp(t, r)
  BY <1>1, GiveUpQuiet, QuietIInv
<1>2. CASE ~closed_ /\ pc[t] = "granted" /\ Claim(t)
  <2>1. CASE idle_connections_ # << >>
    BY <1>2, <2>1, TakeIdleIInv DEF Claim
  <2>2. CASE idle_connections_ = << >> /\ Room
    BY <1>2, <2>2, ReserveIInv DEF Claim
  <2>3. CASE idle_connections_ = << >> /\ ~Room
    <3>1. GiveUp(t, Outcome(t, "fell_through"))
      BY <1>2, <2>3 DEF Claim
    <3> QED
      BY <1>1, <3>1 DEF Outcome, Results
  <2> QED
    BY <2>1, <2>2, <2>3
<1>3. \A r \in {"cancelled", "closed", "timeout"} : r \in Results /\ Outcome(t, r) \in Results
  BY DEF Outcome, Results
<1> QED
  BY <1>1, <1>2, <1>3 DEF Decide

(* Every step of the pool keeps the invariant.                             *)
LEMMA NextIInv == IInv /\ [Next]_vars => IInv'
<1> SUFFICES ASSUME IInv, [Next]_vars PROVE IInv'
  OBVIOUS
<1>1. CASE UNCHANGED vars
  <2> USE <1>1 DEF vars
  <2>1. TypeOK' /\ Accounting' /\ ExclusiveOwner'
    BY DEF IInv, TypeOK, Accounting, SlotHolders, ExclusiveOwner
  <2>2. HeldShape' /\ ClosedShape'
    BY DEF IInv, HeldShape, ClosedShape
  <2>3. CountsConnections' /\ HardBound'
    BY DEF IInv, CountsConnections, HardBound, Existing, Openers
  <2> QED
    BY <2>1, <2>2, <2>3 DEF IInv
<1>2. ASSUME NEW t \in Callers, Waiting(t)
      PROVE  IInv'
  BY <1>2, RegisterQuiet, WaitStepsQuiet, QuietIInv, DecideIInv DEF Waiting
<1>3. ASSUME NEW t \in Callers, Locking(t)
      PROVE  IInv'
  BY <1>3, LockQuiet, WaitStepsQuiet, QuietIInv, UndoIInv, ReturnIInv DEF Locking
<1>4. ASSUME NEW t \in Callers, Opening(t) \/ Expire(t) \/ CloseConn(t)
      PROVE  IInv'
  BY <1>4, OpenedIInv, LeaseStepsQuiet, WaitStepsQuiet, QuietIInv, CloseConnIInv DEF Opening
<1>5. ASSUME NEW t \in Callers, Environment(t)
      PROVE  IInv'
  BY <1>5, EnterQuiet, WaitStepsQuiet, StopQuiet, LeaseStepsQuiet, QuietIInv,
     BreakIInv, CloseIInv DEF Environment
<1> QED
  BY <1>1, <1>2, <1>3, <1>4, <1>5 DEF Next

(* The inductive invariant holds in every reachable state.                 *)
LEMMA Invariance == Spec => []IInv
BY InitIInv, NextIInv, PTL DEF Spec

-----------------------------------------------------------------------------
(* The theorems *)

(* Every variable keeps its type.  In particular the counter never goes    *)
(* below zero, where the code's size_t would wrap, nor above the maximum.  *)
THEOREM TypeCorrect == Spec => []TypeOK
<1>1. IInv => TypeOK
  BY DEF IInv
<1> QED
  BY <1>1, Invariance, PTL

(* The hand-kept counter equals what it counts, on every path through      *)
(* acquire, its catch block, return_connection and close.                  *)
THEOREM CounterIsExact == Spec => []Accounting
<1>1. IInv => Accounting
  BY DEF IInv
<1> QED
  BY <1>1, Invariance, PTL

(* No physical connection is shared, leaked or used after its close.       *)
THEOREM OwnersAreExclusive == Spec => []ExclusiveOwner
<1>1. IInv => ExclusiveOwner
  BY DEF IInv
<1> QED
  BY <1>1, Invariance, PTL

(* max_connections bounds the physical connections, whoever opens, returns *)
(* or closes them, before, during and after close().                       *)
THEOREM ConnectionsAreBounded == Spec => []HardBound
<1>1. IInv => HardBound
  BY DEF IInv
<1> QED
  BY <1>1, Invariance, PTL

(* A closed pool whose callers have left owns nothing.                     *)
THEOREM ClosedPoolDrains == Spec => []DrainedAfterClose
<1>1. IInv => DrainedAfterClose
  <2> SUFFICES ASSUME IInv, closed_, \A t \in Callers : pc[t] = "outside"
               PROVE  Existing = {} /\ total_connections_ = 0
    BY DEF DrainedAfterClose
  <2>1. idle_connections_ = << >> /\ \A t \in Callers : held[t] = {}
    BY DEF IInv, ClosedShape, HeldShape
  <2>2. Existing = {}
    <3>1. Range(idle_connections_) = {}
      BY <2>1 DEF Range
    <3> QED
      BY <2>1, <3>1 DEF IInv, ExclusiveOwner, Existing
  <2>3. SlotHolders = {} /\ Len(idle_connections_) = 0
    BY <2>1, EmptySeq DEF SlotHolders, SlotPCs
  <2> QED
    BY <2>2, <2>3, FS_EmptySet DEF IInv, Accounting
<1> QED
  BY <1>1, Invariance, PTL

-----------------------------------------------------------------------------
(* What wait_for granted still holds when the code acts on it: the caller  *)
(* has mutex_, so nothing the predicate reads changes but the stop flag,   *)
(* which is only ever set.                                                 *)
GrantInv ==
    /\ \A t \in Callers : pc[t] \in LockedPCs => mutex_ = t
    /\ \A t \in Callers : pc[t] = "granted" => Predicate(t)
    /\ NeverFallsThrough

(* Nobody is inside a critical section at first.                           *)
LEMMA InitGrant == Init => GrantInv
BY DEF Init, GrantInv, NeverFallsThrough, LockedPCs

(* A step inside a critical section, or into one, taken by t alone.        *)
LEMMA WaitingGrant ==
  ASSUME TypeOK, GrantInv, NEW t \in Callers,
         Register(t) \/ Test(t) \/ Park(t) \/ Recheck(t)
  PROVE  GrantInv'
<1> USE DEF TypeOK, GrantInv, NeverFallsThrough, LockedPCs, PCs, CallPCs
<1>1. CASE Register(t)
  <2>1. /\ mutex_' = mutex_ /\ result' = result /\ closed_' = closed_
        /\ idle_connections_' = idle_connections_ /\ total_connections_' = total_connections_
        /\ \A u \in Callers : StopRequested(u) => StopRequested(u)'
    BY <1>1 DEF Register, StopRequested
  <2>2. \A u \in Callers : pc'[u] \in LockedPCs => pc'[u] = pc[u]
    BY <1>1 DEF Register, WakeAll
  <2> QED
    BY <2>1, <2>2 DEF Predicate, Room
<1>2. CASE Test(t)
  BY <1>2 DEF Test, Predicate, Room, StopRequested
<1>3. CASE Park(t)
  BY <1>3 DEF Park, Predicate, Room, StopRequested
<1>4. CASE Recheck(t)
  BY <1>4 DEF Recheck, Predicate, Room, StopRequested
<1> QED
  BY <1>1, <1>2, <1>3, <1>4

(* A granted caller leaves with a lease, a reservation or a reason.        *)
LEMMA DecideGrant ==
  ASSUME TypeOK, Free \notin Callers, GrantInv, NEW t \in Callers, Decide(t)
  PROVE  GrantInv'
<1> USE DEF TypeOK, GrantInv, NeverFallsThrough, LockedPCs, PCs, CallPCs
<1>1. mutex_ = t /\ mutex_' = Free
  BY DEF Decide
<1>2. \A u \in Callers : u # t => pc[u] \notin LockedPCs
  BY <1>1
<1>3. ASSUME NEW r \in Results \ {"fell_through"}, GiveUp(t, r)
      PROVE  GrantInv'
  BY <1>1, <1>2, <1>3 DEF GiveUp, Return
<1>4. CASE ~StopRequested(t) /\ ~closed_ /\ pc[t] = "granted" /\ Claim(t)
  <2>1. idle_connections_ # << >> \/ Room
    BY <1>4 DEF Predicate, Room
  <2>2. CASE TakeIdle(t)
    BY <1>1, <1>2, <2>2 DEF TakeIdle, Return
  <2>3. CASE Reserve(t)
    BY <1>1, <1>2, <2>3 DEF Reserve
  <2> QED
    BY <1>4, <2>1, <2>2, <2>3 DEF Claim
<1>5. \A r \in {"cancelled", "closed", "timeout"} :
        /\ r \in Results \ {"fell_through"}
        /\ Outcome(t, r) \in Results \ {"fell_through"}
  BY DEF Outcome, Results
<1> QED
  BY <1>3, <1>4, <1>5 DEF Decide

(* Steps that need mutex_ to be free: nobody is being granted anything.    *)
LEMMA LockingGrant ==
  ASSUME TypeOK, Free \notin Callers, GrantInv, NEW t \in Callers,
         Locking(t) \/ Close(t)
  PROVE  GrantInv'
<1> USE DEF TypeOK, GrantInv, NeverFallsThrough, LockedPCs
<1>1. mutex_ = Free
  BY DEF Locking, Lock, Relock, Undo, ReturnConnection, Close
<1>2. \A u \in Callers : pc[u] \notin LockedPCs
  BY <1>1
<1>3. CASE Lock(t)
  BY <1>2, <1>3 DEF Lock, Return, Outcome
<1>4. CASE Relock(t)
  BY <1>2, <1>4 DEF Relock
<1>5. CASE Undo(t)
  <2>1. Moves(t, "outside")
    BY <1>5, WakeOneMoves DEF Undo, PCs
  <2>2. result'[t] # "fell_through" /\ \A u \in Callers : u # t => result'[u] = result[u]
    BY <1>5 DEF Undo
  <2>3. \A u \in Callers : pc'[u] \notin LockedPCs
    BY <1>2, <2>1 DEF Moves
  <2> QED
    BY <2>2, <2>3
<1>6. CASE ReturnConnection(t)
  <2>1. PICK x \in {"outside", "discarding"} : Moves(t, x)
    BY <1>6, WakeOneMoves DEF ReturnConnection, PCs
  <2>2. result' = result
    BY <1>6 DEF ReturnConnection
  <2>3. \A u \in Callers : pc'[u] \notin LockedPCs
    BY <1>2, <2>1 DEF Moves
  <2> QED
    BY <2>2, <2>3
<1>7. CASE Close(t)
  <2>1. PICK x \in {"outside", "draining"} : Moves(t, x)
    BY <1>7, WakeAllMoves DEF Close, PCs
  <2>2. result' = result
    BY <1>7 DEF Close
  <2>3. \A u \in Callers : pc'[u] \notin LockedPCs
    BY <1>2, <2>1 DEF Moves
  <2> QED
    BY <2>2, <2>3
<1> QED
  BY <1>3, <1>4, <1>5, <1>6, <1>7 DEF Locking

(* Steps that neither lock nor look.                                       *)
LEMMA OtherGrant ==
  ASSUME TypeOK, GrantInv, NEW t \in Callers,
         \/ Opening(t) \/ Expire(t) \/ CloseConn(t) \/ Enter(t) \/ SpuriousWake(t)
         \/ RequestStop(t) \/ StopCallback(t) \/ Break(t) \/ Release(t)
  PROVE  GrantInv'
<1> USE DEF TypeOK, GrantInv, NeverFallsThrough, LockedPCs, PCs, CallPCs
<1>1. /\ mutex_' = mutex_ /\ closed_' = closed_
      /\ idle_connections_' = idle_connections_ /\ total_connections_' = total_connections_
  BY DEF Opening, Opened, OpenThrows, Expire, CloseConn, Enter, SpuriousWake,
         RequestStop, StopCallback, Break, Release
<1>2. \A u \in Callers : pc'[u] \in LockedPCs => pc'[u] = pc[u]
  BY DEF Opening, Opened, OpenThrows, Return, Expire, CloseConn, Enter, SpuriousWake,
         RequestStop, StopCallback, WakeAll, Break, Release
<1>3. \A u \in Callers : pc[u] = "granted" /\ StopRequested(u) => StopRequested(u)'
  BY DEF Opening, Opened, OpenThrows, Return, Expire, CloseConn, Enter, SpuriousWake,
         RequestStop, StopCallback, Break, Release, StopRequested
<1>4. NeverFallsThrough'
  BY DEF Opening, Opened, OpenThrows, Return, Expire, CloseConn, Enter, SpuriousWake,
         RequestStop, StopCallback, Break, Release
<1> QED
  BY <1>1, <1>2, <1>3, <1>4 DEF Predicate, Room

(* No step breaks it.                                                      *)
LEMMA GrantKept ==
  ASSUME TypeOK, GrantInv, [Next]_vars
  PROVE  GrantInv'
<1>1. Free \notin Callers
  BY ConfigAssumption
<1>2. CASE UNCHANGED vars
  <2> USE <1>2 DEF vars, GrantInv
  <2>1. (\A t \in Callers : pc[t] \in LockedPCs => mutex_ = t)'
    OBVIOUS
  <2>2. (\A t \in Callers : pc[t] = "granted" => Predicate(t))'
    BY DEF Predicate, Room, StopRequested
  <2>3. NeverFallsThrough'
    BY DEF NeverFallsThrough
  <2> QED
    BY <2>1, <2>2, <2>3
<1>3. ASSUME NEW t \in Callers, Waiting(t)
      PROVE  GrantInv'
  BY <1>1, <1>3, WaitingGrant, DecideGrant DEF Waiting
<1>4. ASSUME NEW t \in Callers,
             Locking(t) \/ Opening(t) \/ Expire(t) \/ CloseConn(t) \/ Environment(t)
      PROVE  GrantInv'
  BY <1>1, <1>4, LockingGrant, OtherGrant DEF Environment
<1> QED
  BY <1>2, <1>3, <1>4 DEF Next

(* It holds in every state.                                                *)
LEMMA GrantInvariance == Spec => []GrantInv
<1>1. TypeOK /\ GrantInv /\ [Next]_vars => GrantInv'
  BY GrantKept
<1> QED
  BY <1>1, InitGrant, TypeCorrect, PTL DEF Spec

(* acquire never reaches the throw after its last test, nor try_acquire    *)
(* the nullopt after its last.                                             *)
THEOREM GrantsHold == Spec => []NeverFallsThrough
<1>1. GrantInv => NeverFallsThrough
  BY DEF GrantInv
<1> QED
  BY <1>1, GrantInvariance, PTL
=============================================================================
