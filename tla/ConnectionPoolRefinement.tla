---------------------- MODULE ConnectionPoolRefinement ----------------------
(***************************************************************************)
(* ConnectionPool implements LeasePool, for every number of callers and    *)
(* connections and every PoolConfig.  The abstract pool counts; this one   *)
(* keeps a counter, takes mutex_, waits, times out and is stopped.  Each   *)
(* of its steps is a step of the abstract pool or changes nothing there.   *)
(***************************************************************************)
EXTENDS ConnectionPoolProofs

(* The abstract state, one name for each mapped variable that is not a     *)
(* variable of the pool.                                                   *)
IdleSet == Range(idle_connections_)
LeasedMap == [t \in Callers |-> Leased(t)]
DoomedMap == [t \in Callers |-> Doomed(t)]
Broken == {c \in Conns : conn[c] = "broken"}

-----------------------------------------------------------------------------
(* What the abstract state is, given what callers own.                     *)

(* LeasePool counts as this module does.                                   *)
LEMMA SameCount == ASSUME NEW S PROVE Abstract!Cardinality(S) = Cardinality(S)
BY DEF Abstract!Cardinality, Cardinality

(* Only the caller that moves changes what it is leased and has to close.  *)
LEMMA OthersKeep ==
    ASSUME IInv, NEW t \in Callers, NEW x \in PCs, Moves(t, x),
           \A u \in Callers : u # t => held'[u] = held[u]
    PROVE  \A u \in Callers : u # t => Leased(u)' = Leased(u) /\ Doomed(u)' = Doomed(u)
BY DEF Moves, Leased, Doomed

(* Maps that differ in one caller.                                         *)
LEMMA LeasedChanges ==
    ASSUME NEW t \in Callers, NEW S, Leased(t)' = S,
           \A u \in Callers : u # t => Leased(u)' = Leased(u)
    PROVE  LeasedMap' = [LeasedMap EXCEPT ![t] = S]
BY DEF LeasedMap

(* The same for what callers have to close.                                *)
LEMMA DoomedChanges ==
    ASSUME NEW t \in Callers, NEW S, Doomed(t)' = S,
           \A u \in Callers : u # t => Doomed(u)' = Doomed(u)
    PROVE  DoomedMap' = [DoomedMap EXCEPT ![t] = S]
BY DEF DoomedMap

(* Nothing changes for a caller that keeps what it has.                    *)
LEMMA LeasedStays ==
    ASSUME \A u \in Callers : Leased(u)' = Leased(u)
    PROVE  LeasedMap' = LeasedMap
BY DEF LeasedMap

(* The same for what callers have to close.                                *)
LEMMA DoomedStays ==
    ASSUME \A u \in Callers : Doomed(u)' = Doomed(u)
    PROVE  DoomedMap' = DoomedMap
BY DEF DoomedMap

(* The connections the abstract pool calls in use or doomed are those that *)
(* callers hold.                                                           *)
LEMMA HeldIsUsed ==
    ASSUME IInv
    PROVE  Abstract!InUse \cup Abstract!Doomed = UNION {held[t] : t \in Callers}
<1>1. \A t \in Callers : Leased(t) \cup Doomed(t) = held[t]
  BY DEF Leased, Doomed, IInv, HeldShape
<1>2. /\ Abstract!InUse = UNION {Leased(t) : t \in Callers}
      /\ Abstract!Doomed = UNION {Doomed(t) : t \in Callers}
  BY DEF Abstract!InUse, Abstract!Doomed
<1> QED BY <1>1, <1>2

-----------------------------------------------------------------------------
(* initialize() leaves an initial state of the abstract pool.              *)
LEMMA InitRefines == Init => Abstract!Init
<1> SUFFICES ASSUME Init PROVE Abstract!Init
  OBVIOUS
<1>1. IdleSet \subseteq Conns /\ Cardinality(IdleSet) = MinConns
  <2>1. idle_connections_ \in [1 .. MinConns -> Conns] /\ IsInjective(idle_connections_)
    BY DEF Init
  <2>2. idle_connections_ \in Bijection(1 .. MinConns, IdleSet)
    BY <2>1 DEF Bijection, Injection, Surjection, IsInjective, Range, IdleSet
  <2>3. IsFiniteSet(1 .. MinConns) /\ Cardinality(1 .. MinConns) = MinConns
    BY Limits, FS_Interval
  <2>4. Cardinality(IdleSet) = MinConns
    BY <2>2, <2>3, FS_Bijection DEF ExistsBijection
  <2> QED BY <2>1, <2>4 DEF IdleSet, Range
<1>2. \A t \in Callers : Leased(t) = {} /\ Doomed(t) = {}
  BY DEF Init, Leased, Doomed
<1>3. Broken = {} /\ Openers = {}
  BY DEF Init, Broken, Openers
<1>4. ~closed_ /\ closed_ = FALSE
  BY DEF Init
<1>5. LeasedMap = [t \in Callers |-> {}] /\ DoomedMap = [t \in Callers |-> {}]
  BY <1>2 DEF LeasedMap, DoomedMap
<1> QED BY <1>1, <1>3, <1>4, <1>5, SameCount DEF Abstract!Init, IdleSet, Broken, LeasedMap, DoomedMap

-----------------------------------------------------------------------------
(* The steps                                                               *)

(* A quiet step is none of the abstract pool's.                            *)
LEMMA QuietStutters ==
    ASSUME IInv, Quiet
    PROVE  UNCHANGED Abstract!poolVars
<1> USE DEF Quiet, Light, CallPCs, LockedPCs, SlotPCs
<1>1. \A t \in Callers : Leased(t)' = Leased(t) /\ Doomed(t)' = Doomed(t)
  BY DEF IInv, HeldShape, Leased, Doomed
<1>2. Openers' = Openers
  BY DEF Openers
<1>3. LeasedMap' = LeasedMap /\ DoomedMap' = DoomedMap
  BY <1>1, LeasedStays, DoomedStays
<1> QED BY <1>2, <1>3 DEF Abstract!poolVars, LeasedMap, DoomedMap

(* Taking an idle connection.                                              *)
LEMMA TakeIdleRefines ==
    ASSUME IInv, NEW t \in Callers, Decide(t), ~closed_, idle_connections_ # << >>,
           pc[t] = "granted", TakeIdle(t)
    PROVE  Abstract!Take(t)
<1> DEFINE n == Len(idle_connections_)
           c == idle_connections_[n]
<1>1. IdleSet' = IdleSet \ {c} /\ c \in IdleSet
  BY PopBack DEF TakeIdle, IInv, TypeOK, ExclusiveOwner, IdleSet
<1>2. /\ held' = [held EXCEPT ![t] = {c}]
      /\ pc' = [pc EXCEPT ![t] = "leased"]
      /\ UNCHANGED <<closed_, conn>>
  BY DEF TakeIdle, Return, Decide
<1> HIDE DEF c, n
<1>3. /\ pc'[t] = "leased" /\ held'[t] = {c} /\ held[t] = {}
      /\ \A u \in Callers : u # t => pc'[u] = pc[u] /\ held'[u] = held[u]
  BY <1>2 DEF IInv, TypeOK, HeldShape
<1>4. LeasedMap' = [LeasedMap EXCEPT ![t] = {c}]
  BY <1>3, LeasedChanges DEF Leased
<1>5. DoomedMap' = DoomedMap
  BY <1>3, DoomedStays DEF Doomed
<1>6. Openers' = Openers /\ Broken' = Broken /\ t \notin Openers
  BY <1>2, <1>3 DEF Openers, Broken
<1>7. LeasedMap[t] = {}
  BY DEF LeasedMap, Leased
<1> QED BY <1>1, <1>2, <1>4, <1>5, <1>6, <1>7
        DEF Abstract!Take, Abstract!Idling, IdleSet, LeasedMap, DoomedMap, Broken

(* Reserving a slot: while the pool is open its counter is the number the  *)
(* abstract pool counts.                                                   *)
LEMMA ReserveRefines ==
    ASSUME IInv, NEW t \in Callers, Decide(t), ~closed_, idle_connections_ = << >>,
           pc[t] = "granted", Room, Reserve(t)
    PROVE  Abstract!Reserve(t)
<1>1. /\ pc' = [pc EXCEPT ![t] = "creating"]
      /\ UNCHANGED <<idle_connections_, closed_, conn, held>>
  BY DEF Reserve, Decide
<1>2. /\ pc'[t] = "creating"
      /\ \A u \in Callers : u # t => pc'[u] = pc[u]
  BY <1>1 DEF IInv, TypeOK
<1>3. IdleSet = {}
  BY DEF IdleSet, Range
<1>4. Abstract!Used < MaxConns
  <2>1. Existing = UNION {held[u] : u \in Callers}
    BY <1>3 DEF IInv, TypeOK, ExclusiveOwner, Existing, IdleSet
  <2>2. Abstract!Doomed = {}
    <3>1. \A u \in Callers : Doomed(u) = {}
      BY DEF IInv, ClosedShape, Doomed
    <3> QED BY <3>1 DEF Abstract!Doomed
  <2>3. Abstract!InUse = Existing
    BY <2>1, <2>2, HeldIsUsed
  <2>4. total_connections_ = Cardinality(Existing) + Cardinality(Openers)
    BY DEF IInv, CountsConnections
  <2>5. Cardinality(Existing) \in Nat /\ Cardinality(Openers) \in Nat
    BY Countable DEF Existing, Openers
  <2>6. Abstract!Used = Cardinality(IdleSet) + Cardinality(Existing) + Cardinality(Openers)
    BY <2>3, SameCount DEF Abstract!Used, IdleSet
  <2>7. Cardinality(IdleSet) = 0
    BY <1>3, FS_EmptySet
  <2> QED BY <2>4, <2>5, <2>6, <2>7 DEF Room
<1>5. LeasedMap' = LeasedMap /\ LeasedMap[t] = {}
  BY <1>1, <1>2, LeasedStays DEF Leased, LeasedMap
<1>6. DoomedMap' = DoomedMap
  BY <1>1, <1>2, DoomedStays DEF Doomed
<1>7. Openers' = Openers \cup {t} /\ t \notin Openers /\ Broken' = Broken
  BY <1>1, <1>2 DEF Openers, Broken
<1> QED BY <1>1, <1>3, <1>4, <1>5, <1>6, <1>7
        DEF Abstract!Reserve, Abstract!Idling, IdleSet, LeasedMap, DoomedMap, Broken

(* A new connection takes the place of its reservation.                    *)
LEMMA OpenedRefines ==
    ASSUME IInv, NEW t \in Callers, Opened(t)
    PROVE  Abstract!Opened(t)
<1>1. PICK c \in Conns : conn[c] = "none" /\ conn' = [conn EXCEPT ![c] = "open"]
                         /\ held' = [held EXCEPT ![t] = {c}]
  BY DEF Opened
<1>2. /\ pc[t] = "creating" /\ pc' = [pc EXCEPT ![t] = "leased"]
      /\ UNCHANGED <<idle_connections_, closed_>>
  BY DEF Opened, Return
<1>3. /\ pc'[t] = "leased" /\ held'[t] = {c}
      /\ \A u \in Callers : u # t => pc'[u] = pc[u] /\ held'[u] = held[u]
  BY <1>1, <1>2 DEF IInv, TypeOK
<1>4. c \notin IdleSet \cup Abstract!InUse \cup Abstract!Doomed
  <2>1. c \notin IdleSet /\ \A u \in Callers : c \notin held[u]
    BY <1>1 DEF IInv, ExclusiveOwner, IdleSet
  <2> QED BY <2>1, HeldIsUsed
<1>5. LeasedMap' = [LeasedMap EXCEPT ![t] = {c}]
  BY <1>3, LeasedChanges DEF Leased
<1>6. DoomedMap' = DoomedMap
  BY <1>2, <1>3, DoomedStays DEF Doomed
<1>7. Openers' = Openers \ {t} /\ t \in Openers
  BY <1>2, <1>3 DEF Openers
<1>8. Broken' = Broken
  BY <1>1 DEF Broken, IInv, TypeOK
<1> QED BY <1>2, <1>4, <1>5, <1>6, <1>7, <1>8
        DEF Abstract!Opened, IdleSet, LeasedMap, DoomedMap, Broken

(* The catch block.                                                        *)
LEMMA UndoRefines ==
    ASSUME IInv, NEW t \in Callers, Undo(t)
    PROVE  Abstract!OpenFailed(t)
<1>1. pc[t] = "undoing" /\ UNCHANGED <<idle_connections_, closed_, conn, held>>
  BY DEF Undo
<1>2. Moves(t, "outside")
  BY WakeOneMoves DEF Undo, PCs, IInv
<1>3. Openers' = Openers \ {t} /\ t \in Openers
  BY <1>1, <1>2 DEF Openers, Moves
<1>4. LeasedMap' = LeasedMap /\ DoomedMap' = DoomedMap
  <2>1. \A u \in Callers : Leased(u)' = Leased(u) /\ Doomed(u)' = Doomed(u)
    BY <1>1, <1>2 DEF Moves, Leased, Doomed
  <2> QED BY <2>1, LeasedStays, DoomedStays
<1> QED BY <1>1, <1>3, <1>4 DEF Abstract!OpenFailed, LeasedMap, DoomedMap

(* A server drops a connection, or its holder closes it.                   *)
LEMMA BreakRefines ==
    ASSUME IInv, NEW t \in Callers, Break(t)
    PROVE  Abstract!Break(t)
<1>1. PICK c \in IdleSet \cup Leased(t) : conn' = [conn EXCEPT ![c] = "broken"]
  BY DEF Break, IdleSet, Leased
<1>2. UNCHANGED <<idle_connections_, closed_, pc, held>>
  BY DEF Break
<1>3. c \in Conns
  BY DEF IInv, TypeOK, IdleSet, Range, Leased
<1>4. Broken' = Broken \cup {c}
  BY <1>1, <1>3 DEF IInv, TypeOK, Broken
<1>5. LeasedMap' = LeasedMap /\ DoomedMap' = DoomedMap /\ LeasedMap[t] = Leased(t)
  BY <1>2, LeasedStays, DoomedStays DEF Leased, Doomed, LeasedMap
<1>6. Openers' = Openers
  BY <1>2 DEF Openers
<1> QED BY <1>1, <1>2, <1>4, <1>5, <1>6
        DEF Abstract!Break, IdleSet, LeasedMap, DoomedMap, Broken

(* return_connection takes back what is healthy while the pool is open.    *)
LEMMA ReturnRefines ==
    ASSUME IInv, NEW t \in Callers, ReturnConnection(t)
    PROVE  Abstract!GiveBack(t)
<1>1. pc[t] = "returning" /\ UNCHANGED closed_
  BY DEF ReturnConnection
<1>2. PICK c \in Conns : held[t] = {c}
  BY <1>1 DEF IInv, HeldShape
<1>3. /\ Leased(t) = {c} /\ Doomed(t) = {} /\ conn[c] \in {"open", "broken"}
      /\ \A u \in Callers : u # t => c \notin held[u]
  BY <1>1, <1>2 DEF Leased, Doomed, IInv, TypeOK, ExclusiveOwner
<1>4. LeasedMap[t] = {c} /\ DoomedMap[t] = {} /\ (c \in Broken <=> conn[c] = "broken")
  BY <1>3 DEF LeasedMap, DoomedMap, Broken
<1>5. ASSUME NEW x \in {"outside", "discarding"}, Moves(t, x),
             \A u \in Callers : u # t => held'[u] = held[u],
             x = "outside" => held'[t] = {}, x = "discarding" => held'[t] = {c}
      PROVE  /\ LeasedMap' = [LeasedMap EXCEPT ![t] = {}]
             /\ DoomedMap' = [DoomedMap EXCEPT ![t] = IF x = "outside" THEN {} ELSE {c}]
             /\ Openers' = Openers
  <2>1. Leased(t)' = {} /\ Doomed(t)' = IF x = "outside" THEN {} ELSE {c}
    BY <1>5 DEF Moves, Leased, Doomed
  <2>2. \A u \in Callers : u # t => Leased(u)' = Leased(u) /\ Doomed(u)' = Doomed(u)
    BY <1>5 DEF Moves, Leased, Doomed
  <2>3. Openers' = Openers
    BY <1>1, <1>5 DEF Moves, Openers
  <2> QED BY <2>1, <2>2, <2>3, LeasedChanges, DoomedChanges
<1>6. ASSUME held' = [held EXCEPT ![t] = {}]
      PROVE  held'[t] = {} /\ \A u \in Callers : u # t => held'[u] = held[u]
  BY <1>6 DEF IInv, TypeOK
<1>7. DoomedMap = [DoomedMap EXCEPT ![t] = {}]
  BY <1>4 DEF DoomedMap
<1>8. CASE ~Refused(c)
  <2>1. /\ idle_connections_' = Append(idle_connections_, c) /\ UNCHANGED conn
        /\ held' = [held EXCEPT ![t] = {}] /\ pc' \in WakeOne([pc EXCEPT ![t] = "outside"])
    BY <1>2, <1>8 DEF ReturnConnection
  <2>2. Moves(t, "outside")
    BY <2>1, WakeOneMoves DEF PCs, IInv
  <2>3. /\ LeasedMap' = [LeasedMap EXCEPT ![t] = {}] /\ DoomedMap' = DoomedMap
        /\ Openers' = Openers
    BY <1>5, <1>6, <1>7, <2>1, <2>2
  <2>4. IdleSet' = IdleSet \cup {c}
    <3>1. c \notin IdleSet
      BY <1>2 DEF IInv, ExclusiveOwner, IdleSet
    <3> QED BY <2>1, <3>1, PushBack DEF IInv, TypeOK, ExclusiveOwner, IdleSet
  <2>5. Broken' = Broken /\ c \notin Broken /\ ~closed_
    BY <1>4, <1>8, <2>1 DEF Refused, Broken
  <2> QED BY <1>1, <1>4, <2>3, <2>4, <2>5
          DEF Abstract!GiveBack, IdleSet, LeasedMap, DoomedMap, Broken
<1>9. CASE Refused(c) /\ conn[c] # "open"
  <2>1. /\ UNCHANGED idle_connections_ /\ conn' = [conn EXCEPT ![c] = "none"]
        /\ held' = [held EXCEPT ![t] = {}] /\ pc' \in WakeOne([pc EXCEPT ![t] = "outside"])
    BY <1>2, <1>9 DEF ReturnConnection
  <2>2. Moves(t, "outside")
    BY <2>1, WakeOneMoves DEF PCs, IInv
  <2>3. /\ LeasedMap' = [LeasedMap EXCEPT ![t] = {}] /\ DoomedMap' = DoomedMap
        /\ Openers' = Openers
    BY <1>5, <1>6, <1>7, <2>1, <2>2
  <2>4. Broken' = Broken \ {c} /\ c \in Broken
    BY <1>3, <1>4, <1>9, <2>1 DEF IInv, TypeOK, Broken
  <2>5. /\ LeasedMap[t] \ Broken = {} /\ DoomedMap[t] \cup (LeasedMap[t] \ Broken) = {}
        /\ Broken' = Broken \ LeasedMap[t] /\ IdleSet' = IdleSet
    BY <1>4, <2>1, <2>4 DEF IdleSet
  <2>6. /\ DoomedMap' = [DoomedMap EXCEPT ![t] = @ \cup (LeasedMap[t] \ Broken)]
        /\ IdleSet' = IdleSet \cup (LeasedMap[t] \ Broken)
    BY <1>7, <2>3, <2>5
  <2> QED BY <1>1, <2>3, <2>5, <2>6
          DEF Abstract!GiveBack, IdleSet, LeasedMap, DoomedMap, Broken
<1>10. CASE Refused(c) /\ conn[c] = "open"
  <2>1. /\ UNCHANGED <<idle_connections_, conn, held>>
        /\ pc' \in WakeOne([pc EXCEPT ![t] = "discarding"])
    BY <1>2, <1>10 DEF ReturnConnection
  <2>2. Moves(t, "discarding")
    BY <2>1, WakeOneMoves DEF PCs, IInv
  <2>3. /\ LeasedMap' = [LeasedMap EXCEPT ![t] = {}]
        /\ DoomedMap' = [DoomedMap EXCEPT ![t] = {c}] /\ Openers' = Openers
    BY <1>2, <1>5, <2>1, <2>2
  <2>4. Broken' = Broken /\ c \notin Broken /\ closed_
    BY <1>4, <1>10, <2>1 DEF Refused, Broken
  <2>5. /\ Broken' = Broken \ LeasedMap[t] /\ IdleSet' = IdleSet
        /\ DoomedMap[t] \cup (LeasedMap[t] \ Broken) = {c}
    BY <1>4, <2>1, <2>4 DEF IdleSet
  <2>6. DoomedMap' = [DoomedMap EXCEPT ![t] = @ \cup (LeasedMap[t] \ Broken)]
    BY <2>3, <2>5
  <2> QED BY <1>1, <2>3, <2>4, <2>5, <2>6
          DEF Abstract!GiveBack, IdleSet, LeasedMap, DoomedMap, Broken
<1> QED BY <1>8, <1>9, <1>10

(* Outside of mutex_ a caller closes what the pool gave up.                *)
LEMMA CloseConnRefines ==
    ASSUME IInv, NEW t \in Callers, CloseConn(t)
    PROVE  Abstract!Destroy(t)
<1>1. PICK c \in held[t] :
        /\ conn' = [conn EXCEPT ![c] = "none"]
        /\ held' = [held EXCEPT ![t] = @ \ {c}]
        /\ pc' = [pc EXCEPT ![t] = IF held[t] = {c} THEN "outside" ELSE pc[t]]
  BY DEF CloseConn
<1>2. pc[t] \in {"discarding", "draining"} /\ UNCHANGED <<idle_connections_, closed_>>
  BY DEF CloseConn
<1>3. /\ held'[t] = held[t] \ {c}
      /\ pc'[t] = IF held[t] = {c} THEN "outside" ELSE pc[t]
      /\ \A u \in Callers : u # t => pc'[u] = pc[u] /\ held'[u] = held[u]
  BY <1>1 DEF IInv, TypeOK
<1>4. Doomed(t) = held[t] /\ DoomedMap[t] = Doomed(t)
  BY <1>2 DEF Doomed, DoomedMap
<1>5. DoomedMap' = [DoomedMap EXCEPT ![t] = @ \ {c}]
  <2>1. Doomed(t)' = DoomedMap[t] \ {c}
    BY <1>2, <1>3, <1>4 DEF Doomed
  <2>2. \A u \in Callers : u # t => Doomed(u)' = Doomed(u)
    BY <1>3 DEF Doomed
  <2> QED BY <2>1, <2>2, DoomedChanges
<1>6. LeasedMap' = LeasedMap /\ Openers' = Openers
  <2>1. \A u \in Callers : Leased(u)' = Leased(u)
    BY <1>2, <1>3 DEF Leased
  <2>2. Openers' = Openers
    BY <1>2, <1>3 DEF Openers
  <2> QED BY <2>1, <2>2, LeasedStays
<1>7. Broken' = Broken \ {c}
  BY <1>1 DEF IInv, TypeOK, Broken
<1> QED BY <1>2, <1>4, <1>5, <1>6, <1>7
        DEF Abstract!Destroy, LeasedMap, DoomedMap, Broken

(* close() takes the idle connections out of the pool.                     *)
LEMMA CloseRefines ==
    ASSUME IInv, NEW t \in Callers, Close(t)
    PROVE  Abstract!Close(t)
<1> DEFINE x == IF idle_connections_ = << >> THEN "outside" ELSE "draining"
<1>1. /\ pc[t] = "outside" /\ ~closed_ /\ closed_' = TRUE /\ UNCHANGED conn
      /\ held' = [held EXCEPT ![t] = IdleSet] /\ idle_connections_' = << >>
      /\ pc' = WakeAll([pc EXCEPT ![t] = x])
  BY DEF Close, IdleSet
<1>2. x \in {"outside", "draining"} /\ (x = "outside" => IdleSet = {})
  BY DEF IdleSet, Range
<1> HIDE DEF x
<1>3. Moves(t, x)
  BY <1>1, <1>2, WakeAllMoves DEF IInv, PCs
<1>4. held'[t] = IdleSet /\ \A u \in Callers : u # t => held'[u] = held[u]
  BY <1>1 DEF IInv, TypeOK
<1>5. Doomed(t) = {} /\ DoomedMap[t] = {}
  BY <1>1 DEF Doomed, DoomedMap
<1>6. DoomedMap' = [DoomedMap EXCEPT ![t] = @ \cup IdleSet]
  <2>1. Doomed(t)' = DoomedMap[t] \cup IdleSet
    BY <1>2, <1>3, <1>4, <1>5 DEF Moves, Doomed
  <2>2. \A u \in Callers : u # t => Doomed(u)' = Doomed(u)
    BY <1>3, <1>4 DEF Moves, Doomed
  <2> QED BY <2>1, <2>2, DoomedChanges
<1>7. LeasedMap' = LeasedMap
  <2>1. \A u \in Callers : Leased(u)' = Leased(u)
    BY <1>1, <1>2, <1>3, <1>4 DEF Moves, Leased
  <2> QED BY <2>1, LeasedStays
<1>8. Openers' = Openers
  BY <1>1, <1>2, <1>3 DEF Moves, Openers
<1>9. IdleSet' = {} /\ Broken' = Broken
  BY <1>1 DEF IdleSet, Range, Broken
<1> QED BY <1>1, <1>6, <1>7, <1>8, <1>9
        DEF Abstract!Close, IdleSet, LeasedMap, DoomedMap, Broken

(* What follows wait_for takes an idle connection, reserves a slot or      *)
(* leaves everything as it is.                                             *)
LEMMA DecideRefines ==
    ASSUME IInv, NEW t \in Callers, Decide(t)
    PROVE  Abstract!Take(t) \/ Abstract!Reserve(t) \/ UNCHANGED Abstract!poolVars
<1>1. CASE \E r \in Results : GiveUp(t, r)
  BY <1>1, GiveUpQuiet, QuietStutters
<1>2. CASE ~closed_ /\ pc[t] = "granted" /\ Claim(t)
  <2>1. CASE idle_connections_ # << >>
    BY <1>2, <2>1, TakeIdleRefines DEF Claim
  <2>2. CASE idle_connections_ = << >> /\ Room
    BY <1>2, <2>2, ReserveRefines DEF Claim
  <2>3. CASE idle_connections_ = << >> /\ ~Room
    <3>1. Outcome(t, "fell_through") \in Results
      BY DEF Outcome, Results
    <3> QED BY <1>1, <1>2, <2>3, <3>1 DEF Claim
  <2> QED BY <2>1, <2>2, <2>3
<1>3. \A r \in {"closed", "timeout", "cancelled"} : r \in Results /\ Outcome(t, r) \in Results
  BY DEF Outcome, Results
<1> QED BY <1>1, <1>2, <1>3 DEF Decide

(* Every step.                                                             *)
LEMMA StepRefines ==
    ASSUME IInv, [Next]_vars
    PROVE  [Abstract!Next]_(Abstract!poolVars)
<1>1. CASE UNCHANGED vars
  BY <1>1 DEF vars, Abstract!poolVars, Openers, Leased, Doomed
<1>2. ASSUME NEW t \in Callers, Waiting(t) \/ Locking(t) \/ Opening(t) \/ Expire(t)
                                \/ CloseConn(t) \/ Environment(t)
      PROVE  [Abstract!Next]_(Abstract!poolVars)
  <2>1. CASE Enter(t) \/ Register(t) \/ Lock(t)
    BY <2>1, EnterQuiet, RegisterQuiet, LockQuiet, QuietStutters
  <2>2. CASE Test(t) \/ Park(t) \/ Expire(t) \/ SpuriousWake(t) \/ Relock(t) \/ Recheck(t)
    BY <2>2, WaitStepsQuiet, QuietStutters
  <2>3. CASE RequestStop(t) \/ StopCallback(t) \/ OpenThrows(t) \/ Release(t)
    BY <2>3, StopQuiet, LeaseStepsQuiet, QuietStutters
  <2>4. CASE Decide(t)
    BY <2>4, DecideRefines DEF Abstract!Next
  <2>5. CASE Opened(t) \/ Undo(t)
    BY <2>5, OpenedRefines, UndoRefines DEF Abstract!Next
  <2>6. CASE Break(t) \/ ReturnConnection(t)
    BY <2>6, BreakRefines, ReturnRefines DEF Abstract!Next
  <2>7. CASE CloseConn(t) \/ Close(t)
    BY <2>7, CloseConnRefines, CloseRefines DEF Abstract!Next
  <2> QED BY <1>2, <2>1, <2>2, <2>3, <2>4, <2>5, <2>6, <2>7
          DEF Waiting, Locking, Opening, Environment
<1> QED BY <1>1, <1>2 DEF Next

(* The pool is the abstract pool: whatever its mutex, its waits, timeouts, *)
(* stop tokens and failed opens do, who owns each connection and how many  *)
(* there are is what LeasePool allows.                                     *)
THEOREM PoolImplementsLeasePool == Spec => ImplementsLeasePool
<1>1. IInv /\ [Next]_vars => [Abstract!Next]_(Abstract!poolVars)
  BY StepRefines
<1>2. Init => Abstract!Init
  BY InitRefines
<1> QED BY <1>1, <1>2, Invariance, PTL DEF Spec, ImplementsLeasePool, Abstract!Spec
=============================================================================
