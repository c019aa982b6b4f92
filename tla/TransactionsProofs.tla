------------------------- MODULE TransactionsProofs -------------------------
(***************************************************************************)
(* Proofs about Transactions, for every set of effects, every chunk size   *)
(* and every driver, of an application that makes batch calls inside a     *)
(* guard on SQLite only and meets the faults the code copes with.          *)
(***************************************************************************)
EXTENDS Transactions, SequenceTheorems, TLAPS

(* Where the code keeps its promises: on the other drivers a batch call    *)
(* inside a guard ends the guard's transaction, and nowhere may there be a *)
(* silent reconnect, a partial array or a failing SQLEndTran.              *)
SoundUse == Nests \subseteq {"sqlite"} /\ Faults \subseteq {"statement", "link"}

Guard == [rows : SUBSET Effects, committed : BOOLEAN]
SessionType == [link : {"up", "lost", "bad"}, txn : {"none", "open", "aborted"},
                auto : BOOLEAN, work : SUBSET Effects]
BatchType == [left : SUBSET Effects, all : SUBSET Effects, size : {0, 1, ChunkSize}]

(* The innermost guard is uncommitted, and its effects.                    *)
Covered == guards # <<>> /\ ~guards[Top].committed
Own == IF Covered THEN guards[Top].rows ELSE {}

(* Effects whose statement is still to come.                               *)
Untouched == fresh \cup (IF throwing THEN {} ELSE batch.left)

(* A guard is begun inside of another only when that one has committed.    *)
GuardList ==
    /\ guards \in Seq(Guard) /\ Len(guards) <= 2
    /\ Len(guards) = 2 => guards[1].committed

Types ==
    /\ backend \in Backends
    /\ session \in SessionType
    /\ store \subseteq Effects /\ fresh \subseteq Effects
    /\ GuardList
    /\ batch \in BatchType
    /\ throwing \in BOOLEAN
    /\ kept \subseteq Effects /\ dropped \subseteq Effects /\ unsure \subseteq Effects
    /\ batches \subseteq SUBSET Effects

(* The session follows the guard: outside of one it is idle, under one     *)
(* that nothing has failed in it holds exactly the guard's effects.        *)
SessionFollows ==
    /\ ~Covered => session.txn = "none" /\ session.auto /\ session.work = {}
    /\ session.link # "up" => session.txn = "none" /\ session.work = {}
    /\ session.work \subseteq Own
    /\ backend \in {"sqlite", "mysql"} => session.link = "up"
    /\ backend = "sqlite" => session.auto
    /\ Covered /\ session.link = "up" /\ ~throwing =>
         /\ session.txn = "open" \/ ~session.auto
         /\ session.txn # "aborted"
         /\ session.work = Own

(* Every effect is in one place of its way: untouched, then the guard's,   *)
(* then kept, dropped or unsure.                                           *)
EffectsApart ==
    /\ Untouched \cap (store \cup Own \cup dropped \cup kept \cup unsure) = {}
    /\ Own \cap (dropped \cup kept) = {}
    /\ Own \cap store \subseteq unsure

BatchShape ==
    /\ throwing => guards # <<>>
    /\ batch # NoBatch => Covered
    /\ Len(guards) = 2 => batch # NoBatch
    /\ batch.left \subseteq batch.all /\ batch.all \cap fresh = {}
    /\ batch # NoBatch /\ ~throwing => /\ Own = batch.all \ batch.left
                                       /\ batch.all \cap store = {}
    /\ batch.all \cap store = {} \/ batch.all \subseteq store
    /\ \A b \in batches : b \cap (Untouched \cup Own) = {}

(* The inductive invariant.                                                *)
IInv ==
    /\ Types
    /\ SessionFollows
    /\ EffectsApart
    /\ BatchShape
    /\ CommitKeeps
    /\ RollbackUndoes
    /\ BatchAtomic

-----------------------------------------------------------------------------
(* The innermost guard of a list.                                          *)
LEMMA Innermost ==
    ASSUME GuardList
    PROVE  \/ guards = <<>> /\ Top = 0
           \/ guards # <<>> /\ Top \in {1, 2} /\ guards[Top] \in Guard
<1>1. CASE guards = <<>>
  BY <1>1 DEF Top
<1>2. CASE guards # <<>>
  <2>1. Len(guards) \in Nat \ {0}
    BY <1>2, EmptySeq DEF GuardList
  <2>2. Top \in {1, 2}
    <3>1. Len(guards) <= 2
      BY DEF GuardList
    <3>2. Top = Len(guards)
      BY DEF Top
    <3> QED BY <2>1, <3>1, <3>2
  <2>3. guards[Top] \in Guard
    BY <2>1, ElementOfSeq DEF GuardList, Top
  <2> QED BY <1>2, <2>2, <2>3
<1> QED BY <1>1, <1>2

(* Replacing one guard in a list.                                          *)
LEMMA OneReplaced ==
    ASSUME GuardList, guards # <<>>, NEW g \in Guard, guards' = [guards EXCEPT ![Top] = g]
    PROVE  /\ GuardList' /\ guards' # <<>> /\ Top' = Top /\ guards'[Top'] = g
<1>1. Top \in {1, 2} /\ Top = Len(guards) /\ guards \in Seq(Guard)
  BY Innermost DEF Top, GuardList
<1>2. guards' \in Seq(Guard) /\ Len(guards') = Len(guards)
  BY <1>1
<1>3. guards'[Top] = g /\ (Top = 2 => guards'[1] = guards[1])
  BY <1>1
<1>4. Top' = Top
  BY <1>2 DEF Top
<1>5. guards' # <<>>
  BY <1>1, <1>2
<1>6. GuardList'
  BY <1>1, <1>2, <1>3 DEF GuardList
<1> QED BY <1>3, <1>4, <1>5, <1>6

(* The innermost uncommitted guard is the innermost one, or none.          *)
LEMMA OwnerInList ==
    ASSUME GuardList
    PROVE  Owner = IF Covered THEN Top ELSE 0
<1>1. CASE guards = <<>>
  BY <1>1 DEF Owner, Active, Top, Covered
<1>2. CASE guards # <<>>
  <2>1. Top \in {1, 2} /\ (Top = 2 => guards[1].committed)
    BY <1>2, Innermost DEF GuardList, Top
  <2>2. Active = IF guards[Top].committed THEN {} ELSE {Top}
    <3>1. 1 .. Top = {1} \cup {Top}
      BY <2>1
    <3> QED BY <2>1, <3>1 DEF Active
  <2>3. CASE guards[Top].committed
    BY <1>2, <2>2, <2>3 DEF Owner, Covered
  <2>4. CASE ~guards[Top].committed
    <3>1. Active = {Top}
      BY <2>2, <2>4
    <3>2. (CHOOSE i \in Active : \A j \in Active : j <= i) = Top
      BY <2>1, <3>1
    <3> QED BY <1>2, <2>4, <3>1, <3>2 DEF Owner, Covered
  <2> QED BY <2>3, <2>4
<1> QED BY <1>1, <1>2

(* Beginning a guard, outside of an uncommitted one: Transaction(conn) and *)
(* the batch calls.                                                        *)
LEMMA GuardBegins ==
    ASSUME GuardList, ~Covered, Len(guards) # 2, guards' = Append(guards, NewGuard)
    PROVE  GuardList' /\ guards' # <<>> /\ Covered' /\ Own' = {}
<1>1. NewGuard \in Guard /\ NewGuard.rows = {} /\ ~NewGuard.committed
  BY DEF NewGuard, Guard
<1>2. Len(guards) \in {0, 1} /\ guards \in Seq(Guard)
  BY Innermost DEF GuardList, Top
<1>3. /\ guards' \in Seq(Guard) /\ Len(guards') = Len(guards) + 1
      /\ guards'[Len(guards')] = NewGuard
      /\ Len(guards) = 1 => guards'[1] = guards[1]
  <2> HIDE DEF NewGuard
  <2> QED BY <1>1, <1>2
<1>4. guards' # <<>>
  BY <1>2, <1>3
<1>5. Len(guards) = 1 => guards[1].committed
  BY <1>2, Innermost DEF Covered, Top
<1>6. GuardList'
  BY <1>2, <1>3, <1>5 DEF GuardList
<1> QED BY <1>1, <1>3, <1>4, <1>6 DEF Covered, Own, Top

(* Ending it: the destructor.                                              *)
LEMMA OneLeft ==
    ASSUME guards' \in Seq(Guard), Len(guards') = 1, guards'[1].committed
    PROVE  GuardList' /\ ~Covered' /\ Own' = {} /\ Len(guards') # 2 /\ guards' # <<>>
<1>1. Len(<<>>) = 0
  BY EmptySeq
<1>2. guards' # <<>>
  <2>1. Len(guards') # Len(<<>>)
    BY <1>1
  <2> QED BY <2>1, Zenon
<1>3. GuardList'
  BY DEF GuardList
<1>4. ~Covered' /\ Own' = {}
  <2>1. Top' = 1
    BY DEF Top
  <2> QED BY <2>1, Zenon DEF Covered, Own
<1> QED BY <1>2, <1>3, <1>4

LEMMA GuardEnds ==
    ASSUME GuardList, Top > 0, guards' = SubSeq(guards, 1, Top - 1)
    PROVE  GuardList' /\ ~Covered' /\ Own' = {} /\ Len(guards') # 2 /\ (Top > 1 => guards' # <<>>)
<1>1. guards # <<>> /\ Top \in {1, 2} /\ Top = Len(guards) /\ guards \in Seq(Guard)
  BY Innermost DEF Top, GuardList
<1>2. CASE Top = 1
  <2>1. guards' = <<>>
    BY <1>2, SubSeqEmpty
  <2> QED BY <1>2, <2>1, EmptySeq DEF Covered, Own, GuardList
<1>3. CASE Top = 2
  <2>1. guards' = SubSeq(guards, 1, 1)
    BY <1>3
  <2>2. guards' \in Seq(Guard) /\ Len(guards') = 1 /\ guards'[1] = guards[1]
    BY <1>1, <1>3, <2>1
  <2>3. guards[1].committed
    BY <1>1, <1>3 DEF GuardList
  <2> QED BY <1>3, <2>2, <2>3, OneLeft
<1> QED BY <1>1, <1>2, <1>3

(* Asking for the effects S under it, or without one.                      *)
LEMMA GuardAttempts ==
    ASSUME GuardList, NEW S \in SUBSET Effects, guards' = Attempted(S)
    PROVE  /\ GuardList' /\ Len(guards') = Len(guards)
           /\ (guards' = <<>>) = (guards = <<>>)
           /\ Covered' = Covered
           /\ Own' = IF Covered THEN Own \cup S ELSE Own
<1>1. CASE Covered
  <2>1. guards # <<>> /\ Top \in {1, 2} /\ guards[Top] \in Guard
    BY <1>1, Innermost DEF Covered
  <2> DEFINE g == [guards[Top] EXCEPT !.rows = @ \cup S]
  <2>2. g \in Guard /\ g.rows = guards[Top].rows \cup S /\ g.committed = guards[Top].committed
    BY <2>1 DEF Guard
  <2>3. guards' = [guards EXCEPT ![Top] = g]
    BY <1>1, <2>1, OwnerInList DEF Attempted
  <2> HIDE DEF g
  <2>4. GuardList' /\ guards' # <<>> /\ Top' = Top /\ guards'[Top'] = g
    BY <2>1, <2>2, <2>3, OneReplaced
  <2>5. Covered' /\ Own' = Own \cup S
    BY <1>1, <2>2, <2>4 DEF Covered, Own
  <2> QED BY <1>1, <2>1, <2>4, <2>5 DEF Top
<1>2. CASE ~Covered
  <2>1. guards' = guards
    BY <1>2, OwnerInList DEF Attempted
  <2> QED BY <1>2, <2>1 DEF Covered, Own, Top, GuardList
<1> QED BY <1>1, <1>2

(* Committing it: Transaction::commit() sets its flag.                     *)
LEMMA GuardCommitted ==
    ASSUME GuardList, Top > 0, guards' = [guards EXCEPT ![Top].committed = TRUE]
    PROVE  GuardList' /\ Len(guards') = Len(guards) /\ guards' # <<>> /\ ~Covered' /\ Own' = {}
<1>1. guards # <<>> /\ guards[Top] \in Guard
  BY Innermost
<1> DEFINE g == [guards[Top] EXCEPT !.committed = TRUE]
<1>2. g \in Guard /\ g.committed = TRUE
  BY <1>1 DEF Guard
<1>3. guards' = [guards EXCEPT ![Top] = g]
  OBVIOUS
<1> HIDE DEF g
<1>4. GuardList' /\ guards' # <<>> /\ Top' = Top /\ guards'[Top'] = g
  BY <1>1, <1>2, <1>3, OneReplaced
<1> QED BY <1>2, <1>4 DEF Covered, Own, Top

(* A call that leaves the guards alone leaves what they cover.             *)
LEMMA GuardStays ==
    ASSUME guards' = guards
    PROVE  Covered' = Covered /\ Own' = Own /\ GuardList' = GuardList
BY DEF Covered, Own, Top, GuardList

-----------------------------------------------------------------------------
(* The session: what each operation of a driver does to it, in the states  *)
(* of the invariant.  Idle is what it has to be outside of a guard.        *)
Idle(s) == s.txn = "none" /\ s.auto /\ s.work = {}

(* What is left of the session s once something has failed in it: at most  *)
(* what it held, and nothing behind a lost link.                           *)
LeftOf(s) ==
    /\ session' \in SessionType
    /\ session'.work \subseteq s.work
    /\ session'.link # "up" => session'.txn = "none" /\ session'.work = {}
    /\ backend \in {"sqlite", "mysql"} => session'.link = "up"
    /\ backend = "sqlite" => session'.auto
    /\ Idle(s) => Idle(session')

(* Only MySQL reconnects, and its link is up here.                         *)
LEMMA NoReconnect ==
    ASSUME Types, SessionFollows
    PROVE  Reached = session
BY DEF SessionFollows, Reached

(* begin_transaction() opens a transaction, or turns autocommit off, and   *)
(* brings nothing into it.                                                 *)
LEMMA BeginsOpen ==
    ASSUME SoundUse, Types, SessionFollows, ~Covered, Begins
    PROVE  /\ store' = store
           /\ session' \in SessionType
           /\ session'.work = {} /\ session'.link = session.link
           /\ session'.link # "up" => session'.txn = "none"
           /\ session'.txn # "aborted" /\ (session'.txn = "open" \/ ~session'.auto)
           /\ backend = "sqlite" => session'.auto
<1>1. Idle(session)
  BY DEF SessionFollows, Idle
<1>2. CASE backend = "sqlite"
  BY <1>1, <1>2 DEF Begins, SqliteBegin, Odbc, Types, SessionType, SessionFollows, Idle
<1>3. CASE backend = "postgres"
  BY <1>1, <1>3 DEF Begins, PostgresBegin, Odbc, Types, SessionType, Idle
<1>4. CASE backend = "mysql"
  BY <1>1, <1>4, NoReconnect
     DEF Begins, MysqlBegin, Odbc, Types, SessionType, SessionFollows, Idle
<1>5. CASE Odbc
  BY <1>1, <1>5 DEF Begins, OdbcBegin, Odbc, Types, SessionType, SessionFollows, Idle
<1> QED BY <1>2, <1>3, <1>4, <1>5 DEF Begins

(* On SQLite a guard cannot be begun in another's transaction: BEGIN is an *)
(* error there.                                                            *)
LEMMA SqliteRefusesToNest ==
    ASSUME Types, SessionFollows, Covered, ~throwing, backend = "sqlite"
    PROVE  ~Begins
<1>1. session.link = "up" /\ session.auto
  BY DEF SessionFollows
<1>2. session.txn = "open"
  BY <1>1 DEF SessionFollows
<1> QED BY <1>2 DEF Begins, SqliteBegin, Odbc

(* What libpq notices changes the link alone, and only a lost one.         *)
LEMMA NoticingKeeps ==
    ASSUME Types, SessionFollows
    PROVE  /\ Noticed(session) \in SessionType
           /\ Noticed(session).txn = session.txn /\ Noticed(session).auto = session.auto
           /\ Noticed(session).work = session.work
           /\ (Noticed(session).link = "up") <=> (session.link = "up")
BY DEF Noticed, Types, SessionType

(* A begin_transaction() that throws opens nothing.                        *)
LEMMA BeginThrowsKeeps ==
    ASSUME Types, SessionFollows, BeginThrows
    PROVE  store' = store /\ LeftOf(session)
BY NoticingKeeps DEF BeginThrows, LeftOf, SessionFollows, Idle

(* Outside of an uncommitted guard a statement commits by itself.          *)
LEMMA ExecutesOutside ==
    ASSUME Types, SessionFollows, ~Covered, NEW S \in SUBSET Effects, Executes(S)
    PROVE  session' = session /\ store' = store \cup S
BY NoReconnect DEF Executes, SessionFollows

(* Under an uncommitted guard it joins the guard's transaction.            *)
LEMMA ExecutesInside ==
    ASSUME Types, SessionFollows, Covered, ~throwing,
           NEW S \in SUBSET Effects, Executes(S)
    PROVE  /\ store' = store
           /\ session' \in SessionType
           /\ session'.link = "up" /\ session'.txn = "open"
           /\ session'.work = Own \cup S /\ session'.auto = session.auto
<1>1. /\ session.link = "up" /\ session.work = Own
      /\ session.txn = "open" \/ ~session.auto
  BY NoReconnect DEF Executes, SessionFollows
<1>2. /\ store' = store
      /\ session' = [session EXCEPT !.txn = "open", !.work = @ \cup S]
  BY <1>1, NoReconnect DEF Executes
<1> QED BY <1>1, <1>2 DEF Types, SessionType

(* A statement that throws stores nothing, and leaves at most the effects  *)
(* it brought along.                                                       *)
LEMMA ExecuteThrowsLeaves ==
    ASSUME Types, SessionFollows, NEW P \in SUBSET Effects, ExecuteThrows(P)
    PROVE  /\ store' = store
           /\ session' \in SessionType
           /\ session'.work \subseteq session.work \cup P
           /\ session'.link # "up" => session'.txn = "none" /\ session'.work = {}
           /\ backend \in {"sqlite", "mysql"} => session'.link = "up"
           /\ session'.auto = session.auto
           /\ Idle(session) /\ P = {} => Idle(session')
<1>1. CASE session' = Noticed(session)
  BY <1>1, NoticingKeeps DEF ExecuteThrows, SessionFollows, Idle
<1>2. CASE session.link = "up" /\ session' \in AfterRefusal(session, P)
  <2>1. CASE backend = "postgres"
    BY <1>2, <2>1 DEF ExecuteThrows, AfterRefusal, Types, SessionType, Idle
  <2>2. CASE session' = NoTxn(session)
    BY <1>2, <2>2 DEF ExecuteThrows, NoTxn, Types, SessionType, Idle
  <2>3. CASE session' = [session EXCEPT !.work = @ \cup P]
    BY <1>2, <2>3 DEF ExecuteThrows, Types, SessionType, Idle
  <2> QED BY <1>2, <2>1, <2>2, <2>3 DEF AfterRefusal
<1> QED BY <1>1, <1>2, NoReconnect DEF ExecuteThrows

(* commit() stores exactly what the guard was asked for.                   *)
LEMMA CommitsStores ==
    ASSUME Types, SessionFollows, Covered, ~throwing, Commits
    PROVE  /\ store' = store \cup Own
           /\ session' \in SessionType /\ session'.link = "up" /\ Idle(session')
<1>1. session.link = "up" /\ session.txn # "aborted" /\ session.work = Own
  BY NoReconnect DEF Commits, SessionFollows
<1> QED BY <1>1, NoReconnect DEF Commits, AutoOn, NoTxn, Types, SessionType, Idle

(* A commit() that throws stores nothing.                                  *)
LEMMA CommitThrowsLeaves ==
    ASSUME SoundUse, Types, SessionFollows, CommitThrows
    PROVE  store' = store /\ LeftOf(session)
<1>1. "endtran" \notin Faults
  BY DEF SoundUse
<1>2. CASE session' = AutoOn(Noticed(session))
  BY <1>1, <1>2, NoReconnect, NoticingKeeps
     DEF CommitThrows, AutoOn, Types, SessionType, SessionFollows, LeftOf, Idle
<1>3. CASE session.link = "up" /\ session' = AutoOn(NoTxn(session))
  BY <1>1, <1>3, NoReconnect
     DEF CommitThrows, AutoOn, NoTxn, Types, SessionType, LeftOf, Idle
<1>4. CASE session.link = "up" /\ session' = session
  BY <1>1, <1>4, NoReconnect
     DEF CommitThrows, Types, SessionFollows, LeftOf, Idle
<1> QED BY <1>2, <1>3, <1>4, NoReconnect DEF CommitThrows

(* A commit whose answer is lost: the effects are stored, or they are not. *)
LEMMA LostCommitLeaves ==
    ASSUME SoundUse, Types, SessionFollows, Covered, ~throwing, LinkMayDrop,
           session' = AutoOn(Noticed(Lost(session))),
           store' \in {store, store \cup session.work}
    PROVE  /\ store' = store \/ store' = store \cup Own
           /\ LeftOf(session)
<1>1. session.link = "up" /\ session.work = Own /\ backend \notin {"sqlite", "mysql"}
  BY DEF LinkMayDrop, SoundUse, SessionFollows
<1>2. /\ session' \in SessionType
      /\ session'.link # "up" /\ session'.txn = "none" /\ session'.work = {} /\ session'.auto
  BY DEF AutoOn, Noticed, Lost, NoTxn, Types, SessionType
<1> QED BY <1>1, <1>2 DEF LeftOf, Idle

(* The destructor's rollback leaves an idle session.                       *)
LEMMA RollsBackClears ==
    ASSUME SoundUse, Types, SessionFollows, RollsBack
    PROVE  /\ store' = store
           /\ session' \in SessionType /\ Idle(session')
           /\ backend \in {"sqlite", "mysql"} => session'.link = "up"
<1>1. "endtran" \notin Faults
  BY DEF SoundUse
<1>2. store' = store /\ session' = AutoOn(NoTxn(Noticed(session)))
  BY <1>1, NoReconnect DEF RollsBack
<1> QED BY <1>2, NoticingKeeps DEF AutoOn, NoTxn, SessionType, SessionFollows, Idle

-----------------------------------------------------------------------------
(* The value of batch outside of a batch call.                             *)
LEMMA NoBatchType == NoBatch \in BatchType /\ NoBatch.left = {} /\ NoBatch.all = {}
BY DEF NoBatch, BatchType

(* A fresh connection without a guard.                                     *)
LEMMA InitIInv == Init => IInv
<1> SUFFICES ASSUME Init PROVE IInv
  OBVIOUS
<1>1. ~Covered /\ Own = {} /\ batch.left = {} /\ batch.all = {} /\ Len(guards) # 2
  BY NoBatchType DEF Init, Covered, Own
<1>2. Types
  <2>1. GuardList
    BY EmptySeq DEF Init, GuardList
  <2> QED BY <2>1, NoBatchType DEF Init, Types, FreshSession, SessionType
<1>3. SessionFollows
  BY <1>1 DEF Init, SessionFollows, FreshSession
<1>4. EffectsApart
  BY <1>1 DEF Init, EffectsApart
<1>5. BatchShape
  BY <1>1 DEF Init, BatchShape
<1> QED BY <1>2, <1>3, <1>4, <1>5
        DEF Init, IInv, CommitKeeps, RollbackUndoes, BatchAtomic

(* Without a guard nothing is covered.                                     *)
LEMMA UnguardedIsUncovered == ASSUME guards = <<>> PROVE ~Covered /\ Own = {} /\ Len(guards) # 2
BY DEF Covered, Own

(* Transaction(conn).                                                      *)
LEMMA BeginTransactionIInv ==
    ASSUME SoundUse, IInv, BeginTransaction
    PROVE  IInv'
<1> USE DEF BeginTransaction, Calling, told
<1>1. ~Covered /\ Own = {} /\ Len(guards) # 2 /\ batch.left = {} /\ batch.all = {}
  BY UnguardedIsUncovered, NoBatchType
<1>2. CASE Begins /\ guards' = Append(guards, NewGuard) /\ UNCHANGED throwing
  <2>1. GuardList' /\ guards' # <<>> /\ Len(guards') # 2 /\ Covered' /\ Own' = {}
    <3>1. Len(guards') = 1
      BY <1>2
    <3> QED BY <1>1, <1>2, <3>1, GuardBegins DEF IInv, Types
  <2>2. /\ store' = store /\ session' \in SessionType
        /\ session'.work = {} /\ session'.link = session.link
        /\ session'.link # "up" => session'.txn = "none"
        /\ session'.txn # "aborted" /\ (session'.txn = "open" \/ ~session'.auto)
        /\ backend = "sqlite" => session'.auto
    BY <1>1, <1>2, BeginsOpen DEF IInv
  <2>3. Types'
    BY <1>2, <2>1, <2>2 DEF IInv, Types
  <2>4. SessionFollows'
    BY <2>1, <2>2 DEF IInv, SessionFollows
  <2>5. EffectsApart'
    BY <1>1, <1>2, <2>1, <2>2 DEF IInv, EffectsApart, Untouched
  <2>6. BatchShape'
    BY <1>1, <1>2, <2>1, <2>2 DEF IInv, BatchShape, Untouched
  <2> QED BY <2>2, <2>3, <2>4, <2>5, <2>6
          DEF IInv, CommitKeeps, RollbackUndoes, BatchAtomic
<1>3. CASE BeginThrows /\ Throw /\ UNCHANGED guards
  <2>1. ~Covered' /\ Own' = {} /\ GuardList' /\ Len(guards') # 2 /\ throwing' = FALSE
    <3>1. throwing' = FALSE
      BY <1>3, Zenon DEF Throw
    <3> QED BY <1>1, <1>3, <3>1, GuardStays DEF IInv, Types
  <2>2. store' = store /\ session' \in SessionType /\ Idle(session')
        /\ (backend \in {"sqlite", "mysql"} => session'.link = "up")
    BY <1>1, <1>3, BeginThrowsKeeps DEF IInv, SessionFollows, LeftOf, Idle
  <2>3. Types'
    BY <1>3, <2>1, <2>2 DEF IInv, Types
  <2>4. SessionFollows'
    BY <2>1, <2>2 DEF IInv, SessionFollows, Idle
  <2>5. EffectsApart'
    BY <1>1, <1>3, <2>1, <2>2 DEF IInv, EffectsApart, Untouched
  <2>6. BatchShape'
    BY <1>1, <1>3, <2>1, <2>2 DEF IInv, BatchShape, Untouched
  <2> QED BY <2>2, <2>3, <2>4, <2>5, <2>6
          DEF IInv, CommitKeeps, RollbackUndoes, BatchAtomic
<1> QED BY <1>2, <1>3

(* insert(), upsert(), execute_raw() and the queries' update and remove.   *)
LEMMA ModifyIInv ==
    ASSUME SoundUse, IInv, NEW e \in Effects, Modify(e)
    PROVE  IInv'
<1> USE DEF Modify, Calling
<1>1. batch.left = {} /\ batch.all = {} /\ UNCHANGED <<backend, batch, dropped, unsure, batches>>
  BY NoBatchType
<1>2. e \in fresh /\ fresh' = fresh \ {e}
  OBVIOUS
<1>3. CASE Executes({e}) /\ Record({e}) /\ UNCHANGED throwing /\ ~Covered
  <2>1. guards' = guards /\ kept' = kept \cup {e}
    BY <1>3, OwnerInList DEF Record, IInv, Types
  <2>2. Covered' = Covered /\ Own' = Own /\ Own = {} /\ GuardList' /\ Len(guards') = Len(guards)
    BY <1>3, <2>1, GuardStays DEF IInv, Types, Own
  <2>3. session' = session /\ store' = store \cup {e}
    BY <1>3, ExecutesOutside DEF IInv
  <2>4. Types'
    BY <1>1, <1>2, <1>3, <2>1, <2>2, <2>3 DEF IInv, Types
  <2>5. SessionFollows'
    BY <1>1, <1>3, <2>2, <2>3 DEF IInv, SessionFollows
  <2>6. EffectsApart'
    BY <1>1, <1>2, <1>3, <2>1, <2>2, <2>3 DEF IInv, EffectsApart, Untouched
  <2>7. BatchShape'
    BY <1>1, <1>2, <1>3, <2>1, <2>2, <2>3 DEF IInv, BatchShape, Untouched
  <2>8. CommitKeeps' /\ RollbackUndoes' /\ BatchAtomic'
    <3>1. e \notin dropped /\ \A b \in batches : e \notin b
      BY <1>2 DEF IInv, EffectsApart, BatchShape, Untouched
    <3> QED BY <1>1, <2>1, <2>3, <3>1 DEF IInv, CommitKeeps, RollbackUndoes, BatchAtomic
  <2> QED BY <2>4, <2>5, <2>6, <2>7, <2>8 DEF IInv
<1>4. CASE Executes({e}) /\ Record({e}) /\ UNCHANGED throwing /\ Covered
  <2>1. kept' = kept /\ guards' = Attempted({e})
    <3>1. GuardList
      BY DEF IInv, Types
    <3>2. Owner = Top /\ Top # 0
      BY <1>4, <3>1, OwnerInList, Innermost DEF Covered
    <3> QED BY <1>4, <3>2 DEF Record, Attempted
  <2>2. /\ GuardList' /\ Len(guards') = Len(guards)
        /\ (guards' = <<>>) = (guards = <<>>)
        /\ Covered' = Covered /\ Own' = Own \cup {e}
    <3>1. Covered /\ guards' = Attempted({e}) /\ GuardList
      BY <1>4, <2>1 DEF IInv, Types
    <3>2. {e} \in SUBSET Effects
      OBVIOUS
    <3> HIDE DEF Modify
    <3> QED BY <3>1, <3>2, GuardAttempts
  <2>4. /\ store' = store /\ session' \in SessionType /\ session'.auto = session.auto
        /\ session'.link = "up" /\ session'.txn = "open" /\ session'.work = Own \cup {e}
    BY <1>4, ExecutesInside DEF IInv
  <2>5. Types'
    BY <1>1, <1>2, <1>4, <2>1, <2>2, <2>4 DEF IInv, Types
  <2>6. SessionFollows'
    BY <1>1, <1>4, <2>2, <2>4 DEF IInv, SessionFollows
  <2>7. EffectsApart'
    BY <1>1, <1>2, <1>4, <2>1, <2>2, <2>4 DEF IInv, EffectsApart, Untouched
  <2>8. BatchShape'
    <3>1. \A b \in batches : b \cap (Untouched' \cup Own') = {}
      BY <1>1, <1>2, <1>4, <2>2 DEF IInv, BatchShape, Untouched
    <3>2. /\ batch.all \cap fresh' = {} /\ batch.left \subseteq batch.all
          /\ batch.all \cap store' = {} \/ batch.all \subseteq store'
          /\ batch = NoBatch
      BY <1>1
    <3>3. Len(guards') # 2 /\ (throwing' => guards' # <<>>)
      <4>1. (throwing => guards # <<>>) /\ Len(guards) # 2
        BY <3>2 DEF IInv, BatchShape
      <4> QED BY <1>4, <2>2, <4>1
    <3> QED BY <1>1, <3>1, <3>2, <3>3 DEF BatchShape
  <2> QED BY <1>1, <2>1, <2>4, <2>5, <2>6, <2>7, <2>8
          DEF IInv, CommitKeeps, RollbackUndoes, BatchAtomic
<1>5. CASE ExecuteThrows({}) /\ Throw /\ guards' = Attempted({e}) /\ UNCHANGED kept
  <2>1. /\ GuardList' /\ Len(guards') = Len(guards)
        /\ (guards' = <<>>) = (guards = <<>>)
        /\ Covered' = Covered /\ Own' = IF Covered THEN Own \cup {e} ELSE Own
    <3>1. guards' = Attempted({e}) /\ GuardList
      BY <1>5 DEF IInv, Types
    <3>2. {e} \in SUBSET Effects
      OBVIOUS
    <3> HIDE DEF Modify
    <3> QED BY <3>1, <3>2, GuardAttempts
  <2>3. throwing' \in BOOLEAN /\ (throwing' => guards' # <<>>)
                             /\ (~throwing' => ~Covered')
    <3>1. throwing' = (guards # <<>>)
      BY <1>5 DEF Throw
    <3>2. guards = <<>> => ~Covered
      BY UnguardedIsUncovered
    <3> QED BY <2>1, <3>1, <3>2, Zenon
  <2>4. /\ store' = store /\ session' \in SessionType
        /\ session'.work \subseteq session.work
        /\ session'.link # "up" => session'.txn = "none" /\ session'.work = {}
        /\ backend \in {"sqlite", "mysql"} => session'.link = "up"
        /\ session'.auto = session.auto
        /\ Idle(session) => Idle(session')
    BY <1>5, ExecuteThrowsLeaves DEF IInv
  <2>5. Types'
    BY <1>1, <1>2, <1>5, <2>1, <2>3, <2>4 DEF IInv, Types
  <2>6. SessionFollows'
    BY <1>1, <2>1, <2>3, <2>4 DEF IInv, SessionFollows, Idle
  <2>7. EffectsApart'
    BY <1>1, <1>2, <1>5, <2>1, <2>4 DEF IInv, EffectsApart, Untouched
  <2>8. BatchShape'
    BY <1>1, <1>2, <2>1, <2>3, <2>4 DEF IInv, BatchShape, Untouched
  <2> QED BY <1>1, <1>5, <2>4, <2>5, <2>6, <2>7, <2>8
          DEF IInv, CommitKeeps, RollbackUndoes, BatchAtomic
<1> QED BY <1>3, <1>4, <1>5

(* insert_many(), delete_many(), update_many() and upsert_many() begin.    *)
LEMMA StartBatchIInv ==
    ASSUME SoundUse, IInv, NEW R \in SUBSET Effects, NEW size \in {1, ChunkSize},
           NEW preparesFirst \in BOOLEAN, StartBatch(R, size, preparesFirst)
    PROVE  IInv'
<1> USE DEF StartBatch, Calling, told
<1>1. /\ ~throwing /\ batch = NoBatch /\ batch.left = {} /\ batch.all = {} /\ Len(guards) # 2
      /\ Begins => ~Covered /\ Own = {}
  <2>1. guards = <<>> \/ backend = "sqlite"
    BY DEF SoundUse
  <2>2. Begins => ~Covered
    BY <2>1, UnguardedIsUncovered, SqliteRefusesToNest DEF IInv
  <2> QED BY <2>2, NoBatchType DEF IInv, BatchShape, Own
<1>2. R \subseteq fresh /\ fresh' = fresh \ R
  OBVIOUS
<1>3. CASE /\ Begins /\ guards' = Append(guards, NewGuard)
           /\ batch' = [left |-> R, all |-> R, size |-> size] /\ UNCHANGED throwing
  <2>1. GuardList' /\ guards' # <<>> /\ Covered' /\ Own' = {}
    BY <1>1, <1>3, GuardBegins DEF IInv, Types
  <2>2. /\ store' = store /\ session' \in SessionType
        /\ session'.work = {} /\ session'.link = session.link
        /\ session'.link # "up" => session'.txn = "none"
        /\ session'.txn # "aborted" /\ (session'.txn = "open" \/ ~session'.auto)
        /\ backend = "sqlite" => session'.auto
    BY <1>1, <1>3, BeginsOpen DEF IInv
  <2>3. batch' \in BatchType /\ batch'.left = R /\ batch'.all = R
    BY <1>3 DEF BatchType
  <2>4. Types'
    BY <1>2, <1>3, <2>1, <2>2, <2>3 DEF IInv, Types
  <2>5. SessionFollows'
    BY <2>1, <2>2 DEF IInv, SessionFollows
  <2>6. EffectsApart'
    BY <1>1, <1>2, <1>3, <2>1, <2>2, <2>3 DEF IInv, EffectsApart, Untouched
  <2>7. BatchShape'
    BY <1>1, <1>2, <1>3, <2>1, <2>2, <2>3 DEF IInv, BatchShape, EffectsApart, Untouched
  <2> QED BY <2>2, <2>4, <2>5, <2>6, <2>7
          DEF IInv, CommitKeeps, RollbackUndoes, BatchAtomic
<1>4. CASE /\ BeginThrows \/ (preparesFirst /\ ExecuteThrows({}))
           /\ Throw /\ UNCHANGED <<guards, batch>>
  <2>1. /\ Covered' = Covered /\ Own' = Own /\ GuardList' /\ Len(guards') # 2
        /\ throwing' \in BOOLEAN /\ (throwing' => guards' # <<>>) /\ (~throwing' => ~Covered)
    <3>1. throwing' = (guards # <<>>)
      BY <1>4 DEF Throw
    <3>2. Covered' = Covered /\ Own' = Own /\ GuardList'
      BY <1>4, GuardStays DEF IInv, Types
    <3>3. guards' = guards /\ (guards = <<>> => ~Covered)
      BY <1>4, UnguardedIsUncovered
    <3> HIDE DEF StartBatch, Calling
    <3> QED BY <1>1, <3>1, <3>2, <3>3, Zenon
  <2>2. store' = store /\ LeftOf(session)
    <3>1. CASE BeginThrows
      BY <3>1, BeginThrowsKeeps DEF IInv
    <3>2. CASE ExecuteThrows({})
      BY <3>2, ExecuteThrowsLeaves DEF IInv, SessionFollows, LeftOf
    <3> QED BY <1>4, <3>1, <3>2
  <2>3. Types'
    BY <1>2, <1>4, <2>1, <2>2 DEF IInv, Types, LeftOf
  <2>4. SessionFollows'
    BY <2>1, <2>2 DEF IInv, SessionFollows, LeftOf, Idle
  <2>5. EffectsApart'
    BY <1>1, <1>2, <1>4, <2>1, <2>2 DEF IInv, EffectsApart, Untouched
  <2>6. BatchShape'
    BY <1>1, <1>2, <1>4, <2>1, <2>2 DEF IInv, BatchShape, Untouched
  <2> QED BY <2>2, <2>3, <2>4, <2>5, <2>6
          DEF IInv, CommitKeeps, RollbackUndoes, BatchAtomic
<1> QED BY <1>3, <1>4

(* Their loop.                                                             *)
LEMMA BatchChunkIInv ==
    ASSUME SoundUse, IInv, BatchChunk
    PROVE  IInv'
<1>1. /\ ~throwing /\ batch.left # {}
      /\ UNCHANGED <<backend, fresh, kept, dropped, unsure, batches>>
  BY DEF BatchChunk, told
<1>2. PICK S \in Chunks :
         /\ \/ /\ \E W \in ChunkStored(S) : Executes(W)
               /\ batch' = [batch EXCEPT !.left = @ \ S]
               /\ UNCHANGED throwing
            \/ /\ \E P \in ChunkPartly(S) : ExecuteThrows(P)
               /\ throwing' = TRUE
               /\ UNCHANGED batch
         /\ guards' = Attempted(S)
  BY DEF BatchChunk
<1>3. S \subseteq batch.left /\ S \in SUBSET Effects
  BY DEF Chunks, IInv, Types, BatchType
<1>4. batch # NoBatch /\ Covered
  BY <1>1, NoBatchType DEF IInv, BatchShape
<1>5. /\ GuardList' /\ Len(guards') = Len(guards) /\ guards' # <<>>
      /\ Covered' /\ Own' = Own \cup S
  <2>1. /\ GuardList' /\ Len(guards') = Len(guards)
        /\ Covered' = Covered /\ Own' = IF Covered THEN Own \cup S ELSE Own
    BY <1>2, <1>3, GuardAttempts DEF IInv, Types
  <2>2. guards' # <<>> /\ Covered'
    BY <1>4, <2>1 DEF Covered
  <2> QED BY <1>4, <2>1, <2>2
<1>6. CASE /\ \E W \in ChunkStored(S) : Executes(W)
           /\ batch' = [batch EXCEPT !.left = @ \ S] /\ UNCHANGED throwing
  <2>1. Executes(S)
    BY <1>6 DEF ChunkStored, SoundUse
  <2>2. /\ store' = store /\ session' \in SessionType /\ session'.auto = session.auto
        /\ session'.link = "up" /\ session'.txn = "open" /\ session'.work = Own \cup S
    BY <1>1, <1>3, <1>4, <2>1, ExecutesInside DEF IInv
  <2>3. batch' \in BatchType /\ batch'.left = batch.left \ S /\ batch'.all = batch.all
    BY <1>6 DEF IInv, Types, BatchType
  <2>4. Types'
    BY <1>1, <1>5, <1>6, <2>2, <2>3 DEF IInv, Types
  <2>5. SessionFollows'
    BY <1>1, <1>5, <1>6, <2>2 DEF IInv, SessionFollows
  <2>6. EffectsApart'
    <3>1. S \subseteq Untouched /\ S \cap fresh = {}
      BY <1>1, <1>3 DEF IInv, BatchShape, Untouched
    <3>2. Untouched' = fresh \cup (batch.left \ S) /\ Untouched = fresh \cup batch.left
      BY <1>1, <1>6, <2>3 DEF Untouched
    <3> QED BY <1>1, <1>5, <2>2, <3>1, <3>2 DEF IInv, EffectsApart
  <2>7. BatchShape'
    <3>1. \A b \in batches' : b \cap (Untouched' \cup Own') = {}
      BY <1>1, <1>3, <1>5, <1>6, <2>3 DEF IInv, BatchShape, Untouched
    <3>2. /\ batch'.left \subseteq batch'.all /\ batch'.all \cap fresh' = {}
          /\ Own' = batch'.all \ batch'.left /\ batch'.all \cap store' = {}
      BY <1>1, <1>3, <1>4, <1>5, <2>2, <2>3 DEF IInv, BatchShape
    <3>3. ~throwing' /\ (Len(guards') = 2 => batch' # NoBatch)
      <4>1. batch'.all # {}
        BY <1>1, <1>3, <2>3 DEF IInv, BatchShape
      <4> QED BY <1>1, <1>6, <4>1, NoBatchType
    <3> QED BY <1>5, <3>1, <3>2, <3>3 DEF BatchShape
  <2> QED BY <1>1, <2>2, <2>4, <2>5, <2>6, <2>7
          DEF IInv, CommitKeeps, RollbackUndoes, BatchAtomic
<1>7. CASE /\ \E P \in ChunkPartly(S) : ExecuteThrows(P)
           /\ throwing' = TRUE /\ UNCHANGED batch
  <2>1. PICK P \in SUBSET S : ExecuteThrows(P)
    BY <1>7 DEF ChunkPartly
  <2>2. /\ store' = store /\ session' \in SessionType
        /\ session'.work \subseteq session.work \cup S
        /\ session'.link # "up" => session'.txn = "none" /\ session'.work = {}
        /\ backend \in {"sqlite", "mysql"} => session'.link = "up"
        /\ session'.auto = session.auto
    BY <1>3, <2>1, ExecuteThrowsLeaves DEF IInv
  <2>3. Types'
    BY <1>1, <1>5, <1>7, <2>2 DEF IInv, Types
  <2>4. SessionFollows'
    BY <1>1, <1>5, <1>7, <2>2 DEF IInv, SessionFollows
  <2>5. EffectsApart'
    <3>1. S \subseteq Untouched /\ S \cap fresh = {} /\ fresh \subseteq Untouched
      BY <1>1, <1>3 DEF IInv, BatchShape, Untouched
    <3>2. Untouched' = fresh
      BY <1>1, <1>7 DEF Untouched
    <3> QED BY <1>1, <1>5, <2>2, <3>1, <3>2 DEF IInv, EffectsApart
  <2>6. BatchShape'
    BY <1>1, <1>3, <1>4, <1>5, <1>7, <2>2 DEF IInv, BatchShape, Untouched
  <2> QED BY <1>1, <2>2, <2>3, <2>4, <2>5, <2>6
          DEF IInv, CommitKeeps, RollbackUndoes, BatchAtomic
<1> QED BY <1>2, <1>6, <1>7

(* A commit that throws in the guard alive, whatever happened to it.       *)
LEMMA GuardCommitThrowsLeaves ==
    ASSUME SoundUse, IInv, Covered, ~throwing, GuardCommitThrows(Top)
    PROVE  /\ kept' = kept
           /\ \/ store' = store /\ unsure' = unsure
              \/ store' = store /\ unsure' = unsure \cup Own
              \/ store' = store \cup Own /\ unsure' = unsure \cup Own
           /\ LeftOf(session)
<1>1. guards[Top].rows = Own
  BY DEF Own
<1>2. CASE CommitThrows /\ UNCHANGED <<kept, unsure>>
  BY <1>2, CommitThrowsLeaves DEF IInv
<1>3. CASE /\ LinkMayDrop
           /\ session' = AutoOn(Noticed(Lost(session)))
           /\ store' \in {store, store \cup session.work}
           /\ unsure' = unsure \cup guards[Top].rows
           /\ UNCHANGED kept
  BY <1>1, <1>3, LostCommitLeaves DEF IInv
<1> QED BY <1>2, <1>3 DEF GuardCommitThrows

(* The invariant once it has thrown: the guard is alive, its exception     *)
(* is unwinding, and what it holds may have been stored behind its back.   *)
LEMMA CommitThrowsIInv ==
    ASSUME SoundUse, IInv, Covered, ~throwing, GuardCommitThrows(Top),
           batch.left = {}, throwing' = TRUE,
           UNCHANGED <<backend, fresh, guards, batch, dropped, batches>>
    PROVE  IInv'
<1>1. /\ kept' = kept
      /\ \/ store' = store /\ unsure' = unsure
         \/ store' = store /\ unsure' = unsure \cup Own
         \/ store' = store \cup Own /\ unsure' = unsure \cup Own
      /\ LeftOf(session)
  BY GuardCommitThrowsLeaves
<1>2. Covered' /\ Own' = Own /\ GuardList' /\ Len(guards') = Len(guards) /\ Own \subseteq Effects
  <2>1. Own \subseteq Effects
    BY Innermost DEF IInv, Types, Own, Covered, Guard
  <2> QED BY <2>1, GuardStays DEF IInv, Types
<1>3. Types'
  BY <1>1, <1>2 DEF IInv, Types, LeftOf
<1>4. SessionFollows'
  BY <1>1, <1>2 DEF IInv, SessionFollows, LeftOf
<1>5. EffectsApart'
  BY <1>1, <1>2 DEF IInv, EffectsApart, Untouched
<1>6. BatchShape'
  <2>1. batch.all \cap store' = {} \/ batch.all \subseteq store'
    BY <1>1, NoBatchType DEF IInv, BatchShape
  <2>2. guards # <<>>
    BY DEF Covered
  <2> QED BY <1>1, <1>2, <2>1, <2>2 DEF IInv, BatchShape, Untouched
<1>7. CommitKeeps' /\ RollbackUndoes'
  BY <1>1, <1>2 DEF IInv, CommitKeeps, RollbackUndoes, EffectsApart
<1>8. BatchAtomic'
  <2>1. \A b \in batches : b \cap Own = {}
    BY <1>2 DEF IInv, BatchShape
  <2>2. ASSUME NEW b \in batches PROVE b \subseteq store' \/ b \cap store' = {}
    BY <1>1, <2>1 DEF IInv, BatchAtomic
  <2> QED BY <2>2 DEF BatchAtomic
<1> QED BY <1>3, <1>4, <1>5, <1>6, <1>7, <1>8 DEF IInv

(* Transaction::commit().                                                  *)
LEMMA CommitTransactionIInv ==
    ASSUME SoundUse, IInv, CommitTransaction
    PROVE  IInv'
<1> USE DEF CommitTransaction, Calling
<1>1. /\ ~throwing /\ batch = NoBatch /\ batch.left = {} /\ batch.all = {} /\ Top > 0
      /\ UNCHANGED <<backend, fresh, batch, dropped, batches>>
  BY NoBatchType
<1>2. guards # <<>> /\ Covered /\ guards[Top].rows = Own /\ Own \subseteq Effects
  BY Innermost DEF IInv, Types, Covered, Own, Guard
<1>3. CASE /\ GuardCommits(Top)
           /\ guards' = [guards EXCEPT ![Top].committed = TRUE]
           /\ UNCHANGED throwing
  <2>1. /\ GuardList' /\ Len(guards') = Len(guards) /\ guards' # <<>>
        /\ ~Covered' /\ Own' = {}
    BY <1>1, <1>3, GuardCommitted DEF IInv, Types
  <2>2. kept' = kept \cup Own /\ unsure' = unsure
    BY <1>2, <1>3 DEF GuardCommits
  <2>3. /\ store' = store \cup Own
        /\ session' \in SessionType /\ session'.link = "up" /\ Idle(session')
    BY <1>1, <1>2, <1>3, CommitsStores DEF GuardCommits, IInv
  <2>4. Types'
    BY <1>1, <1>2, <1>3, <2>1, <2>2, <2>3 DEF IInv, Types
  <2>5. SessionFollows'
    BY <2>1, <2>3 DEF SessionFollows, Idle
  <2>6. EffectsApart'
    BY <1>1, <1>3, <2>1, <2>2, <2>3 DEF IInv, EffectsApart, Untouched
  <2>7. BatchShape'
    BY <1>1, <1>3, <2>1, <2>2, <2>3 DEF IInv, BatchShape, Untouched
  <2>8. CommitKeeps' /\ RollbackUndoes' /\ BatchAtomic'
    <3>1. Own \cap dropped = {} /\ \A b \in batches : b \cap Own = {}
      BY <2>1 DEF IInv, EffectsApart, BatchShape
    <3> QED BY <1>1, <2>2, <2>3, <3>1 DEF IInv, CommitKeeps, RollbackUndoes, BatchAtomic
  <2> QED BY <2>4, <2>5, <2>6, <2>7, <2>8 DEF IInv
<1>4. CASE GuardCommitThrows(Top) /\ throwing' = TRUE /\ UNCHANGED guards
  BY <1>1, <1>2, <1>4, CommitThrowsIInv
<1> QED BY <1>3, <1>4

(* The batch calls end.                                                    *)
LEMMA FinishBatchIInv ==
    ASSUME SoundUse, IInv, FinishBatch
    PROVE  IInv'
<1> USE DEF FinishBatch
<1>1. /\ ~throwing /\ batch # NoBatch /\ batch.left = {}
      /\ UNCHANGED <<backend, fresh, dropped>>
  OBVIOUS
<1>2. /\ Covered /\ Top > 0 /\ guards[Top].rows = Own
      /\ Own = batch.all /\ Own \subseteq Effects
  <2>1. Covered /\ Own = batch.all
    BY <1>1 DEF IInv, BatchShape
  <2>2. Top > 0 /\ guards[Top] \in Guard
    BY <2>1, Innermost DEF IInv, Types, Covered
  <2> QED BY <2>1, <2>2 DEF Own, Guard
<1>3. CASE /\ GuardCommits(Top)
           /\ guards' = SubSeq(guards, 1, Top - 1)
           /\ batch' = NoBatch /\ batches' = batches \cup {batch.all}
           /\ UNCHANGED throwing
  <2>1. GuardList' /\ Len(guards') # 2 /\ ~Covered' /\ Own' = {}
    BY <1>2, <1>3, GuardEnds DEF IInv, Types
  <2>2. kept' = kept \cup Own /\ unsure' = unsure
    BY <1>2, <1>3 DEF GuardCommits
  <2>3. /\ store' = store \cup Own
        /\ session' \in SessionType /\ session'.link = "up" /\ Idle(session')
    BY <1>1, <1>2, <1>3, CommitsStores DEF GuardCommits, IInv
  <2>4. batch'.left = {} /\ batch'.all = {} /\ batch' \in BatchType
    BY <1>3, NoBatchType
  <2>5. Types'
    BY <1>1, <1>2, <1>3, <2>1, <2>2, <2>3, <2>4 DEF IInv, Types
  <2>6. SessionFollows'
    BY <2>1, <2>3 DEF SessionFollows, Idle
  <2>7. EffectsApart'
    BY <1>1, <1>2, <1>3, <2>1, <2>2, <2>3, <2>4 DEF IInv, EffectsApart, Untouched
  <2>8. BatchShape'
    <3>1. \A b \in batches' : b \cap (Untouched' \cup Own') = {}
      BY <1>1, <1>2, <1>3, <2>1, <2>4 DEF IInv, BatchShape, Untouched
    <3> QED BY <1>1, <1>3, <2>1, <2>4, <3>1 DEF BatchShape
  <2>9. CommitKeeps' /\ RollbackUndoes' /\ BatchAtomic'
    <3>1. Own \cap dropped = {} /\ \A b \in batches : b \cap Own = {}
      BY <1>2 DEF IInv, EffectsApart, BatchShape
    <3>2. ASSUME NEW b \in batches' PROVE b \subseteq store' \/ b \cap store' = {}
      BY <1>2, <1>3, <2>3, <3>1, <3>2 DEF IInv, BatchAtomic
    <3> QED BY <1>1, <2>2, <2>3, <3>1, <3>2 DEF IInv, CommitKeeps, RollbackUndoes, BatchAtomic
  <2> QED BY <2>5, <2>6, <2>7, <2>8, <2>9 DEF IInv
<1>4. CASE GuardCommitThrows(Top) /\ throwing' = TRUE /\ UNCHANGED <<guards, batch, batches>>
  BY <1>1, <1>2, <1>4, CommitThrowsIInv
<1> QED BY <1>3, <1>4

(* ~Transaction().                                                         *)
LEMMA EndGuardIInv ==
    ASSUME SoundUse, IInv, EndGuard
    PROVE  IInv'
<1> USE DEF EndGuard
<1>1. /\ guards[Top] \in Guard /\ guards # <<>>
      /\ Covered => Own = guards[Top].rows /\ Own \subseteq Effects
      /\ Covered <=> ~guards[Top].committed
  BY Innermost DEF IInv, Types, Own, Covered, Guard
<1>2. /\ GuardList' /\ Len(guards') # 2 /\ ~Covered' /\ Own' = {}
      /\ throwing' \in BOOLEAN /\ (throwing' => throwing /\ guards' # <<>>)
  BY GuardEnds DEF IInv, Types
<1>3. /\ UNCHANGED <<backend, fresh, kept, unsure>>
      /\ batch' \in BatchType /\ batch'.left = {} /\ batch'.all = {} /\ batch' = NoBatch
  BY NoBatchType
<1>4. /\ store' = store
      /\ session' \in SessionType /\ Idle(session')
      /\ backend \in {"sqlite", "mysql"} => session'.link = "up"
      /\ dropped' = IF Covered THEN dropped \cup (Own \ unsure) ELSE dropped
  <2>1. CASE Covered
    BY <1>1, <2>1, RollsBackClears DEF IInv
  <2>2. CASE ~Covered
    BY <1>1, <2>2 DEF IInv, Types, SessionFollows, Idle
  <2> QED BY <2>1, <2>2
<1>5. /\ batches' = IF batch = NoBatch THEN batches ELSE batches \cup {batch.all}
      /\ batch # NoBatch => throwing
  OBVIOUS
<1>6. Types'
  BY <1>1, <1>2, <1>3, <1>4, <1>5 DEF IInv, Types, BatchType
<1>7. SessionFollows'
  BY <1>2, <1>3, <1>4 DEF SessionFollows, Idle
<1>8. EffectsApart'
  BY <1>2, <1>3, <1>4 DEF IInv, EffectsApart, Untouched
<1>9. BatchShape'
  <2>1. ASSUME NEW b \in batches' PROVE b \cap fresh = {}
    BY <1>5 DEF IInv, BatchShape, Untouched
  <2> QED BY <1>2, <1>3, <2>1 DEF BatchShape, Untouched
<1>10. CommitKeeps' /\ RollbackUndoes'
  BY <1>3, <1>4 DEF IInv, EffectsApart, CommitKeeps, RollbackUndoes, Own
<1>11. BatchAtomic'
  <2>1. ASSUME NEW b \in batches' PROVE b \subseteq store \/ b \cap store = {}
    BY <1>5 DEF IInv, BatchShape, BatchAtomic
  <2> QED BY <1>4, <2>1 DEF BatchAtomic
<1> QED BY <1>6, <1>7, <1>8, <1>9, <1>10, <1>11 DEF IInv

(* The session alone changes: a link is lost, or a connection replaced.    *)
LEMMA SessionChangesIInv ==
    ASSUME SoundUse, IInv,
           UNCHANGED <<backend, store, fresh, guards, batch, throwing, told, batches>>,
           LeftOf(session), Covered => session'.link # "up"
    PROVE  IInv'
<1>1. /\ Covered' = Covered /\ Own' = Own /\ GuardList' = GuardList /\ Untouched' = Untouched
  BY GuardStays DEF Untouched
<1>2. Types'
  BY <1>1 DEF IInv, Types, LeftOf, told
<1>3. EffectsApart' /\ BatchShape'
  BY <1>1 DEF IInv, EffectsApart, BatchShape, told
<1>4. CommitKeeps' /\ RollbackUndoes' /\ BatchAtomic'
  BY DEF IInv, CommitKeeps, RollbackUndoes, BatchAtomic, told
<1>5. SessionFollows'
  BY <1>1 DEF IInv, SessionFollows, LeftOf, Idle
<1> QED BY <1>2, <1>3, <1>4, <1>5 DEF IInv

(* The link goes down: the server has rolled back, the client learns later. *)
LEMMA LoseLinkIInv ==
    ASSUME SoundUse, IInv, LoseLink
    PROVE  IInv'
<1>1. backend \notin {"sqlite", "mysql"}
  BY DEF LoseLink, LinkMayDrop, SoundUse
<1>2. LeftOf(session) /\ session'.link # "up"
  BY <1>1 DEF LoseLink, Lost, NoTxn, LeftOf, Idle, IInv, Types, SessionType
<1> QED BY <1>2, SessionChangesIInv DEF LoseLink

(* The pool replaces a connection that is not open.                        *)
LEMMA ReplaceConnectionIInv ==
    ASSUME SoundUse, IInv, ReplaceConnection
    PROVE  IInv'
<1>1. LeftOf(session) /\ ~Covered
  BY UnguardedIsUncovered
     DEF ReplaceConnection, FreshSession, LeftOf, Idle, SessionType
<1> QED BY <1>1, SessionChangesIInv DEF ReplaceConnection

(* Each of the four begins with a statement size of 1 or a chunk.          *)
LEMMA BatchCallIInv ==
    ASSUME SoundUse, IInv, NEW R \in SUBSET Effects,
           InsertMany(R) \/ DeleteMany(R) \/ UpdateMany(R) \/ UpsertMany(R)
    PROVE  IInv'
<1>1. \A sql \in {"INSERT", "UPDATE", "DELETE"} : BatchRows(sql) \in {1, ChunkSize}
  BY DEF BatchRows, PostgresBatchRows, MysqlBatchRows, OdbcBatchRows
<1>2. ArrayBatch \in BOOLEAN
  BY DEF ArrayBatch
<1>3. CASE InsertMany(R)
  BY <1>1, <1>2, <1>3, StartBatchIInv DEF InsertMany
<1>4. CASE DeleteMany(R)
  BY <1>1, <1>2, <1>4, StartBatchIInv DEF DeleteMany
<1>5. CASE UpdateMany(R)
  BY <1>1, <1>2, <1>5, StartBatchIInv DEF UpdateMany
<1>6. CASE UpsertMany(R)
  BY <1>6, StartBatchIInv DEF UpsertMany
<1> QED BY <1>3, <1>4, <1>5, <1>6

(* Nothing happens.                                                        *)
LEMMA StutterIInv == ASSUME IInv, UNCHANGED vars PROVE IInv'
BY DEF vars, told, IInv, Types, SessionFollows, EffectsApart, BatchShape, Untouched,
       Covered, Own, Top, GuardList, CommitKeeps, RollbackUndoes, BatchAtomic

(* Every step keeps the invariant.                                         *)
LEMMA NextIInv == ASSUME SoundUse, IInv, [Next]_vars PROVE IInv'
<1>1. CASE UNCHANGED vars
  BY <1>1, StutterIInv
<1>2. CASE Next
  BY <1>2, BeginTransactionIInv, ModifyIInv, BatchCallIInv, BatchChunkIInv, FinishBatchIInv,
     CommitTransactionIInv, EndGuardIInv, LoseLinkIInv, ReplaceConnectionIInv DEF Next
<1> QED BY <1>1, <1>2

-----------------------------------------------------------------------------
(* The theorems.                                                           *)

(* IInv holds in every reachable state of a sound use.                     *)
LEMMA Inductive == ASSUME SoundUse PROVE Spec => []IInv
BY InitIInv, NextIInv, PTL DEF Spec

(* A commit() that returned has stored everything its guard was asked for, *)
(* and so has a call outside of any guard, on every driver.                *)
THEOREM CommittedIsStored == ASSUME SoundUse PROVE Spec => []CommitKeeps
<1>1. IInv => CommitKeeps
  BY DEF IInv
<1> QED BY <1>1, Inductive, PTL

(* A Transaction that ends without a commit leaves nothing in the store,   *)
(* unless its commit was lost on the way.                                  *)
THEOREM UncommittedIsUndone == ASSUME SoundUse PROVE Spec => []RollbackUndoes
<1>1. IInv => RollbackUndoes
  BY DEF IInv
<1> QED BY <1>1, Inductive, PTL

(* insert_many, delete_many, update_many and upsert_many, whatever the     *)
(* chunk size and the number of rows, do all or nothing.                   *)
THEOREM BatchesAreAtomic == ASSUME SoundUse PROVE Spec => []BatchAtomic
<1>1. IInv => BatchAtomic
  BY DEF IInv
<1> QED BY <1>1, Inductive, PTL

(* What the pool gets back is a session out of any transaction that        *)
(* commits by itself.                                                      *)
THEOREM SessionsComeBackClean == ASSUME SoundUse PROVE Spec => []SessionClean
<1>1. IInv => SessionClean
  BY UnguardedIsUncovered DEF IInv, SessionFollows, SessionClean
<1> QED BY <1>1, Inductive, PTL

(* The variables have their types and a batch call always has its guard.   *)
THEOREM TransactionTypes == ASSUME SoundUse PROVE Spec => []TypeOK
<1>1. IInv => TypeOK
  <2> SUFFICES ASSUME IInv PROVE TypeOK
    OBVIOUS
  <2>1. batch # NoBatch => Top > 0
    BY Innermost DEF IInv, Types, BatchShape, Covered
  <2>2. Top <= 2
    BY DEF IInv, Types, GuardList, Top
  <2> QED BY <2>1, <2>2 DEF IInv, Types, GuardList, TypeOK, SessionType, BatchType, Guard
<1> QED BY <1>1, Inductive, PTL
=============================================================================
