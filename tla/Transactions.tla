---------------------------- MODULE Transactions ----------------------------
(***************************************************************************)
(* One leased connection, the Transaction guards alive on it and the       *)
(* modification calls of DbContext, on every kind of driver.               *)
(*                                                                         *)
(* What a statement does to a row (inserting, updating, deleting it) is an *)
(* "effect"; an effect is in "store" once it is durable.  The server's     *)
(* session is external: session.txn, session.work (the effects of the open *)
(* transaction) and session.link are what the drivers can observe of it.   *)
(* session.auto is the ODBC attribute SQL_ATTR_AUTOCOMMIT.                 *)
(*                                                                         *)
(* The application: an exception leaves the scope of the innermost guard   *)
(* before it is caught, and guards end before the lease does.  A guard is  *)
(* begun when none is alive; a batch call begins one of its own.           *)
(***************************************************************************)
EXTENDS Naturals, Sequences, FiniteSets

CONSTANTS
    Backends,   \* the drivers considered
    Effects,    \* each is tried once: bounds the number of statements
    ChunkSize,  \* chunk_size of the batch calls
    Nests,      \* the backends on which batch calls are made inside a guard
    Faults      \* what may go wrong besides the calls themselves

(* The faults: a statement or a commit is refused; the link to the server  *)
(* is lost; it is lost on MySQL, whose client reconnects silently; an      *)
(* array execution succeeds for some of its rows only; SQLEndTran fails    *)
(* and leaves the transaction open.                                        *)
FaultKinds == {"statement", "link", "reconnect", "array", "endtran"}

ASSUME TransactionAssumption ==
    /\ Backends \subseteq {"sqlite", "postgres", "mysql", "mssql", "informix", "oracle"}
    /\ Nests \subseteq Backends
    /\ ChunkSize \in Nat \ {0}
    /\ Faults \subseteq FaultKinds

VARIABLES
    backend,   \* which driver the connection is
    session,   \* the server session behind the connection
    store,     \* the durable effects
    fresh,     \* the effects not tried yet
    guards,    \* the Transaction objects alive, innermost last
    batch,     \* the batch call in progress, or NoBatch
    throwing,  \* an exception is unwinding the stack
    kept,      \* history: effects the application was told are stored
    dropped,   \* history: effects of guards that ended without a commit
    unsure,    \* history: effects whose commit was lost on the way
    batches    \* history: the effects of every batch call that has ended

told == <<kept, dropped, unsure>>
vars == <<backend, session, store, fresh, guards, batch, throwing, told, batches>>

NoBatch == [left |-> {}, all |-> {}, size |-> 0]
NewGuard == [rows |-> {}, committed |-> FALSE]
FreshSession == [link |-> "up", txn |-> "none", auto |-> TRUE, work |-> {}]

Odbc == backend \in {"mssql", "informix", "oracle"}
ArrayBatch == backend \notin {"sqlite", "oracle"}   \* capabilities().array_batch_insert
OdbcArray == Odbc /\ ArrayBatch

-----------------------------------------------------------------------------
(* The drivers' operations, each on "session" and "store" alone.           *)
(* Mutants, here and below: definitions named for a plausible bug stand    *)
(* before the definition they replace when a property is put to the test.  *)

(* The session a command works on: MySQL pings first and reconnects.       *)
Reached == IF backend = "mysql" /\ session.link # "up" THEN FreshSession ELSE session

(* libpq notices the loss when a command fails; is_open() tells from then. *)
Noticed(s) == IF backend = "postgres" /\ s.link = "lost" THEN [s EXCEPT !.link = "bad"] ELSE s

NoTxn(s) == [s EXCEPT !.txn = "none", !.work = {}]
AutoOn(s) == [s EXCEPT !.auto = TRUE]

(* begin_transaction() returns.                                            *)
SqliteBegin == /\ session.txn = "none"
               /\ session' = [session EXCEPT !.txn = "open"]
               /\ UNCHANGED store
PostgresBegin == /\ session.link = "up" /\ session.txn # "aborted"
                 /\ session' = [session EXCEPT !.txn = "open"]
                 /\ UNCHANGED store
MysqlBegin == /\ session' = [Reached EXCEPT !.txn = "open", !.work = {}]
              /\ store' = store \cup Reached.work
OdbcBeginForgotten == UNCHANGED <<session, store>>
OdbcBegin == /\ session' = [session EXCEPT !.auto = FALSE]
             /\ UNCHANGED store
Begins == \/ backend = "sqlite" /\ SqliteBegin
          \/ backend = "postgres" /\ PostgresBegin
          \/ backend = "mysql" /\ MysqlBegin
          \/ Odbc /\ OdbcBegin

(* It throws: a dead link, or a transaction that does not take a BEGIN.    *)
BeginThrows == /\ \/ Reached.link # "up"
                  \/ backend = "sqlite" /\ session.txn # "none"
                  \/ session.txn = "aborted"
               /\ session' = Noticed(session)
               /\ UNCHANGED store

(* A statement with the effects S succeeds.                                *)
Executes(S) ==
    /\ Reached.link = "up" /\ Reached.txn # "aborted"
    /\ IF Reached.txn = "open" \/ ~Reached.auto
       THEN /\ session' = [Reached EXCEPT !.txn = "open", !.work = @ \cup S]
            /\ UNCHANGED store
       ELSE /\ session' = Reached
            /\ store' = store \cup S

(* What a refused statement leaves of its session, when it had brought the *)
(* effects P into the transaction: PostgreSQL aborts the transaction, the  *)
(* others undo the statement or, for some errors, all of the transaction.  *)
AfterRefusal(s, P) ==
    IF backend = "postgres"
    THEN {[s EXCEPT !.txn = IF @ = "none" THEN @ ELSE "aborted"]}
    ELSE {NoTxn(s), [s EXCEPT !.work = @ \cup P]}

(* A statement throws.                                                     *)
ExecuteThrows(P) ==
    /\ session' \in
         (IF Reached.link # "up" THEN {Noticed(session)} ELSE {}) \cup
         (IF Reached.link = "up" /\ ("statement" \in Faults \/ Reached.txn = "aborted")
          THEN AfterRefusal(Reached, P) ELSE {})
    /\ UNCHANGED store

CommitsAutocommitOff ==
    /\ Reached.link = "up"
    /\ backend = "sqlite" => session.txn = "open"
    /\ session' = NoTxn(Reached)
    /\ store' = IF Reached.txn = "aborted" THEN store ELSE store \cup Reached.work

(* commit() returns.  PostgreSQL ends an aborted transaction with success. *)
Commits ==
    /\ Reached.link = "up"
    /\ backend = "sqlite" => session.txn = "open"
    /\ session' = AutoOn(NoTxn(Reached))
    /\ store' = IF Reached.txn = "aborted" THEN store ELSE store \cup Reached.work

(* commit() throws: nothing to commit to, or the server refuses; a busy    *)
(* SQLite keeps the transaction.  ODBC turns autocommit on in either case, *)
(* which commits a transaction that is still open.                         *)
CommitThrows ==
    \/ /\ Reached.link # "up" \/ (backend = "sqlite" /\ session.txn = "none")
       /\ session' = AutoOn(Noticed(session))
       /\ UNCHANGED store
    \/ /\ Reached.link = "up" /\ "statement" \in Faults
       /\ session' \in {AutoOn(NoTxn(Reached))} \cup
                       (IF backend = "sqlite" THEN {session} ELSE {})
       /\ store' \in {store} \cup
            (IF Odbc /\ "endtran" \in Faults THEN {store \cup session.work} ELSE {})

RollsBackByAutocommit ==
    /\ session' = AutoOn(NoTxn(Noticed(Reached)))
    /\ store' = IF Odbc THEN store \cup session.work ELSE store

(* rollback() from a destructor, which swallows its exceptions.            *)
RollsBack ==
    /\ session' = AutoOn(NoTxn(Noticed(Reached)))
    /\ store' \in {store} \cup
         (IF Odbc /\ "endtran" \in Faults THEN {store \cup session.work} ELSE {})

(* The server, its network or an administrator ends the connection; the    *)
(* server rolls the open transaction back.                                 *)
LinkMayDrop == /\ "link" \in Faults /\ session.link = "up"
               /\ backend # "sqlite" /\ (backend = "mysql" => "reconnect" \in Faults)
Lost(s) == [NoTxn(s) EXCEPT !.link = "lost"]

-----------------------------------------------------------------------------
(* The application and DbContext.                                          *)

Top == Len(guards)
Calling == ~throwing /\ batch = NoBatch     \* the application may make a call

(* The guard in whose transaction the application believes to be.          *)
Active == {i \in 1 .. Top : ~guards[i].committed}
Owner == IF Active = {} THEN 0 ELSE CHOOSE i \in Active : \A j \in Active : j <= i

(* The effects S were asked for: they are promised at once when no guard   *)
(* covers them, and belong to the innermost uncommitted guard otherwise.   *)
Record(S) == IF Owner = 0
             THEN kept' = kept \cup S /\ UNCHANGED guards
             ELSE guards' = [guards EXCEPT ![Owner].rows = @ \cup S] /\ UNCHANGED kept

Attempted(S) == IF Owner = 0 THEN guards ELSE [guards EXCEPT ![Owner].rows = @ \cup S]

(* An exception leaves a call: it unwinds as long as there is a guard.     *)
Throw == throwing' = (guards # <<>>)

(* Transaction(conn).                                                      *)
BeginTransaction ==
    /\ Calling /\ guards = <<>>
    /\ \/ Begins /\ guards' = Append(guards, NewGuard) /\ UNCHANGED throwing
       \/ BeginThrows /\ Throw /\ UNCHANGED guards
    /\ UNCHANGED <<backend, fresh, batch, told, batches>>

(* insert(), upsert(), execute_raw(), update() or remove() of a query.     *)
Modify(e) ==
    /\ Calling /\ e \in fresh
    /\ fresh' = fresh \ {e}
    /\ \/ Executes({e}) /\ Record({e}) /\ UNCHANGED throwing
       \/ ExecuteThrows({}) /\ Throw /\ guards' = Attempted({e}) /\ UNCHANGED kept
    /\ UNCHANGED <<backend, batch, dropped, unsure, batches>>

(* The first lines of a batch call over the effects R: a statement that is *)
(* reused row by row is prepared first, then the guard begins.             *)
StartBatch(R, size, preparesFirst) ==
    /\ Calling /\ R \subseteq fresh /\ R # {}
    /\ guards = <<>> \/ backend \in Nests
    /\ fresh' = fresh \ R
    /\ \/ /\ Begins
          /\ guards' = Append(guards, NewGuard)
          /\ batch' = [left |-> R, all |-> R, size |-> size]
          /\ UNCHANGED throwing
       \/ /\ BeginThrows \/ (preparesFirst /\ ExecuteThrows({}))
          /\ Throw /\ UNCHANGED <<guards, batch>>
    /\ UNCHANGED <<backend, told, batches>>

InsertManyUnguarded(R) ==
    /\ Calling /\ guards = <<>> /\ R \subseteq fresh /\ R # {}
    /\ fresh' = fresh \ R
    /\ batch' = [left |-> R, all |-> R, size |-> 1]
    /\ UNCHANGED <<backend, session, store, guards, throwing, told, batches>>

(* How many rows insert_many_batch puts in one statement: COPY and the     *)
(* multi-row INSERT take the whole chunk, but only of an INSERT; an ODBC   *)
(* array takes it of any statement.                                        *)
PostgresBatchRows(sql) == IF sql = "INSERT" THEN ChunkSize ELSE 1
MysqlBatchRows(sql) == IF sql = "INSERT" THEN ChunkSize ELSE 1
OdbcBatchRows == ChunkSize
BatchRows(sql) == CASE backend = "postgres" -> PostgresBatchRows(sql)
                    [] backend = "mysql" -> MysqlBatchRows(sql)
                    [] OTHER -> OdbcBatchRows

(* The batch calls; without array batches they go row by row, or, when     *)
(* deleting, by an IN list for each chunk.                                 *)
InsertMany(R) == StartBatch(R, IF ArrayBatch THEN BatchRows("INSERT") ELSE 1, ~ArrayBatch)
DeleteMany(R) == StartBatch(R, IF ArrayBatch THEN BatchRows("DELETE") ELSE ChunkSize, FALSE)
UpdateMany(R) == StartBatch(R, IF ArrayBatch THEN BatchRows("UPDATE") ELSE 1, ~ArrayBatch)
UpsertMany(R) == StartBatch(R, 1, TRUE)

Chunks == {S \in SUBSET batch.left :
             Cardinality(S) = IF Cardinality(batch.left) < batch.size
                              THEN Cardinality(batch.left) ELSE batch.size}

(* The rows of S an execution that reports success has stored: with arrays *)
(* a driver may refuse some rows and report SQL_SUCCESS_WITH_INFO.         *)
ChunkStored(S) == IF OdbcArray /\ batch.size > 1 /\ "array" \in Faults
                  THEN SUBSET S \ {{}} ELSE {S}

(* The rows of S that a throwing execution may have brought along.         *)
ChunkPartly(S) == IF OdbcArray /\ batch.size > 1 THEN SUBSET S ELSE {{}}

(* One turn of a batch call's loop.                                        *)
BatchChunk ==
    /\ ~throwing /\ batch.left # {}
    /\ \E S \in Chunks :
         /\ \/ /\ \E W \in ChunkStored(S) : Executes(W)
               /\ batch' = [batch EXCEPT !.left = @ \ S]
               /\ UNCHANGED throwing
            \/ /\ \E P \in ChunkPartly(S) : ExecuteThrows(P)
               /\ throwing' = TRUE
               /\ UNCHANGED batch
         /\ guards' = Attempted(S)
    /\ UNCHANGED <<backend, fresh, told, batches>>

(* commit() of the guard i, and what the application learns from it.       *)
GuardCommits(i) == Commits /\ kept' = kept \cup guards[i].rows /\ UNCHANGED unsure
GuardCommitThrows(i) ==
    \/ CommitThrows /\ UNCHANGED <<kept, unsure>>
    \/ /\ LinkMayDrop
       /\ session' = AutoOn(Noticed(Lost(session)))
       /\ store' \in {store, store \cup session.work}
       /\ unsure' = unsure \cup guards[i].rows
       /\ UNCHANGED kept

CommitTransactionFlagFirst ==
    /\ Calling /\ Top > 0 /\ ~guards[Top].committed
    /\ guards' = [guards EXCEPT ![Top].committed = TRUE]
    /\ \/ GuardCommits(Top) /\ UNCHANGED throwing
       \/ GuardCommitThrows(Top) /\ throwing' = TRUE
    /\ UNCHANGED <<backend, fresh, batch, dropped, batches>>

CommitTransaction ==
    /\ Calling /\ Top > 0 /\ ~guards[Top].committed
    /\ \/ /\ GuardCommits(Top)
          /\ guards' = [guards EXCEPT ![Top].committed = TRUE]
          /\ UNCHANGED throwing
       \/ GuardCommitThrows(Top) /\ throwing' = TRUE /\ UNCHANGED guards
    /\ UNCHANGED <<backend, fresh, batch, dropped, batches>>

(* The last lines of a batch call: commit, and the guard's empty end.      *)
FinishBatch ==
    /\ ~throwing /\ batch # NoBatch /\ batch.left = {}
    /\ \/ /\ GuardCommits(Top)
          /\ guards' = SubSeq(guards, 1, Top - 1)
          /\ batch' = NoBatch /\ batches' = batches \cup {batch.all}
          /\ UNCHANGED throwing
       \/ /\ GuardCommitThrows(Top)
          /\ throwing' = TRUE
          /\ UNCHANGED <<guards, batch, batches>>
    /\ UNCHANGED <<backend, fresh, dropped>>

(* ~Transaction(), at the end of its scope or on the way of an exception,  *)
(* which is caught outside of the scope or goes on.                        *)
EndGuard ==
    /\ Top > 0 /\ (throwing \/ batch = NoBatch)
    /\ IF guards[Top].committed
       THEN UNCHANGED <<session, store, dropped>>
       ELSE RollsBack /\ dropped' = dropped \cup (guards[Top].rows \ unsure)
    /\ guards' = SubSeq(guards, 1, Top - 1)
    /\ batch' = NoBatch
    /\ batches' = IF batch = NoBatch THEN batches ELSE batches \cup {batch.all}
    /\ throwing' \in {FALSE} \cup (IF Top > 1 THEN {throwing} ELSE {})
    /\ UNCHANGED <<backend, fresh, kept, unsure>>

(* The lease ends and the pool replaces a connection that is not open.     *)
ReplaceConnection ==
    /\ Calling /\ guards = <<>> /\ session.link = "bad"
    /\ session' = FreshSession
    /\ UNCHANGED <<backend, store, fresh, guards, batch, throwing, told, batches>>

LoseLink ==
    /\ LinkMayDrop
    /\ session' = Lost(session)
    /\ UNCHANGED <<backend, store, fresh, guards, batch, throwing, told, batches>>

Init ==
    /\ backend \in Backends
    /\ session = FreshSession
    /\ store = {} /\ fresh = Effects
    /\ guards = <<>> /\ batch = NoBatch /\ throwing = FALSE
    /\ kept = {} /\ dropped = {} /\ unsure = {} /\ batches = {}

Next ==
    \/ BeginTransaction \/ CommitTransaction \/ EndGuard
    \/ \E e \in Effects : Modify(e)
    \/ \E R \in SUBSET Effects :
         InsertMany(R) \/ DeleteMany(R) \/ UpdateMany(R) \/ UpsertMany(R)
    \/ BatchChunk \/ FinishBatch
    \/ ReplaceConnection \/ LoseLink

Spec == Init /\ [][Next]_vars

-----------------------------------------------------------------------------
(* Properties.                                                             *)

(* The variables have their types, and a batch call never runs without a   *)
(* guard: DbContext begins one before its loop (db_context.h).             *)
TypeOK ==
    /\ backend \in Backends
    /\ session \in [link : {"up", "lost", "bad"}, txn : {"none", "open", "aborted"},
                    auto : BOOLEAN, work : SUBSET Effects]
    /\ store \subseteq Effects /\ fresh \subseteq Effects
    /\ guards \in Seq([rows : SUBSET Effects, committed : BOOLEAN]) /\ Top <= 2
    /\ batch \in [left : SUBSET Effects, all : SUBSET Effects, size : {0, 1, ChunkSize}]
    /\ batch # NoBatch => Top > 0
    /\ throwing \in BOOLEAN
    /\ kept \subseteq Effects /\ dropped \subseteq Effects /\ unsure \subseteq Effects
    /\ batches \subseteq SUBSET Effects

(* What the application was told is stored is stored: the effects of a     *)
(* guard whose commit() returned, and of calls outside of any guard.       *)
CommitKeeps == kept \subseteq store

(* A guard that ends without a commit leaves nothing behind, whatever was  *)
(* thrown; only a commit lost on its way may have happened.                *)
RollbackUndoes == dropped \cap store = {}

(* insert_many, delete_many, update_many and upsert_many do all or nothing.*)
BatchAtomic == \A b \in batches : b \subseteq store \/ b \cap store = {}

(* With no guard alive the session is out of any transaction and commits   *)
(* by itself again: the pool can give it to somebody else.                 *)
SessionClean == guards = <<>> => session.txn = "none" /\ session.auto
=============================================================================
