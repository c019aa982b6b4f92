------------------------------- MODULE Streams -------------------------------
(***************************************************************************)
(* Reading rows: prepared queries and streams on one connection, on every  *)
(* driver, while other threads request stops.                              *)
(*                                                                         *)
(* The application's thread executes queries to a list, to their first row *)
(* or as streams, advances the streams in any order and destroys them at   *)
(* any point.  A stop sets its token's flag and then runs the callbacks    *)
(* that are registered on the token, one by one, on a thread of its own.   *)
(*                                                                         *)
(* The e-th execution answers answers[e] rows, <<e, 1>>, <<e, 2>>, ...  A  *)
(* statement is a prepared query, which any number of calls execute, or    *)
(* the statement that one stream prepares for itself (it has the stream's  *)
(* name).  A cursor is at row "at" of the execution "of".                  *)
(***************************************************************************)
EXTENDS ChunkedBuffer

CONSTANTS
    Drivers,    \* the drivers considered; "odbc" is MSSQL, Oracle and Informix
    Queries,    \* the prepared queries
    Consumers,  \* what may read at the same time: bounds the streams alive
    Tokens,     \* the stop tokens, each stopped once at most
    Lengths,    \* how many rows an execution may answer
    MaxCalls,   \* bounds the executions and the buffer calls
    Odd         \* the uses the code allows and does not support

(* The uses that break a property of this module, each in its own way:     *)
(* executing a query whose earlier reader is alive; begin() of a stream    *)
(* that is past its first row; executing without a token a query that has  *)
(* the callback of an earlier one; reading beside a token whose stop is    *)
(* for the whole connection; executing a query after a MySQL connection    *)
(* was killed.                                                             *)
OddUses == {"two readers", "begin again", "stale token", "shared connection", "killed"}

ASSUME StreamAssumption ==
    /\ Drivers \subseteq {"sqlite", "postgres", "mysql", "odbc"}
    /\ Queries \cap Consumers = {} /\ "none" \notin Tokens
    /\ Lengths \subseteq Nat /\ MaxCalls \in Nat
    /\ Odd \subseteq OddUses

VARIABLES
    driver,     \* which driver the connection is
    statement,  \* every IPreparedStatement: its cursor and its stop callback
    consumer,   \* every execution being read: a stream, or a call in progress
    stopped,    \* the tokens whose stop was requested
    halted,     \* the statements whose running call, on SQLite whose next step, is to stop
    buffer,     \* ChunkedLists: of the call in progress, of the application
    answers,    \* the number of rows of every execution so far
    calls,      \* the calls so far
    held        \* history: the rows put into each buffer

vars == <<driver, statement, consumer, stopped, halted, buffer, answers, calls, held>>

None == "none"
Statements == Queries \cup Consumers
Rows(e) == [i \in 1..answers[e] |-> <<e, i>>]
FreshStatement == [of |-> 0, at |-> 0, token |-> None]
Reader(kind, s, e, t, own, phase) ==
    [kind |-> kind, stmt |-> s, of |-> e, token |-> t, watch |-> None, own |-> own,
     at |-> 0, phase |-> phase, yielded |-> << >>, late |-> 0]
NoConsumer == Reader("none", None, 0, None, FALSE, "none")
Buffers == {"local", "list", "kept"}

Live == {c \in Consumers : consumer[c].kind # "none"}
InCall(c) == consumer[c].phase \in {"execute", "checked"}
(* The calls on the application's thread's stack.                          *)
Calling == {c \in Live : InCall(c) \/ consumer[c].kind \in {"list", "first"}}

-----------------------------------------------------------------------------
(* Cancellation: what cancel() of a statement reaches.  SQLite's interrupt *)
(* is a flag of the connection; PQcancel stops the command the connection  *)
(* is running; MySQL's kill ends the session, with all its statements;     *)
(* SQLCancel stops the function running on the statement.                  *)
SqliteCancel(s) == Statements
PgCancel(s) == {consumer[c].stmt : c \in {d \in Live : consumer[d].phase = "execute"}}
MysqlCancel(s) == Statements
OdbcCancel(s) == {consumer[c].stmt : c \in {d \in Live : InCall(d) /\ consumer[d].stmt = s}}
Cancel(s) ==
    CASE driver = "sqlite" -> SqliteCancel(s)
      [] driver = "postgres" -> PgCancel(s)
      [] driver = "mysql" -> MysqlCancel(s)
      [] driver = "odbc" -> OdbcCancel(s)

(* A stop_callback built on a token that is stopped runs at once.          *)
Registered(t) == IF t \in stopped THEN None ELSE t
CancelIfStopped(s, t) == IF t \in stopped THEN Cancel(s) ELSE {}

SetStopTokenOnce(st, t) ==
    [st EXCEPT !.token = IF t = None \/ @ # None THEN @ ELSE Registered(t)]
SetStopToken(st, t) == [st EXCEPT !.token = IF t = None THEN @ ELSE Registered(t)]

-----------------------------------------------------------------------------
(* Executing.                                                              *)
SqliteReset(st) == [st EXCEPT !.at = 0]
MysqlReset(st) == [st EXCEPT !.of = 0, !.at = 0]
OdbcReset(st) == [st EXCEPT !.of = 0, !.at = 0]
Reset(st) ==
    CASE driver = "sqlite" -> SqliteReset(st)
      [] driver = "postgres" -> st
      [] driver = "mysql" -> MysqlReset(st)
      [] driver = "odbc" -> OdbcReset(st)
BindAndExecute(st, e) == [Reset(st) EXCEPT !.of = e]

Watched(others) ==
    ({statement[s].token : s \in others} \cup {consumer[c].watch : c \in Consumers}) \ {None}

(* What the application respects unless the use is in Odd.                 *)
AloneOnStatement(s) == \A c \in Live : consumer[c].stmt # s
AloneOnConnection(s, t) ==
    /\ Watched(Statements \ {s}) \subseteq {t}
    /\ driver = "sqlite" => \A c \in Live : consumer[c].token = t
Supported(s, t) ==
    /\ "two readers" \in Odd \/ driver = "postgres" \/ AloneOnStatement(s)
    /\ "stale token" \in Odd \/ t # None \/ statement[s].token = None
    /\ "shared connection" \in Odd \/ driver = "odbc" \/ AloneOnConnection(s, t)
    /\ "killed" \in Odd \/ driver # "mysql" \/ s \notin halted

(* A call up to where execute_query() waits for the server.                *)
Executes(c, s, st, kind, t, own) ==
    /\ consumer[c].kind = "none" /\ Calling = {} /\ calls < MaxCalls
    /\ \E n \in Lengths : answers' = Append(answers, n)
    /\ LET e == Len(answers) + 1 IN
       /\ statement' = [statement EXCEPT ![s] = BindAndExecute(SetStopToken(st, t), e)]
       /\ consumer' = [consumer EXCEPT ![c] = Reader(kind, s, e, t, own, "execute")]
    /\ calls' = calls + 1
    /\ UNCHANGED <<driver, stopped, buffer, held>>

Prepared(c, s, kind, t) ==
    /\ Supported(s, t)
    /\ Executes(c, s, statement[s], kind, t, driver = "postgres")
    /\ halted' = halted \cup CancelIfStopped(s, t)
ExecuteList(c, s) == Prepared(c, s, "list", None)
ExecuteFirst(c, s) == Prepared(c, s, "first", None)
Stream(c, s) == Prepared(c, s, "stream", None)
StreamWithOptions(c, s, t) == Prepared(c, s, "stream", t)

(* On a statement of its own; prepare() pings, so MySQL reconnects.        *)
OnOwnStatement(c, t, own) ==
    /\ LET alive == IF driver = "sqlite" THEN halted ELSE halted \ {c}
       IN halted' = alive \cup CancelIfStopped(c, t)
    /\ "shared connection" \in Odd \/ driver = "odbc" \/ AloneOnConnection(c, t)
    /\ Executes(c, c, FreshStatement, "stream", t, own)
ConnectionStream(c, t) == OnOwnStatement(c, t, driver = "postgres")
(* Without options or parameters: execute_query_direct, and no statement.  *)
QueryBuilderStream(c) == OnOwnStatement(c, None, driver \in {"postgres", "mysql"})

(* execute_query() throws: the call unwinds, no reader and no stream made. *)
ExecuteRefused(c) ==
    /\ consumer[c].phase = "execute" /\ driver # "sqlite" /\ consumer[c].stmt \in halted
    /\ consumer' = [consumer EXCEPT ![c].phase = "refused"]
    /\ halted' = IF driver = "mysql" THEN halted ELSE halted \ {consumer[c].stmt}
    /\ UNCHANGED <<driver, statement, stopped, buffer, answers, calls, held>>

(* It returns a reader; the constructor of a stream registers a callback.  *)
InitStopCallback(c) ==
    /\ consumer' = [consumer EXCEPT ![c].phase = "fresh", ![c].watch = Registered(consumer[c].token)]
    /\ halted' = halted \cup
           (IF driver \in {"sqlite", "mysql"} THEN CancelIfStopped(consumer[c].stmt, consumer[c].token)
            ELSE {})
ExecuteReturns(c) ==
    /\ consumer[c].phase = "execute" /\ (driver = "sqlite" \/ consumer[c].stmt \notin halted)
    /\ IF consumer[c].kind = "stream" THEN InitStopCallback(c)
       ELSE /\ consumer' = [consumer EXCEPT ![c].phase = "checked"]
            /\ UNCHANGED halted
    /\ UNCHANGED <<driver, statement, stopped, buffer, answers, calls, held>>

-----------------------------------------------------------------------------
(* Iterating.  IDataReader::next() of each driver: whether it gives a row, *)
(* ends or throws, and the statement, the reader's own index and "halted"  *)
(* after it.                                                               *)
Step(out, st, at, halts) == [out |-> out, st |-> st, at |-> at, halted |-> halts]

(* A step on a statement that is not running starts it, and clears the     *)
(* interrupt if none is running; so does the one after the last row.       *)
SqliteNext(c) ==
    LET st == statement[consumer[c].stmt]
        still == IF \A s \in Statements : statement[s].at = 0 THEN {} ELSE halted
    IN IF still # {} THEN Step("throws", [st EXCEPT !.at = 0], 0, still)
       ELSE IF st.at < answers[st.of] THEN Step("row", [st EXCEPT !.at = @ + 1], st.at + 1, still)
       ELSE Step("ends", [st EXCEPT !.at = 0], 0, still)

(* PgDataReader and MysqlDataReader: a result of the reader's own.         *)
OwnNextFromZero(c) ==
    LET r == consumer[c]
    IN IF r.at + 1 < answers[r.of] THEN Step("row", statement[r.stmt], r.at + 1, halted)
       ELSE Step("ends", statement[r.stmt], r.at, halted)
OwnNext(c) ==
    LET r == consumer[c]
    IN IF r.at < answers[r.of] THEN Step("row", statement[r.stmt], r.at + 1, halted)
       ELSE Step("ends", statement[r.stmt], r.at, halted)

(* MYSQL_STMT and ODBC cursors: of the statement, until one is closed.     *)
CursorNext(c, interrupted) ==
    LET st == statement[consumer[c].stmt]
    IN IF interrupted THEN Step("throws", st, 0, halted \ {consumer[c].stmt})
       ELSE IF st.of = 0 THEN Step("throws", st, 0, halted)
       ELSE IF st.at < answers[st.of] THEN Step("row", [st EXCEPT !.at = @ + 1], st.at + 1, halted)
       ELSE Step("ends", st, 0, halted)
MysqlNext(c) == CursorNext(c, FALSE)
OdbcNext(c) == CursorNext(c, consumer[c].stmt \in halted)

ReaderNext(c) ==
    IF consumer[c].own THEN OwnNext(c)
    ELSE CASE driver = "sqlite" -> SqliteNext(c)
           [] driver = "mysql" -> MysqlNext(c)
           [] driver = "odbc" -> OdbcNext(c)

(* begin() and ++: the test of the token that precedes next().             *)
AdvanceUnchecked(c) ==
    consumer' = [consumer EXCEPT ![c].phase = "checked"]
AdvanceChecks(c) ==
    consumer' = [consumer EXCEPT ![c].phase =
                    IF consumer[c].token \in stopped THEN "cancelled" ELSE "checked"]
Advance(c) ==
    /\ consumer[c].kind = "stream" /\ Calling = {}
    /\ consumer[c].phase \in {"fresh", "row"}
                     \cup (IF "begin again" \in Odd THEN {"end", "failed", "cancelled"} ELSE {})
    /\ AdvanceChecks(c)
    /\ UNCHANGED <<driver, statement, stopped, halted, buffer, answers, calls, held>>

(* next(), and what the call does with the row: a stream stops on it,      *)
(* execute() puts it into its list and goes on, first() returns it.        *)
Fetch(c) ==
    /\ consumer[c].phase = "checked"
    /\ LET r == consumer[c]
           step == ReaderNext(c)
           row == <<IF r.own THEN r.of ELSE step.st.of, step.at>>
       IN /\ statement' = [statement EXCEPT ![r.stmt] = step.st]
          /\ halted' = step.halted
          /\ IF step.out = "row"
             THEN consumer' = [consumer EXCEPT ![c] =
                     [r EXCEPT !.at = step.at, !.yielded = Append(@, row),
                               !.late = IF r.token \in stopped THEN @ + 1 ELSE @,
                               !.phase = CASE r.kind = "stream" -> "row"
                                           [] r.kind = "list" -> "checked"
                                           [] r.kind = "first" -> "end"]]
             ELSE consumer' = [consumer EXCEPT ![c].phase =
                                  IF step.out = "ends" THEN "end" ELSE "failed"]
          /\ IF step.out = "row" /\ r.kind = "list"
             THEN /\ buffer' = [buffer EXCEPT !["local"] = EmplaceBack(@, row)]
                  /\ held' = [held EXCEPT !["local"] = Append(@, row)]
             ELSE UNCHANGED <<buffer, held>>
    /\ UNCHANGED <<driver, stopped, answers, calls>>

-----------------------------------------------------------------------------
(* Destroying a reader, a stream or a list.                                *)
SqliteReaderGone(st) == [st EXCEPT !.at = 0]          \* sqlite3_reset
MysqlReaderGone(st) == [st EXCEPT !.of = 0, !.at = 0]  \* mysql_stmt_free_result
OdbcReaderGone(st) == [st EXCEPT !.of = 0, !.at = 0]   \* SQLFreeStmt(SQL_CLOSE)
ReaderGone(c) ==
    LET st == statement[consumer[c].stmt]
    IN IF consumer[c].own \/ consumer[c].phase = "refused" THEN st
       ELSE CASE driver = "sqlite" -> SqliteReaderGone(st)
              [] driver = "mysql" -> MysqlReaderGone(st)
              [] driver = "odbc" -> OdbcReaderGone(st)

(* execute() returns its list, which is assigned to the application's;     *)
(* moves between b and other, and what was in b is destroyed.              *)
MoveAssign(b, other) ==
    /\ buffer' = [buffer EXCEPT ![b] = buffer[other], ![other] = MovedFrom(buffer[other])]
    /\ held' = [held EXCEPT ![b] = held[other], ![other] = << >>]
Discard(b) ==
    /\ buffer' = [buffer EXCEPT ![b] = Cleared(buffer[b])]
    /\ held' = [held EXCEPT ![b] = << >>]

Destroy(c) ==
    /\ c \in Live /\ ~InCall(c) /\ Calling \subseteq {c}
    /\ LET r == consumer[c] IN
       /\ consumer' = [consumer EXCEPT ![c] = NoConsumer]
       /\ statement' = [statement EXCEPT ![r.stmt] =
              IF r.stmt = c THEN FreshStatement ELSE ReaderGone(c)]
       /\ IF r.kind = "list"
          THEN IF r.phase = "end" THEN MoveAssign("list", "local") ELSE Discard("local")
          ELSE UNCHANGED <<buffer, held>>
    /\ UNCHANGED <<driver, stopped, halted, answers, calls>>

(* A stream moved before it is iterated: its callback is removed and built *)
(* again, so a stop that was requested cancels (again) at once.            *)
MoveStream(c) ==
    /\ consumer[c].phase = "fresh" /\ consumer[c].token \in stopped /\ Calling = {}
    /\ calls < MaxCalls /\ calls' = calls + 1
    /\ InitStopCallback(c)
    /\ UNCHANGED <<driver, statement, stopped, buffer, answers, held>>

(* The application uses its lists, a moved-from or emptied one included,   *)
(* between its streams: the two share nothing.                             *)
Bounded == Live = {} /\ calls < MaxCalls /\ calls' = calls + 1
PushBack(b) ==
    /\ Bounded
    /\ buffer' = [buffer EXCEPT ![b] = EmplaceBack(@, <<0, calls>>)]
    /\ held' = [held EXCEPT ![b] = Append(@, <<0, calls>>)]
    /\ UNCHANGED <<driver, statement, consumer, stopped, halted, answers>>
Keep ==
    /\ Bounded /\ MoveAssign("kept", "list")
    /\ UNCHANGED <<driver, statement, consumer, stopped, halted, answers>>
TakeVector(b) ==
    /\ Bounded /\ held[b] # << >> /\ Discard(b)
    /\ UNCHANGED <<driver, statement, consumer, stopped, halted, answers>>

-----------------------------------------------------------------------------
(* The threads that stop.                                                  *)
RequestStop(t) ==
    /\ t \notin stopped /\ stopped' = stopped \cup {t}
    /\ UNCHANGED <<driver, statement, consumer, halted, buffer, answers, calls, held>>
StatementCallback(s) ==
    /\ statement[s].token \in stopped
    /\ statement' = [statement EXCEPT ![s].token = None]
    /\ halted' = halted \cup Cancel(s)
    /\ UNCHANGED <<driver, consumer, stopped, buffer, answers, calls, held>>
StreamCallback(c) ==
    /\ consumer[c].watch \in stopped
    /\ consumer' = [consumer EXCEPT ![c].watch = None]
    /\ halted' = halted \cup Cancel(consumer[c].stmt)
    /\ UNCHANGED <<driver, statement, stopped, buffer, answers, calls, held>>

-----------------------------------------------------------------------------
Init ==
    /\ driver \in Drivers
    /\ statement = [s \in Statements |-> FreshStatement]
    /\ consumer = [c \in Consumers |-> NoConsumer]
    /\ stopped = {} /\ halted = {} /\ answers = << >> /\ calls = 0
    /\ buffer = [b \in Buffers |-> Buffer]
    /\ held = [b \in Buffers |-> << >>]

Next ==
    \/ \E c \in Consumers :
          \/ \E s \in Queries : ExecuteList(c, s) \/ ExecuteFirst(c, s) \/ Stream(c, s)
          \/ \E s \in Queries, t \in Tokens : StreamWithOptions(c, s, t)
          \/ \E t \in Tokens \cup {None} : ConnectionStream(c, t)
          \/ QueryBuilderStream(c)
          \/ ExecuteRefused(c) \/ ExecuteReturns(c)
          \/ Advance(c) \/ Fetch(c) \/ Destroy(c) \/ MoveStream(c)
          \/ StreamCallback(c)
    \/ \E s \in Statements : StatementCallback(s)
    \/ \E t \in Tokens : RequestStop(t)
    \/ \E b \in {"list", "kept"} : PushBack(b) \/ TakeVector(b)
    \/ Keep

Spec == Init /\ [][Next]_vars

-----------------------------------------------------------------------------
(* Types; a buffer's count stays within its chunk, a cursor within its     *)
(* result (chunked_buffer.h emplace_back, the drivers' next).              *)
TypeOK ==
    /\ driver \in Drivers /\ stopped \subseteq Tokens /\ halted \subseteq Statements
    /\ \A s \in Statements :
          /\ statement[s].of \in 0..Len(answers)
          /\ statement[s].at \in 0..(IF statement[s].of = 0 THEN 0 ELSE answers[statement[s].of])
          /\ statement[s].token \in Tokens \cup {None}
    /\ \A c \in Consumers :
          /\ consumer[c].kind \in {"none", "stream", "list", "first"}
          /\ consumer[c].phase \in {"none", "execute", "refused", "fresh", "checked", "row",
                                    "end", "cancelled", "failed"}
          /\ consumer[c].watch \in {consumer[c].token, None}
    /\ \A b \in Buffers : buffer[b].current_chunk_count \in 0..ChunkSize

(* A reader gives the rows of its own execution, in order and each once,   *)
(* whatever else reads on the connection; if it ends it gave them all, and *)
(* first() gave the first (prepared_query.h, streaming.h advance).         *)
ReadsOwnRows ==
    \A c \in Live :
        LET r == consumer[c] IN
        /\ IsPrefix(r.yielded, Rows(r.of))
        /\ r.phase = "end" =>
              Len(r.yielded) = IF r.kind = "first" /\ answers[r.of] > 1 THEN 1 ELSE answers[r.of]

(* Once its stop was requested a stream gives one more row at the most:    *)
(* the one it was already past the test for (streaming.h advance).         *)
StopBoundsRows == \A c \in Live : consumer[c].late <= 1

(* A call or a stream ends with an exception only if its own token was     *)
(* stopped: no stop of an earlier or of another execution ends it          *)
(* (prepared_query.h stream_with_options, set_stop_token of the drivers).  *)
OnlyStoppedThrows ==
    \A c \in Live : consumer[c].phase \in {"refused", "failed", "cancelled"} =>
        consumer[c].token \in stopped

(* A list holds what was put into it since it was last emptied or moved    *)
(* from, by index and as a vector, over the boundaries of its chunks       *)
(* (chunked_buffer.h).                                                     *)
BufferHoldsRows ==
    \A b \in Buffers :
        /\ buffer[b].total_size = Len(held[b])
        /\ Iterated(buffer[b]) = held[b]
        /\ ToVector(buffer[b]) = held[b]
=============================================================================
