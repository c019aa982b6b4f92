# A TLA+ verification of cpplinq

cpplinq is a C++20 library that turns typed query expressions into SQL and runs
them on SQLite, PostgreSQL, MySQL and, through ODBC, on SQL Server, Oracle and
Informix. Its concurrent part is a connection pool with an asynchronous front
end. This directory holds TLA+ models of the library, translated from its
source, the TLC configurations that check them on small instances, and TLAPS
proofs of what matters most for every instance. Paths below are relative to the
repository (`src/`).

## 1. Inventory of the system

| Component | State it keeps | Operations | What makes it correct |
|---|---|---|---|
| Connection pool (`include/cpplinq/driver/connection_pool.h`, `ConnectionPoolState`, `PooledConnection`) | `mutex_`, `condition_`, the idle stack, the counter `total_connections_`, `closed_`; a lease owns one connection | `acquire`, `try_acquire`, `return_connection`, `close`, `initialize` | one owner per connection, never more than `max_connections`, exact counter, no lost wakeup, a timeout only when the pool is exhausted, nothing left after `close` |
| Task executor (`driver/async_executor.h`) | the job queue, `stopping`, the worker threads, one promise per job | `submit`, `shutdown`, `run_worker` | every promise answered once, a cancelled job never runs, the queue bound, no sleeping worker beside a queued job, nothing running after `shutdown` |
| Asynchronous operations (`ConnectionPool::submit`, `close`) | `close_mutex_`, and the two above | `submit`, `close`, the destructor | the lease is back before the future is ready, `OperationCancelled` means "never started", `close` returns and leaves nothing |
| Transactions and sessions (`driver/connection.h`, `Transaction`) | whether a transaction is open, on a server session | `begin_transaction`, `commit`, `rollback`, the guard's destructor | all or nothing, also under nesting, reconnects and reuse of the session |
| `DbContext` (`core/db_context.h`) | none of its own; drives a connection | `ensure_table`, `insert`, `upsert`, `truncate` and the batch calls | a batch is atomic; a command leaves the rows its entities stand for; `insert` answers its own row's id |
| Prepared queries (`core/prepared_query.h`) | a statement handle shared by executions | `execute`, `first`, `stream`, `stream_with_options` | an execution never sees the bindings, the rows or the stop of another |
| Streaming (`core/streaming.h`) | a reader, a stop token, a stop callback | `begin`, `++`, moves, destruction | rows in order, once; at most one row after a stop; no exception without a stop |
| Chunked buffer (`core/chunked_buffer.h`) | a list of chunks | `emplace_back`, iteration, moves | it is the sequence of what was appended |
| Query builder, expressions, SQL generator (`core/query_builder.h`, `core/expression.h`, `src/sql_generator.cpp`) | clauses; a tree; text and parameters | adding clauses, joins, set operations, subqueries; `to_list`, `stream`, `first`, `count`, `exists`, aggregates, `update`, `remove`, `prepare` | the database reads the query that was asked for; placeholders and values agree in number and order |
| Dialects (`src/dialect/*`) | none | quoting, placeholders, paging | equivalent paging in every dialect |
| Drivers (`src/driver/*`) | native handles, bindings, current row | open, prepare, bind, execute, read, close | handles released once; statements die before their connection |
| Conversions and mapping (`mapping/*`) | none | reading and binding C++ values | reading back what was bound |

How they interact. A thread calls `ConnectionPool`; the pool calls the driver to
open, test and close connections; the lease gives a `DbContext`, which calls the
driver. `submit` puts a lambda in the executor's queue; a worker runs it, leases
a connection from the pool, calls the user's callback, gives the lease back and
answers the promise. A callback can call the pool it runs on. Stop tokens call
back into the pool from whatever thread requests the stop.

Where it is hard. Threads meet in the pool (one mutex, one condition variable),
in the executor (two mutexes, one condition variable, joins) and in `close`.
`request_stop` changes a flag that the pool reads under its mutex and the
requester writes without it; it also cancels statements on whatever thread
requests it, and what it cancels is larger than the statement on three of the
four client libraries. Connections are opened and closed outside the mutex.
Waits time out and wake spuriously. Opens and thread starts fail. A statement is
text put together for six dialects while its values are collected on the side.
The complete list, with lines, is under `hazards` in `PROJECT.json`.

## 2. Modules

| Module | Models | Role |
|---|---|---|
| `LeasePool` | nothing line by line | what a pool promises: ownership and capacity by counting, no lock, no wait |
| `ConnectionPool` | `ConnectionPoolState`, `PooledConnection` | the detailed pool; implements `LeasePool` |
| `ConnectionPoolProofs` | | theorems about `ConnectionPool`: ownership, the counter, the bound, `close` |
| `ConnectionPoolRefinement` | | that `ConnectionPool` implements `LeasePool` |
| `ConnectionPoolWakeups` | | theorems about who is woken and who times out |
| `JobService` | nothing line by line | what an executor promises: order, parallelism and one answer per job, no thread, no lock |
| `TaskExecutor` | `BoundedTaskExecutor` | the executor; implements `JobService` |
| `AsyncPool` | `ConnectionPool::submit`, `close` | composes `TaskExecutor` and `LeasePool` |
| `AsyncPoolProofs` | | theorems about `AsyncPool`, on top of those about `TaskExecutor` |
| `Transactions` | `Transaction`, the drivers' transaction calls, `DbContext`'s modifications | one leased connection with the session behind it |
| `TransactionsProofs` | | theorems about `Transactions` |
| `Expressions` | `core/expression.h` | the trees an application writes |
| `Dialects` | `dialect.h`, `src/dialect/*` | paging, functions, dates, keys, upserts of the six dialects |
| `SqlGenerator` | `src/sql_generator.cpp` | trees and clauses to text, values and slots |
| `SqlReader` | no code of the repository | what a database understands from a text and its values |
| `SqlEngine` | no code of the repository | a database that stores rows, on top of `SqlReader` |
| `QueryBuilder` | `query_builder.h`, slots of `prepared_query.h` | the builders and their terminals; extends `SqlGenerator` |
| `EntityCommands` | `db_context.h`, the drivers' batch calls | commands that store entities; extends `SqlGenerator` |
| `DbContext` | | composes the last two |
| `ChunkedBuffer` | `chunked_buffer.h` | the lists that hold rows |
| `Streams` | `prepared_query.h`, `streaming.h`, the drivers' readers and stop tokens | reading rows while other threads stop; extends `ChunkedBuffer` |
| `StreamsLists` | | the theorem about the lists of `Streams` |
| `StreamsProofs` | | theorems about the readers of `Streams` |
| `TaskExecutorProofs` | | theorems about `TaskExecutor` |
| `MC...` | | instances for TLC, with the symmetry used |

**ConnectionPool.** `mutex_` to `closed_` are the code's members; `conn[c]` is
what `is_open()` would answer, `held[t]` the `unique_ptr`s a caller owns, and
`pc[t]` where it is. `wait_for` is taken apart: `Test` reads the predicate,
`Park` blocks and releases the mutex, `Expire`, `SpuriousWake` and notifications
end the block, `Relock` takes the mutex again, `Recheck` is the last look after
the deadline, and `Decide` is the code after the wait. `Test` and `Park` are two
steps because the stop flag can change between them; everything else done under
the mutex is one step. A creation is `Reserve` under the mutex, then `Opened` or
`OpenThrows` and `Undo`. `acquire` and `try_acquire` are the same code but for
how they report; `kind` tells them apart. Two steps stand for the surroundings:
`RequestStop`/`StopCallback` (flag first, callback later, and no callback once
the call has ended, since its registration dies with it) and `Break`.

**TaskExecutor.** A critical section of `State::mutex` is one step;
`lifecycle_mutex_` is a variable, because `shutdown` keeps it while it joins.
An actor is an application thread or a worker inside a callback, so that
callbacks can submit and shut down. `SpawnThrows` stops `start_workers_locked`
after any number of threads. `notify_one` is a step of its own, after the locks.
`Service` maps the executor to a `JobService`: the queue is what waits, the
workers' jobs are what runs, `stopping` closes the service, and a job in the hands
of its submitter is not known yet.

**AsyncPool.** The executor's actions are imported; `OfferJob` and `ShutDown`
enter the executor's calls while `close_mutex_` is held and `Leave` ends them.
`at[w]` follows a worker through the submitted lambda: the two early tests, the
acquisition, the handler that reads `is_closed()` again, the late test, the
callback, the release of the lease, the promise. The pool is `LeasePool`
instead of `ConnectionPool`: that the one implements the other is checked by the
run `pool_tokens` and proved, and so is `TimeoutMeansExhausted`, which justifies
that `AcquireFails` needs an exhausted pool; `pool_live` shows that an
acquisition ends.

**Transactions.** Four layers in one module. The server's `session` is external
and modelled from how the drivers use it: is a transaction open or aborted,
which effects does it hold, is the link up. The drivers' operations (`Begins`,
`Commits`, `RollsBack`, `Executes` and their `...Throws`) change only `session`
and `store`, one `CASE` per driver where the code differs: SQLite's `BEGIN`
fails inside a transaction, PostgreSQL's only warns, MySQL's commits what is
open; ODBC has no begin at all and turns autocommit off. `guards` are the
`Transaction` objects. `batch` is a call of `insert_many`, `delete_many`,
`update_many` or `upsert_many` in its loop, whose chunks follow
`capabilities().array_batch_insert`. An exception is a state (`throwing`): it
leaves the innermost scope, whose destructor is `EndGuard`, and is caught there
or goes on. `kept`, `dropped`, `unsure` and `batches` are history variables that
record what the application was told; the properties compare them with `store`.
Each effect is tried once, which bounds the number of statements.

Two assumptions limit the application: an exception leaves the scope of the
innermost guard before it is caught, and guards end before their lease does.
`Nests` says on which drivers it makes a batch call inside a guard, `Faults`
what can fail. Three kinds of fault are in the model and not in the passing
run, because the code does not survive them, as TLC shows when they are added:
`"reconnect"` (MySQL's silent reconnect in mid-transaction) breaks `CommitKeeps`,
`RollbackUndoes` and `BatchAtomic`; `"endtran"` (a failing `SQLEndTran`, after which turning
autocommit on commits) breaks `RollbackUndoes` and `BatchAtomic`; `"array"` (an ODBC array that
refuses some of its rows with `SQL_SUCCESS_WITH_INFO`) breaks `BatchAtomic` and `CommitKeeps`.
They are listed as hazards.

**Statements.** `SqlGenerator` follows the code function by function: a text is
a sequence of tokens, and next to it grow the values (`params`) and the slots of
a prepared statement, in the order in which `visit` walks the tree, which is not
always the order of the text. Quoting, and the digits of numbered placeholders,
are left out: every placeholder is `?`, the k-th takes the k-th value. `Dialects`
has an operator per dialect where the code overrides one.

What such a text means is decided by `SqlReader`, which is written from SQL's
grammar and the databases' manuals and shares nothing with the generator but the
node kinds: it is a recursive-descent reader with SQL's precedences, the words
each dialect has for a function, and the places where it allows a page or an
order. `Meant` is the other side of the comparison: the condition the
application passed, with its arguments, in the reader's terms.

**QueryBuilder.** `q` is the builder with its members; `said` is what the
application asked, in the order it asked, and no code of the library touches it.
The four builder classes are kinds of one record, and each clause is offered by
the kinds that have the method. A terminal puts a statement in `sent`; `First`
changes the limit and puts it back (`LimitGuard`); `Prepare` keeps the slots,
and `Execute` binds them anew for each list of arguments, up to the first one
that is missing. `Nest` makes the builder a subquery or a CTE of another.
`StatementMeansQuery` holds `Understood(sent)` against `Asked(said)`. An
application that follows the documentation is assumed (doc/materialization.md:103,
doc/joins_and_relationships.md:51, 212, 213 and 244 list the clauses that a
terminal or a join drops, and 242 Oracle's missing `EXCEPT`); `Odd` adds uses
that no document excludes and that break `StatementMeansQuery`, as TLC shows for
each when the constants contain such a condition:

* `"dropped"`: a clause is set and then lost, where the documents do not say so
  (`order_by` before a `join`, a page before `update` or `exists`);
* `"intersect"`: `INTERSECT` after a `UNION`, which binds tighter;
* `"distinct page"`: `ORDER BY (SELECT NULL)`, written for a page without order,
  after `DISTINCT` on PostgreSQL and SQL Server;
* `"compound page"`: the same after a set operation, and Informix's `FIRST`,
  which pages the first `SELECT` only;
* `"dateadd"`: SQL Server's `DATEADD`, whose operands change places after their
  values were collected, if both have values;
* `"empty in"`: `IN` of an empty list, whose operand's values stay behind;
* `"unbound"`: a `param()` in a terminal that has no arguments.

**EntityCommands.** A table is declared in C++ and created by `ensure_table`;
each command derives its column lists from the declaration and hands statements
to the driver, a chunk at a time where there is array binding. `SqlEngine` plays
the database, reading the very texts. `Insert` is two steps where the id is
asked for separately, and `OtherInserts` is another session in between.
`CommandMeansEntities` compares the rows before and after with what the entities
stand for. `Overlooked` adds what the code does not survive, each refuted by TLC
when a table of that kind is declared: for `CommandMeansEntities` `"key beside auto"` (a declared key is forgotten when
another column is generated), `"no columns"` (`DEFAULT VALUES` where a dialect
has none), `"absent ids"` (batch deletes count rows that do not exist), `"keys
only"` (`UPDATE ... SET` nothing), `"composite upsert"`, `"given key"` (an upsert
gives the generated column a value, which some databases refuse and others do
not count on from), `"other key"` (MySQL's upsert meets another unique key); for
`InsertAnswersItsRow` `"largest id"` (Oracle's `MAX(pk)`).

**DbContext** lets a behaviour be about one of the two halves, which share only
the connection and one thread.

**Streams.** One connection of one driver; `statement` holds the cursor and the
stop callback of every statement, a prepared query's or a stream's own, and
`consumer` everything that reads: streams, and the calls `execute` and `first`.
Where the cursor lives is the heart of it: in the statement on SQLite and ODBC
and for MySQL's prepared statements, in the reader on PostgreSQL and for MySQL's
direct queries; `...Next` and `...ReaderGone` are the drivers' `next()` and
destructors. A call is executed (`Executes`), refused or answered, and then
fetched row by row, so that a stop may come between any two steps; it sets the
flag (`RequestStop`) and then runs the callbacks one by one. `Cancel(s)` is what
the driver's `cancel()` reaches: on SQLite every statement of the connection, on
PostgreSQL the command the server runs, on MySQL the session, on ODBC the
function on that statement. `late` counts rows given after the stop. The lists
are `ChunkedBuffer`s; `held` records what was put into each. The uses in `Odd`
are those the interface allows and one driver or the other does not survive, as
TLC shows for each: `"two readers"` of one statement and `"begin again"` on a
finished stream (on SQLite the result starts over) break `ReadsOwnRows`;
`"stale token"` (a callback left on a shared statement), `"shared connection"`
(a token beside another reader) and `"killed"` (a MySQL statement after its
session was killed) break `OnlyStoppedThrows`.

## 3. Runs and what they show

| Run | Instance | Question |
|---|---|---|
| `pool_tokens` | 3 callers (1 with a token), 2 connections, minimum 1 | are counter, ownership, bound and drain right, is a wakeup lost other than by a stop, or a timeout reported too early, and is the pool a `LeasePool`? |
| `pool_live` | 2 callers, configuration 3/0, clamped to 1/1 | does every acquisition end? |
| `pool_lost_stop` | 2 callers, 1 connection | violation: a stop request is lost (finding 1) |
| `pool_stranded` | 3 callers, 1 connection | violation: a cancelled waiter swallows a wakeup (finding 2) |
| `executor_safety` | 3 jobs (one submits, one shuts down), 2 threads, 2 workers, queue of 2 | promises, bound, wakeups, shutdown; is the executor a `JobService`? |
| `async_safety` | 3 jobs (one submits, one closes, one with a token), 2 threads, 2 connections, queue of 1 | futures, leases and `close` together |
| `async_live` | 2 jobs, 2 threads, one of which leases on its own, 1 connection | is every submission answered, does `close` return? |
| `async_close_in_callback` | 1 job that closes, 1 thread | violation: two `close` calls block each other (finding 3) |
| `txn_sound` | 5 drivers, 4 effects, chunks of 2; batch calls in a guard on SQLite only; refused statements and commits, lost links | do commit, rollback and the batch calls keep their promises, is the session clean afterwards? |
| `txn_nested` | PostgreSQL, 2 effects, no fault | violation: a batch call commits its caller's transaction (finding 4) |
| `db_context` | 6 dialects; 7 conditions, 2 order terms, 2 subqueries, `Budget` 7; 3 tables, 2 values, 3 ids, 3 commands | does every statement mean the query that was asked for, and every command the entities it was given? |
| `streams` | 4 drivers, 1 prepared query, 2 readers, 2 tokens, results of 0 or 2 rows, chunks of 2, 3 calls | does each reader give its own rows, does a stop take effect at once and on its own stream only, do the lists hold what was put in? |

The bounds. Four effects are a batch of two chunks and two statements around it,
or two guards of two statements each. Three callers on two connections are the least that show a waiter,
a holder and an opener at once, with a third party that takes what was meant for
the waiter; one connection is enough where only the wakeup counts. Two workers
let one callback run while another is joined or detached; three jobs fill the
queue past its bound while one runs. Callers return to the start, so sequences
of calls are unbounded; a job is submitted once, and a pool is not reopened,
because the code has no way to do so. No state constraint is used.

`Budget` prices the calls on a builder, so that seven allow two conditions, a
join of three tables with a condition, a set operation with another one, or a
condition, an order and a page, each with every terminal on every dialect. Each
condition mixes several kinds of node, and every literal has a value of its own,
so that two bindings that change places are seen. Three commands are enough to
create a table, fill it and change it; batches have up to three entities over
chunks of `DefaultChunk` 2, which stands for the drivers' 1000, and the tables
have a generated, a plain unique and a composite key. In `streams` three
calls make a reader meet an earlier and a later one; a list of two rows fills
its chunk, and what the application appends to it opens the next; two readers
and two tokens are what one reader's stop needs to reach another's.

Deadlock is checked in the `pool_*` runs and in `async_live`, and in `txn_*`,
where a session can always be given another guard. It is not in
`executor_safety`, `async_safety` and `async_close_in_callback`: a callback that
calls into an executor that is being shut down really does stop for ever, as
`doc/asynchronous_operations.md:107` warns for `submit`. Nor is it in
`db_context` and `streams`: they follow an application, which may stop when its
calls are used up.

Symmetry permutes connections, application threads, effects, readers or tokens,
in safety runs only.

## 4. Fairness

Weak fairness of each thread's own steps: the scheduler runs every thread.
Strong fairness of lock acquisition: a thread that keeps asking for a mutex
others hold only for a moment gets it. Strong fairness of `Expire`: the deadline
is a point in time that the clock passes, however often the waiter is woken
before it. Callbacks end (weak fairness of the worker steps). Nothing makes a
lease holder give its lease back, a stop be requested or anybody call `close`.
Liveness in `AsyncPool` takes from `ConnectionPool` that `acquire` ends
(`CallReturns`).

## 5. Proofs

`ConnectionPoolProofs` proves, for any finite sets of callers and connections
and any configuration, with only `ConfigAssumption` (numbers are natural, there
are identities enough for `MaxConns` connections, `Free` is no caller):

* `TypeCorrect`, `CounterIsExact`, `OwnersAreExclusive`, `ConnectionsAreBounded`,
  `ClosedPoolDrains`: invariants of `Spec`;
* `GrantsHold`: the last `throw` of `acquire` is never reached.

The argument. None of `Accounting`, `HardBound` and `ExclusiveOwner` is inductive
alone. `IInv` adds `HeldShape` (what a caller at each program point holds: one
connection while it leases or returns, none while it waits or opens),
`ClosedShape` (a closed pool has an empty idle stack) and `CountsConnections`
(every open connection is counted unless it was given up). `HardBound` is then
arithmetic: a connection given up has left the counter, and only a closed pool
gives up open connections, while nobody reserves a slot on a closed pool. Most
steps are "quiet": they move a caller between program points that own nothing,
and one lemma covers them all. `GrantInv` is separate, since it speaks of the
mutex: while a caller stands between the predicate and `Decide` it holds
`mutex_`, and only the stop flag, which never goes back, changes under it.

`ConnectionPoolRefinement` proves `PoolImplementsLeasePool`, that is
`Spec => LeasePool!Spec` under the refinement mapping of `ConnectionPool`, for
the same constants: a reservation, an open, a return or a close is the abstract
step of that name, and everything else (the mutex, the wait, wakeups, timeouts,
stops) changes nothing the abstract pool sees. It needs the invariant above. The
hard step is `Reserve`: the code compares its counter with the bound, the abstract
pool counts connections, and `CountsConnections` says that they agree. Each
connection closed outside the mutex is a `Destroy` there.

`ConnectionPoolWakeups` proves `TimeoutsAreHonest` (`TimeoutMeansExhausted`) and
`OnlyStopsStrand` (`StrandedOnlyByStop`). The first needs `WakeInv`: a caller
that parks or reports a timeout holds the mutex and has seen an exhausted pool.
The second is an action property about a count: what can be claimed (idle
connections and free slots) against the callers that are awake to claim it. A
step that adds something to claim wakes somebody; a caller goes to sleep, or
leaves without a connection, only on an exhausted or a closed pool, or it has
taken what it was awake for. The only step that does none of this is `Decide` of
a caller whose stop was requested, which is finding 2. So finding 2 needs a stop
token: `NobodyIsStrandedWithoutTokens` proves `NoStrandedWaiter`, the property
that finding violates, for callers that have none.

`TransactionsProofs` proves, for any effects, chunk size, set of drivers and any
number of guards and batch calls after one another, `CommittedIsStored`,
`UncommittedIsUndone`, `BatchesAreAtomic`, `SessionsComeBackClean` and
`TransactionTypes`. The assumptions are `TransactionAssumption` and `SoundUse`:
batch calls inside a guard on SQLite only, and of the faults only refused
statements or commits and lost links, which is what `txn_sound` checks. It is
necessary: TLC refutes each of the other cases (`txn_nested`, and the faults of
section 2).

The argument. `IInv` says where an effect is on its way: untouched, pending in
the innermost guard, or kept, dropped or unsure (`EffectsApart`); that the
session follows the guard (`SessionFollows`: idle outside of an uncommitted
guard, and holding exactly the guard's effects as long as nothing has failed);
and that a batch in its loop has attempted exactly the rows it has taken off its
list (`BatchShape`). The properties alone are not inductive: `CommitKeeps` needs
that a session which commits holds all of the guard's effects, `RollbackUndoes`
that nothing pending was stored before, and `BatchAtomic` that no later commit
touches an ended batch. A second guard is alive only if the first one has
committed: a `BEGIN` inside a transaction throws on SQLite
(`SqliteRefusesToNest`), and elsewhere nobody begins one. `GuardList` says so, and
therefore the session follows the innermost guard. The proof goes through one
lemma for each of the driver's operations, so that the drivers' differences end
there, one for each way the list of guards changes, and one for each action.

`StreamsLists` proves `ListsHoldTheirRows` (`BufferHoldsRows`): for any size of a
chunk, any rows, and any sequence of the calls of `Streams`, `operator[]`, the
iterator, `to_vector` and `size` of a list agree with what was put into it, also
after moves. `Holds` relates a list to the sequence it stands for: all chunks but
the last are full, and their concatenation is that sequence. That a row's index
divided by the chunk size finds its chunk, and that flattening the chunks gives
the rows, needs induction. The library's induction theorems take an operator, so
`Induction` says it with a set of numbers and rests on the well-foundedness of
`<`, which the library states without one.

`StreamsProofs` is about the readers, for every driver and any number of
statements, readers, tokens, rows and calls.

* `StopIsPrompt` (`StopBoundsRows`), under all uses in `Odd` as well: a stream
  gives at most one row once its stop was requested. Of the constants it needs
  only that no token is `"none"`. The property is not inductive: a stream past
  the test of its token may give a row, so one that has given a late row must
  never be there again, which `LateInv` says. The test in `Advance`
  re-establishes it; no callback, no `cancel()` and no driver is needed.
* `StreamTypes`, under all uses in `Odd`. The invariant `TypesInv` says in
  addition whose execution a reader and a cursor are of, and that there is one
  call on the stack.
* `ReadersReadTheirOwn` (`ReadsOwnRows`), as long as no statement is executed
  again while it is read and no stream is begun twice; both are necessary, as TLC
  shows. `RowsInv` says that the cursor a reader uses stands where the reader is,
  be it its own or the statement's, and that no other live reader has that
  statement, except on PostgreSQL, where the cursor is the reader's own.
* `StopsReachTheirOwn` (`OnlyStoppedThrows`), if nothing in `Odd` is done. What
  keeps one stream's stop from another stream is not the same on any two
  drivers, and `Halts` has a part for each: SQLite's interrupt reaches the whole
  connection, whose readers all have one token, and is cleared when no statement
  runs; a server stops only what it executes, while nothing else listens; an ODBC
  handle is cancelled in a call only, and for its own token.

Writing this proof showed that two definitions of `Streams` had a `CASE` with
overlapping guards, of which TLC had always taken the first; they are `IF`s now.

`TaskExecutorProofs` proves every safety property of the executor for any
finite sets of jobs and threads, and any number of workers and capacity of the queue:
`ExecutorTypes`, `QueueIsBounded`, `CancelledJobsNeverRan`,
`PendingJobsHaveOneOwner`, `FuturesAreFinal`, `ShutdownQuiets`,
`NoWakeupIsLost` and the refinement `ExecutorImplementsJobService`. The only assumption is `ExecutorAssumption`.

The argument. A job without an answer sits in one of four kinds of place: the
hands of a caller of `submit`, the queue, a worker, or the list of a `shutdown`.
`PendingHasOneOwner` counts the places and is not inductive; `JobsInv` says
instead that no two places share a job and that the jobs in the places are just
the pending ones, with lemmas for a job that enters or leaves a place.
`RanShape` ties what ran to where the job is, from which `CancelledNeverRan`
follows; and since an answer takes a job out of its place, no job has a second
(`FuturesAreFinal`). `QuietAfterShutdown` needs `ThreadsInv`: the workers started
are a prefix of the list, a thread joined has exited, a callback's caller is its
worker, who holds `lifecycle_mutex_` is inside `shutdown`, and what `shutdown`
has done at each of its lines. `NoSleepingOnWork` is inductive on top of these: it
bounds the queue by the workers about to look and the notifications about to
come, and a step changes the three counts together.

`ExecutorImplementsJobService` says that the executor is a `JobService`. A `Submit`
accepts or refuses the job, a `Look` that finds one starts the oldest, the first
`BeginShutdown` closes the service, and what notifies, wakes, joins or makes a
promise is invisible. From `JobsInv` comes that an offered job is new to the
service, from `StopShape` that a second `shutdown` finds nothing to take, and a
worker that looks for a job has none, which leaves room for another to run.

The invariant `IInv` holds however a callback ends (`AnyNext`), and `RanShape`,
which depends on that, is kept apart from it. So another module can use `IInv`
for callbacks with more steps than one.

`AsyncPoolProofs` does: it proves every safety property of `AsyncPool`, for any
jobs, threads, connections, pool size, worker count and queue capacity, under
`AsyncAssumption` alone: `AsyncTypes`, `LeasesComeBackFirst`,
`CancelledOperationsNeverRan`, `CloseQuiets` and `NothingStartsAfterClose`.

The argument. Each step of `AsyncPool` is a step of the executor or leaves its
variables alone, so its `IInv` holds here too. Five parts are added to it.
`CallsShape` says what a call of the pool is doing inside the executor, that it
holds `close_mutex_` meanwhile, and that a closed pool has stopped its executor
or has a `close` on its way to do so: without the last, nothing would link
`closed` to `stopping`. `OfferShape` says that a job on its way to `submit` is
nobody else's. `LambdaShape` says that the lambda runs in a callback of the
executor, and that on a detached worker it is past the call of the user's
callback, since only that callback can have detached it; that is why nothing
starts after `close`, not even there. `LeaseShape` says that who owns a
connection is at a place that will give it up, and `RanShape` that a callback
that was called still runs or is over and answers with its own result. The
properties follow from the places: a worker with a connection is inside the
lambda, so its job is pending; after `close` every callback that still runs is
on a detached worker, by `QuietAfterShutdown`.

Only model-checked: liveness and fairness (`CallReturns`, `SubmissionsAnswered`,
`CloseReturns`), which the provers do not reach; and statements and entity commands
(`QueryBuilder`, `EntityCommands` and what they extend), which are made of
recursive operators over trees and token sequences.

## 6. Findings

1. *Stop requests can be lost* (`pool_lost_stop`). The stop callback notifies
   without `mutex_`. A stop that falls between the predicate's read and the block
   wakes nobody, and the caller waits for its full timeout.
2. *A cancelled waiter swallows a wakeup* (`pool_stranded`). `notify_one` may
   pick a waiter whose stop flag is already set; it throws without passing the
   notification on. The other waiter sleeps beside a free connection. The stop
   callback of the cancelled waiter, which notifies everybody, does not run any
   more if it had not run yet when the call ended.
3. *`close` in a callback against `close` elsewhere* (`async_close_in_callback`).
   The documentation supports `close` from a callback without exception; while
   another thread is in `close`, the two wait for each other.
4. *Batch calls do not nest* (`txn_nested`). They begin and commit a
   `Transaction` of their own. On PostgreSQL the inner `COMMIT` commits the
   caller's work as well, so that the outer guard's rollback undoes nothing; on
   MySQL the inner `START TRANSACTION` already does, on SQL Server the inner
   commit. On SQLite the call throws and the outer guard stays sound.

## 7. Not modelled, and the plan

Next, in this order.

1. Statement options that outlive their statement: `set_timeout` changes the
   connection's busy timeout on SQLite and a session variable on MySQL, and
   nothing puts it back before the lease ends.
2. A dead link that `is_open()` does not notice (ODBC), composed with the pool.
3. `DbContext`: conflict columns given to an upsert, and `truncate` inside a
   transaction, which MySQL and Oracle commit before they empty the table.

Left out. Value conversions and row mapping (`mapping/*`, and the binding and
reading halves of the drivers) are compile-time templates and calls into the
client libraries; a model of them would be a model of those libraries. Quoting,
type names and number formats are text. The opening and closing of native
handles is one `unique_ptr` per handle. Build files, benchmarks and examples
have no logic of the library.
