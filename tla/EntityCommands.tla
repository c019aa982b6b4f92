--------------------------- MODULE EntityCommands ---------------------------
(***************************************************************************)
(* The commands of DbContext that store entities (core/db_context.h): the  *)
(* table is declared once, in C++, and every command builds its statements *)
(* from the declaration.  An entity is a function from column names to     *)
(* values.  SqlEngine plays the database; another session may insert too.  *)
(***************************************************************************)
EXTENDS SqlGenerator

Engine == INSTANCE SqlEngine

CONSTANTS
    CallBackends,    \* dialects of the connection
    Declarations,    \* tables, as TableDef declares them
    Values, Ids,     \* values a column may take, and keys to delete
    ChunkSizes,      \* chunk_size arguments, 0 for the default
    MaxCalls,        \* bound on the commands of one behaviour
    Overlooked       \* uses the code does not survive; see README

ASSUME CallBackendsAssumption == CallBackends \subseteq Dialects
ASSUME MaxCallsAssumption == MaxCalls \in Nat /\ ChunkSizes \subseteq Nat

VARIABLES
    backend, table,  \* the connection's dialect and the table in use
    store,           \* the table in the database
    inserting,       \* an insert() that has yet to ask for the id it got
    outcome,         \* the last command: what it was told, found and answered
    calls            \* how many commands there were
callVars == <<backend, table, store, inserting, outcome, calls>>

-----------------------------------------------------------------------------
(* Declarations: column() with its tags, and what commands derive from it. *)
ColumnDef(name, tags) ==
    [name |-> name, is_primary_key |-> "primary key" \in tags, is_auto_increment |-> "auto" \in tags,
     is_not_null |-> "not null" \in tags, is_unique |-> "unique" \in tags]
NamesWhere(Pick(_)) ==
    LET picked == SelectSeq(table.columns, Pick) IN [i \in DOMAIN picked |-> picked[i].name]
AllNames == NamesWhere(LAMBDA c : TRUE)
InsertNamesWithoutKeys == NamesWhere(LAMBDA c : ~c.is_auto_increment /\ ~c.is_primary_key)   \* a mutant
InsertNames == NamesWhere(LAMBDA c : ~c.is_auto_increment)
KeyNames == NamesWhere(LAMBDA c : c.is_primary_key)
OtherNames == NamesWhere(LAMBDA c : ~c.is_primary_key)
AutoName == LET auto == NamesWhere(LAMBDA c : c.is_auto_increment)
            IN  IF auto = << >> THEN "" ELSE Last(auto)
Entities == [Range(AllNames) -> Values]
Fields(e, names) == [i \in DOMAIN names |-> e[names[i]]]

-----------------------------------------------------------------------------
(* Batches.  The loop steps through the entities chunk_size at a time; a   *)
(* driver with array binding gets the rows of a chunk one after the other  *)
(* in a flat list, and executes the statement for each.  What a command    *)
(* hands to the driver is a list of such batches, one row each where there *)
(* is no array binding.  Rows without columns are not executed at all.     *)
ArrayBatchInsert(d) == d \in {"mssql", "mysql", "informix", "postgres"}
DefaultChunk == 2    \* stands for default_batch_chunk_size
Chunks(list, chunk_size) ==
    LET size == IF chunk_size = 0 THEN DefaultChunk ELSE chunk_size
        offsets == {o \in 0 .. Len(list) - 1 : o % size = 0}
    IN  [k \in 1 .. Cardinality(offsets) |->
            SubSeq(list, (k - 1) * size + 1, IF k * size < Len(list) THEN k * size ELSE Len(list))]
Flat(entities, Row(_)) == FlattenSeq([i \in DOMAIN entities |-> Row(entities[i])])
Statement(sql, params) == [array |-> FALSE, sql |-> sql, rows |-> <<params>>]
InsertManyBatch(sql, flat, ncols, count) ==
    [array |-> TRUE, sql |-> sql,
     rows |-> [r \in 1 .. IF ncols = 0 THEN 0 ELSE count |-> SubSeq(flat, (r - 1) * ncols + 1, r * ncols)]]
ByArray(sql, list, chunk_size, ncols, Row(_)) ==
    LET chunks == Chunks(list, chunk_size)
    IN  [k \in DOMAIN chunks |-> InsertManyBatch(sql, Flat(chunks[k], Row), ncols, Len(chunks[k]))]
RowByRow(sql, list, Row(_)) == [i \in DOMAIN list |-> Statement(sql, Row(list[i]))]
Batch(sql, list, chunk_size, ncols, Row(_)) ==
    IF ArrayBatchInsert(backend) THEN ByArray(sql, list, chunk_size, ncols, Row) ELSE RowByRow(sql, list, Row)

Dummies(names) == [i \in DOMAIN names |-> "0"]
InsertManyStatements(entities, chunk_size) ==
    LET g == Visit(backend, GenerateInsert(backend, table.name, InsertNames, Dummies(InsertNames), Nothing))
    IN  Batch(g.sql, entities, chunk_size, Len(InsertNames), LAMBDA e : Fields(e, InsertNames))

DeleteOneSql == <<"DELETE", "FROM", table.name, "WHERE", Head(KeyNames), "=", "?">>
DeleteInSql(count) ==
    <<"DELETE", "FROM", table.name, "WHERE", Head(KeyNames), "IN">>
    \o Paren(Joined(<<",">>, [i \in 1..count |-> <<"?">>]))
DeleteManyStatements(ids, chunk_size) ==
    IF ArrayBatchInsert(backend) THEN ByArray(DeleteOneSql, ids, chunk_size, 1, LAMBDA id : <<id>>)
    ELSE LET chunks == Chunks(ids, chunk_size)
         IN  [k \in DOMAIN chunks |-> Statement(DeleteInSql(Len(chunks[k])), chunks[k])]

UpdateManySql ==
    LET equals(names) == Each(names, LAMBDA n : <<n, "=", "?">>)
    IN  <<"UPDATE", table.name, "SET">> \o Joined(<<",">>, equals(OtherNames))
        \o <<"WHERE">> \o Joined(<<"AND">>, equals(KeyNames))
UpdateManyRowKeysFirst(e) == Fields(e, KeyNames) \o Fields(e, OtherNames)   \* a mutant
UpdateManyRow(e) == Fields(e, OtherNames) \o Fields(e, KeyNames)
UpdateManyStatements(entities, chunk_size) ==
    Batch(UpdateManySql, entities, chunk_size, Len(AllNames), UpdateManyRow)

(* upsert() inserts every column, the generated one too.  Without columns  *)
(* of the caller's the conflict is on the first key column, and all but    *)
(* the conflict columns are updated.                                       *)
ConflictColumns(given) == IF given # << >> THEN given ELSE SubSeq(KeyNames, 1, 1)
UpdateColumns(given, conflict) ==
    IF given # << >> THEN given ELSE SelectSeq(AllNames, LAMBDA n : ~Contains(conflict, n))
UpsertStatements(entities, conflict, update) ==
    LET on == ConflictColumns(conflict)
        sql == GenerateUpsert(backend, table.name, AllNames, Fields(Head(entities), AllNames),
                              on, UpdateColumns(update, on)).sql
    IN  RowByRow(sql, entities, LAMBDA e : Fields(e, AllNames))

-----------------------------------------------------------------------------
(* Execution.  A statement that is refused throws: the Transaction of a    *)
(* batch then rolls back, and a single statement has had no effect.        *)
(* An array execution answers with the number of its rows, over ODBC only  *)
(* when it touched one.                                                    *)
Counted(r, touched) == [r EXCEPT !.affected = @ + touched]
Run(sql, params, done) ==
    IF done.ok THEN Counted(Engine!Executed(backend, done.store, sql, params), done.affected) ELSE done
Answer(batch, r) ==
    IF batch.array /\ (r.affected > 0 \/ backend \in {"postgres", "mysql"})
    THEN [r EXCEPT !.affected = Len(batch.rows)] ELSE r
RunRows(batch, done) == FoldLeft(LAMBDA d, row : Run(batch.sql, row, d), done, batch.rows)
RunBatch(done, batch) == Counted(Answer(batch, RunRows(batch, [done EXCEPT !.affected = 0])), done.affected)
RunAll(batches, done) == FoldLeft(RunBatch, done, batches)
RolledBack(before, done) == IF done.ok THEN done ELSE Engine!Refused(before)

Called(op, told, before, failed, affected, id) ==
    outcome' = <<[op |-> op, told |-> told, before |-> before, failed |-> failed,
                  affected |-> affected, id |-> id]>>
Idle == inserting = Nothing /\ calls < MaxCalls
Begin == Idle /\ calls' = calls + 1 /\ UNCHANGED <<backend, table>>
Done(op, told, done) ==
    /\ UNCHANGED inserting /\ store' = done.store
    /\ Called(op, told, store, ~done.ok, done.affected, "0")
Whole(op, told, batches) ==
    Begin /\ Done(op, told, RolledBack(store, RunAll(batches, Engine!Accepted(store, 0, "0"))))

(* What the application is told about a command, for the properties.       *)
Told(entities, update) == [entities |-> entities, update |-> update]
Survives(condition, use) == condition \/ use \in Overlooked

EnsureTable ==
    /\ Survives(AutoName # "" => KeyNames \in {<< >>, <<AutoName>>}, "key beside auto")
    /\ Whole("ensure_table", Told(<< >>, {}),
             <<Statement(Visit(backend, GenerateCreateTable(backend, table.name, table.columns)).sql, << >>)>>)

(* Some databases ignore a given key when they generate the next one.      *)
KeepsUp == AutoName = "" \/ backend \in {"sqlite", "mysql", "informix"}

(* insert() executes the INSERT; where that does not return the id, a      *)
(* second statement asks for it.                                           *)
ReturnsIdEverywhere == TRUE   \* a mutant
ReturnsId == ReturningClause(backend, AutoName) # << >> \/ OutputClause(backend, AutoName) # << >>
Returned(e, r) ==
    /\ store' = r.store
    /\ IF ~r.ok \/ AutoName = "" \/ ReturnsId
       THEN Called("insert", Told(<<e>>, {}), store, ~r.ok, r.affected, r.value) /\ UNCHANGED inserting
       ELSE inserting' = <<[entity |-> e, before |-> store]>> /\ outcome' = Nothing
InsertText(e, returning) ==
    Visit(backend, GenerateInsert(backend, table.name, InsertNames, Fields(e, InsertNames), returning))
ExecutedText(g) == Engine!Executed(backend, store, g.sql, g.params)
Insert(e) ==
    LET returning == IF AutoName = "" THEN Nothing ELSE <<AutoName>>
    IN  /\ Survives(InsertNames # << >> \/ backend \notin {"mysql", "oracle", "informix"}, "no columns")
        /\ Begin
        /\ Returned(e, ExecutedText(InsertText(e, returning)))
AskId ==
    LET i == inserting[1]
    IN  /\ inserting # Nothing /\ inserting' = Nothing
        /\ Called("insert", Told(<<i.entity>>, {}), i.before, FALSE, 1,
                  Engine!Executed(backend, store, LastInsertIdQuery(backend, table.name, AutoName), << >>).value)
        /\ UNCHANGED <<backend, table, store, calls>>
(* Another session inserts between the two statements.                     *)
Slipped(r) ==
    /\ r.ok /\ store' = [r.store EXCEPT !.last = store.last]
    /\ inserting' = <<[inserting[1] EXCEPT !.before.rows = @ \cup (r.store.rows \ store.rows)]>>
OtherInserts(e) ==
    /\ inserting # Nothing /\ store.next < 5
    /\ Survives(backend # "oracle", "largest id")
    /\ Slipped(ExecutedText(InsertText(e, Nothing)))
    /\ UNCHANGED <<backend, table, outcome, calls>>

InsertMany(entities, chunk_size) ==
    /\ Survives(InsertNames # << >>, "no columns")
    /\ Whole("insert_many", Told(entities, {}), InsertManyStatements(entities, chunk_size))
(* It throws without a key and with a composite one.                       *)
DeleteMany(ids, chunk_size) ==
    LET rows == {r \in store.rows : r[Head(KeyNames)] \in Range(ids)}
    IN  /\ Len(KeyNames) = 1
        /\ Survives(~ArrayBatchInsert(backend) \/ Cardinality(rows) = Len(ids), "absent ids")
        /\ Whole("delete_many", Told(ids, {}), DeleteManyStatements(ids, chunk_size))
UpdateMany(entities, chunk_size) ==
    /\ KeyNames # << >> /\ Survives(OtherNames # << >>, "keys only")
    /\ Whole("update_many", Told(entities, {}), UpdateManyStatements(entities, chunk_size))

Upsert_(op, entities, update) ==
    /\ KeyNames # << >>
    /\ Survives(Len(KeyNames) = 1, "composite upsert") /\ Survives(KeepsUp, "given key")
    /\ Survives(backend = "mysql" => ~\E i \in DOMAIN table.columns : table.columns[i].is_unique, "other key")
    /\ Whole(op, Told(entities, Range(UpdateColumns(update, ConflictColumns(<< >>)))),
             UpsertStatements(entities, << >>, update))
UpsertOne(e, update) == Upsert_("upsert", <<e>>, update)
UpsertMany(entities, update) == Upsert_("upsert_many", entities, update)
Truncate ==
    Whole("truncate", Told(<< >>, {}),
          <<Statement(IF SupportsTruncate(backend) THEN <<"TRUNCATE TABLE", table.name>>
                      ELSE <<"DELETE", "FROM", table.name>>, << >>)>>)

-----------------------------------------------------------------------------
CallInit ==
    /\ backend \in CallBackends /\ table \in Declarations
    /\ store = Engine!NoStore /\ inserting = Nothing /\ outcome = Nothing /\ calls = 0

(* Batches of up to three entities where there are few, of two otherwise.  *)
(* What the application leaves in a generated column is ignored.           *)
Batches(S) == UNION {[1..n -> S] : n \in 1 .. IF Cardinality(S) <= 3 THEN 3 ELSE 2}
Drafts == {e \in Entities : AutoName # "" => e[AutoName] = "1"}
CallNext ==
    \/ EnsureTable \/ Truncate
    \/ \E e \in Drafts : Insert(e) \/ OtherInserts(e)
    \/ AskId
    \/ Idle /\ \E chunk_size \in ChunkSizes :
         \/ \E list \in Batches(Drafts) : InsertMany(list, chunk_size)
         \/ \E ids \in Batches(Ids) : DeleteMany(ids, chunk_size)
         \/ \E list \in Batches(Entities) : UpdateMany(list, chunk_size)
    \/ Idle /\ \E update \in {<< >>} \cup {<<n>> : n \in Range(OtherNames)} :
         \/ \E e \in Entities : UpsertOne(e, update)
         \/ \E list \in Batches(Entities) : UpsertMany(list, update)

-----------------------------------------------------------------------------
(* What a command means, from the declaration and the entities alone.      *)
DeclaredKeys ==
    (IF KeyNames = << >> THEN {} ELSE {Range(KeyNames)})
    \cup {{table.columns[i].name} : i \in {k \in DOMAIN table.columns : table.columns[k].is_unique}}
SameKey(r, e) == Engine!Agree(r, e, Range(KeyNames))
(* Entities that cannot all be stored beside the rows: two share a key.    *)
Clash(rows, entities) ==
    \E key \in {k \in DeclaredKeys : AutoName \notin k} :
        \/ \E r \in rows, i \in DOMAIN entities : Engine!Agree(r, entities[i], key)
        \/ \E i, j \in DOMAIN entities : i # j /\ Engine!Agree(entities[i], entities[j], key)
MayClash == Cardinality(DeclaredKeys) > 1

Alike(r, e) == Engine!Agree(r, e, Range(InsertNames))
Stored(before, after, entities) ==
    /\ before \subseteq after
    /\ \A e \in Range(entities) \cup (after \ before) :
         Cardinality({r \in after \ before : Alike(r, e)})
           = Cardinality({i \in DOMAIN entities : Alike(entities[i], e)})
Replaced(rows, entities) ==
    FoldLeft(LAMBDA rs, e : {IF SameKey(r, e) THEN e ELSE r : r \in rs}, rows, entities)
Merged(rows, entities, update) ==
    FoldLeft(LAMBDA rs, e :
        IF \E r \in rs : SameKey(r, e)
        THEN {IF SameKey(r, e) THEN [c \in DOMAIN r |-> IF c \in update THEN e[c] ELSE r[c]] ELSE r : r \in rs}
        ELSE rs \cup {e}, rows, entities)

(* The table has the shape that was declared; a command in progress is an  *)
(* insert() of a generated key.                                            *)
CallTypeOK ==
    /\ backend \in CallBackends /\ table \in Declarations /\ calls \in 0..MaxCalls
    /\ \A r \in store.rows : DOMAIN r = Range(AllNames)
    /\ inserting # Nothing => AutoName # "" /\ outcome = Nothing

(* On every dialect a command leaves the rows its entities stand for, in   *)
(* the order they were given, whatever the chunks; one that throws, because*)
(* a key is taken or the table is missing, leaves the rows as they were,   *)
(* and none throws without such a reason.  delete_many answers with the    *)
(* number of rows that are gone.                                           *)
CommandMeansEntities ==
    \A o \in Range(outcome) :
        LET before == o.before.rows
            after == store.rows
            entities == o.told.entities
        IN  /\ o.failed => after = before
            /\ ~o.before.exists /\ o.op # "ensure_table" => o.failed
            /\ o.before.exists \/ o.op = "ensure_table" =>
                 CASE o.op = "ensure_table"             -> ~o.failed /\ after = before
                   [] o.op \in {"insert", "insert_many"} ->
                        IF Clash(before, entities) THEN o.failed
                        ELSE ~o.failed /\ Stored(before, after, entities)
                   [] o.op = "delete_many" ->
                        /\ ~o.failed /\ after = {r \in before : r[Head(KeyNames)] \notin Range(entities)}
                        /\ o.affected = Cardinality(before) - Cardinality(after)
                   [] o.op = "update_many" ->
                        IF o.failed THEN MayClash ELSE after = Replaced(before, entities)
                   [] o.op \in {"upsert", "upsert_many"} ->
                        IF o.failed THEN MayClash ELSE after = Merged(before, entities, o.told.update)
                   [] o.op = "truncate" -> ~o.failed /\ after = {}

(* insert() answers with the generated key of the row it stored, also when *)
(* another session inserts before it asks for the key.                     *)
InsertAnswersItsRow ==
    \A o \in Range(outcome) :
        o.op = "insert" /\ ~o.failed /\ AutoName # "" =>
            {r[AutoName] : r \in store.rows \ o.before.rows} = {o.id}
=============================================================================
