------------------------------ MODULE Dialects ------------------------------
(***************************************************************************)
(* The SQL dialects (dialect/dialect.h and src/dialect).  A text is a      *)
(* sequence of tokens.  Identifiers are single tokens, so quoting is left  *)
(* out; a piece of text that always stays together, like "CAST(strftime('%Y',",     *)
(* is one token as well.  The placeholder is "?" in every dialect.         *)
(***************************************************************************)
EXTENDS Expressions, SequencesExt

Dialects == {"sqlite", "postgres", "mysql", "mssql", "oracle", "informix"}

(* Texts between separators, and a list of names.                          *)
Joined(separator, texts) ==
    FlattenSeq([i \in DOMAIN texts |-> IF i = 1 THEN texts[i] ELSE separator \o texts[i]])
Each(names, Text(_)) == [i \in DOMAIN names |-> Text(names[i])]
Names(names) == Joined(<<",">>, Each(names, LAMBDA n : <<n>>))
Marks(names) == Joined(<<",">>, Each(names, LAMBDA n : <<"?">>))
Num(n) == <<ToString(n)>>

-----------------------------------------------------------------------------
(* limit_offset, per dialect; limit and offset are optional.               *)
SqliteLimitOffset(limit, offset) ==
    (IF limit # Nothing THEN <<"LIMIT">> \o Num(limit[1])
     ELSE IF offset # Nothing THEN <<"LIMIT", "-1">> ELSE << >>)
    \o (IF offset # Nothing THEN <<"OFFSET">> \o Num(offset[1]) ELSE << >>)

PostgresLimitOffset(limit, offset) ==
    (IF limit # Nothing THEN <<"LIMIT">> \o Num(limit[1]) ELSE << >>)
    \o (IF offset # Nothing THEN <<"OFFSET">> \o Num(offset[1]) ELSE << >>)

MysqlLimitOffset(limit, offset) ==
    IF limit # Nothing /\ offset # Nothing
    THEN <<"LIMIT">> \o Num(limit[1]) \o <<"OFFSET">> \o Num(offset[1])
    ELSE IF limit # Nothing THEN <<"LIMIT">> \o Num(limit[1])
    ELSE IF offset # Nothing THEN <<"LIMIT", "18446744073709551615", "OFFSET">> \o Num(offset[1])
    ELSE << >>

FetchNext(limit) == <<"FETCH", "NEXT">> \o Num(limit[1]) \o <<"ROWS", "ONLY">>
OracleLimitOffset(limit, offset) ==
    IF offset # Nothing /\ limit # Nothing
    THEN <<"OFFSET">> \o Num(offset[1]) \o <<"ROWS">> \o FetchNext(limit)
    ELSE IF offset # Nothing THEN <<"OFFSET">> \o Num(offset[1]) \o <<"ROWS">>
    ELSE IF limit # Nothing THEN <<"OFFSET", "0", "ROWS">> \o FetchNext(limit)
    ELSE << >>

(* The text is Oracle's, but a limit of 0 throws invalid_argument.         *)
MssqlLimitThrows(limit) == limit = <<0>>
MssqlLimitOffset(limit, offset) == OracleLimitOffset(limit, offset)

InformixLimitOffset(limit, offset) == << >>
InformixSelectPrefix(limit, offset) ==
    (IF offset # Nothing THEN <<"SKIP">> \o Num(offset[1]) ELSE << >>)
    \o (IF limit # Nothing THEN <<"FIRST">> \o Num(limit[1]) ELSE << >>)

LimitOffset(d, limit, offset) ==
    CASE d = "sqlite"   -> SqliteLimitOffset(limit, offset)
      [] d = "postgres" -> PostgresLimitOffset(limit, offset)
      [] d = "mysql"    -> MysqlLimitOffset(limit, offset)
      [] d = "mssql"    -> MssqlLimitOffset(limit, offset)
      [] d = "oracle"   -> OracleLimitOffset(limit, offset)
      [] d = "informix" -> InformixLimitOffset(limit, offset)
LimitThrows(d, limit) == d = "mssql" /\ MssqlLimitThrows(limit)
SelectPrefix(d, limit, offset) ==
    IF d = "informix" THEN InformixSelectPrefix(limit, offset) ELSE << >>

-----------------------------------------------------------------------------
(* Functions.                                                              *)
MssqlFunctionName(f) ==
    CASE f = "LENGTH" -> "LEN" [] f = "SUBSTR" -> "SUBSTRING" [] OTHER -> f
MysqlFunctionName(f) ==
    CASE f = "LENGTH" -> "CHAR_LENGTH" [] f = "SUBSTR" -> "SUBSTRING" [] OTHER -> f
FunctionName(d, f) ==
    CASE d = "mssql" -> MssqlFunctionName(f) [] d = "mysql" -> MysqlFunctionName(f) [] OTHER -> f

CurrentTimestamp(d) == IF d = "informix" THEN <<"CURRENT YEAR TO FRACTION(3)">> ELSE <<"CURRENT_TIMESTAMP">>
CurrentDate(d) ==
    CASE d = "mssql"    -> <<"CAST(GETDATE() AS DATE)">>
      [] d = "mysql"    -> <<"CURRENT_DATE()">>
      [] d = "informix" -> <<"TODAY">>
      [] OTHER          -> <<"CURRENT_DATE">>

(* extract_part_func for the parts that DatePart has.                      *)
SqliteExtract(part, e) ==
    <<CASE part = "YEAR" -> "CAST(strftime('%Y'," [] part = "MONTH" -> "CAST(strftime('%m',"
        [] part = "DAY" -> "CAST(strftime('%d',">> \o e \o <<") AS INTEGER)">>
PostgresExtract(part, e) == <<"EXTRACT(", part, "FROM CAST(">> \o e \o <<"AS TIMESTAMP))">>
MysqlExtract(part, e) == <<part, "(">> \o e \o <<")">>
MssqlExtract(part, e) == <<part, "(">> \o e \o <<")">>
OracleExtract(part, e) ==
    <<"EXTRACT(", part, "FROM TO_TIMESTAMP(SUBSTR(">> \o e \o <<", 1, 19), 'YYYY-MM-DD HH24:MI:SS'))">>
InformixExtract(part, e) == <<part, "(", "CAST(">> \o e \o <<"AS DATETIME YEAR TO SECOND))">>
ExtractPart(d, part, e) ==
    CASE d = "sqlite"   -> SqliteExtract(part, e)
      [] d = "postgres" -> PostgresExtract(part, e)
      [] d = "mysql"    -> MysqlExtract(part, e)
      [] d = "mssql"    -> MssqlExtract(part, e)
      [] d = "oracle"   -> OracleExtract(part, e)
      [] d = "informix" -> InformixExtract(part, e)

(* date_add_days_func: SQL Server's takes the days first.                  *)
SqliteAddDays(e, days) == <<"date(">> \o e \o <<", (">> \o days \o <<") || ' days')">>
PostgresAddDays(e, days) ==
    <<"(CAST(">> \o e \o <<"AS TIMESTAMP) + (">> \o days \o <<"|| ' days')::interval)">>
MysqlAddDays(e, days) == <<"DATE_ADD(">> \o e \o <<", INTERVAL (">> \o days \o <<") DAY)">>
MssqlAddDays(e, days) == <<"DATEADD(day,">> \o days \o <<",">> \o e \o <<")">>
OracleAddDays(e, days) ==
    <<"(TO_TIMESTAMP(SUBSTR(">> \o e \o <<", 1, 19), 'YYYY-MM-DD HH24:MI:SS') + NUMTODSINTERVAL(">>
    \o days \o <<", 'DAY'))">>
InformixAddDays(e, days) == <<"(">> \o e \o <<"+ (">> \o days \o <<") UNITS DAY)">>
DateAddDays(d, e, days) ==
    CASE d = "sqlite"   -> SqliteAddDays(e, days)
      [] d = "postgres" -> PostgresAddDays(e, days)
      [] d = "mysql"    -> MysqlAddDays(e, days)
      [] d = "mssql"    -> MssqlAddDays(e, days)
      [] d = "oracle"   -> OracleAddDays(e, days)
      [] d = "informix" -> InformixAddDays(e, days)
-----------------------------------------------------------------------------
(* Keys, generated values and tables.                                      *)
AutoIncrementType(d) ==
    CASE d = "sqlite"   -> <<"INTEGER", "PRIMARY KEY", "AUTOINCREMENT">>
      [] d = "postgres" -> <<"BIGSERIAL", "PRIMARY KEY">>
      [] d = "mysql"    -> <<"INT", "AUTO_INCREMENT", "PRIMARY KEY">>
      [] d = "mssql"    -> <<"INT", "IDENTITY(1,1)", "PRIMARY KEY">>
      [] d = "oracle"   -> <<"NUMBER", "GENERATED BY DEFAULT ON NULL AS IDENTITY", "PRIMARY KEY">>
      [] d = "informix" -> <<"SERIAL", "PRIMARY KEY">>
CreateTablePrefix(d, table) ==
    IF d = "mssql" THEN <<"IF OBJECT_ID(N'", table, "', N'U') IS NULL", "CREATE TABLE", table>>
    ELSE <<"CREATE TABLE", "IF NOT EXISTS", table>>

ReturningClause(d, column) ==
    IF d \in {"sqlite", "postgres"} THEN <<"RETURNING", column>> ELSE << >>
OutputClause(d, column) == IF d = "mssql" THEN <<"OUTPUT", "INSERTED.", column>> ELSE << >>
OracleLastInsertId(table, pk) ==
    IF table # "" /\ pk # "" THEN <<"SELECT", "NVL(MAX(", pk, "), 0)", "FROM", table>>
    ELSE <<"SELECT", "0", "FROM", "DUAL">>
LastInsertIdQuery(d, table, pk) ==
    CASE d = "oracle"   -> OracleLastInsertId(table, pk)
      [] d = "informix" -> <<"SELECT", "DBINFO('sqlca.sqlerrd1')", "FROM", "systables", "WHERE tabid = 1">>
      [] d = "sqlite"   -> <<"SELECT", "last_insert_rowid()">>
      [] OTHER          -> <<"SELECT", "LAST_INSERT_ID()">>
SupportsTruncate(d) == d # "sqlite"

-----------------------------------------------------------------------------
(* generate_upsert: INSERT ... ON CONFLICT, ON DUPLICATE KEY, or MERGE.    *)
InsertInto(table, columns) ==
    <<"INSERT", "INTO", table, "(">> \o Names(columns) \o <<")", "VALUES", "(">> \o Marks(columns) \o <<")">>

DefaultUpsert(table, columns, conflict, update) ==
    InsertInto(table, columns) \o <<"ON CONFLICT", "(">> \o Names(conflict) \o <<")">>
    \o IF update = << >> THEN <<"DO NOTHING">>
       ELSE <<"DO UPDATE SET">>
            \o Joined(<<",">>, Each(update, LAMBDA c : <<c, "=", "EXCLUDED.", c>>))

MysqlUpsert(table, columns, conflict, update) ==
    InsertInto(table, columns) \o <<"ON DUPLICATE KEY UPDATE">>
    \o IF update # << >>
       THEN Joined(<<",">>, Each(update, LAMBDA c : <<c, "=", "VALUES(", c, ")">>))
       ELSE LET c == IF conflict # << >> THEN conflict[1] ELSE columns[1] IN <<c, "=", c>>

(* What the three MERGE statements share after the source.                 *)
MergeOn(conflict) ==
    <<"ON", "(">> \o Joined(<<"AND">>, Each(conflict, LAMBDA c : <<"target.", c, "=", "source.", c>>)) \o <<")">>
MergeUpdate(update) ==
    IF update = << >> THEN << >>
    ELSE <<"WHEN MATCHED THEN UPDATE SET">>
         \o Joined(<<",">>, Each(update, LAMBDA c : <<"target.", c, "=", "source.", c>>))
MergeInsert(columns) ==
    <<"WHEN NOT MATCHED THEN INSERT", "(">> \o Names(columns) \o <<")", "VALUES", "(">>
    \o Joined(<<",">>, Each(columns, LAMBDA c : <<"source.", c>>)) \o <<")">>

MssqlUpsert(table, columns, conflict, update) ==
    <<"MERGE", "INTO", table, "WITH (HOLDLOCK) AS target USING (VALUES (">> \o Marks(columns)
    \o <<")) AS source (">> \o Names(columns) \o <<")">>
    \o MergeOn(conflict) \o MergeUpdate(update) \o MergeInsert(columns)

OracleUpsert(table, columns, conflict, update) ==
    LET others == SelectSeq(update, LAMBDA c : ~Contains(conflict, c))
    IN  IF columns = << >> \/ conflict = << >> THEN << >>
        ELSE <<"MERGE", "INTO", table, "target USING (SELECT">>
             \o Joined(<<",">>, Each(columns, LAMBDA c : <<"?", "AS", c>>))
             \o <<"FROM DUAL) source">>
             \o MergeOn(conflict) \o MergeUpdate(others) \o MergeInsert(columns)

(* The type a value is cast to; the values of the model are integers.      *)
InformixCastType(v) == IF v = "NULL" THEN "VARCHAR(255)" ELSE "BIGINT"
InformixUpsert(table, columns, values, conflict, update) ==
    LET Cast(i) == IF i \in DOMAIN values THEN InformixCastType(values[i]) ELSE "VARCHAR(255)"
    IN  <<"MERGE", "INTO", table, "AS target USING (SELECT">>
        \o Joined(<<",">>, [i \in DOMAIN columns |-> <<"CAST(", "?", Cast(i), ")", "AS", columns[i]>>])
        \o <<"FROM systables WHERE tabid = 1) AS source">>
        \o MergeOn(conflict) \o MergeUpdate(update) \o MergeInsert(columns)

Upsert(d, table, columns, values, conflict, update) ==
    CASE d \in {"sqlite", "postgres"} -> DefaultUpsert(table, columns, conflict, update)
      [] d = "mysql"    -> MysqlUpsert(table, columns, conflict, update)
      [] d = "mssql"    -> MssqlUpsert(table, columns, conflict, update)
      [] d = "oracle"   -> OracleUpsert(table, columns, conflict, update)
      [] d = "informix" -> InformixUpsert(table, columns, values, conflict, update)
UpsertThrows(d, columns, conflict) ==
    \/ d = "mysql" /\ columns = << >>
    \/ d = "mssql" /\ (columns = << >> \/ conflict = << >>)
=============================================================================
