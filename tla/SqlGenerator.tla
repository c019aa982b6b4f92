---------------------------- MODULE SqlGenerator ----------------------------
(***************************************************************************)
(* The SQL generator (src/sql_generator.cpp): from a tree or the clauses   *)
(* of a statement to its text, the values to bind (params) and the slots   *)
(* of a prepared statement.  Both lists grow in the order in which the     *)
(* tree is visited, while a dialect may put the visited texts together in  *)
(* another one; so a text and the pieces visited for it are kept apart.    *)
(***************************************************************************)
EXTENDS Dialects

StaticSlot(v) == [is_dynamic |-> FALSE, dynamic_index |-> "", static_value |-> v]
DynamicSlot(i) == [is_dynamic |-> TRUE, dynamic_index |-> i, static_value |-> ""]

(* A text and what visiting its pieces, in that order, appended.           *)
Emit(sql, visited) ==
    [sql |-> sql,
     params |-> FlattenSeq([i \in DOMAIN visited |-> visited[i].params]),
     slots |-> FlattenSeq([i \in DOMAIN visited |-> visited[i].slots])]
Bare(sql) == Emit(sql, << >>)
Texts(pieces) == [i \in DOMAIN pieces |-> pieces[i].sql]
Listed(pieces) == Emit(Joined(<<",">>, Texts(pieces)), pieces)
Paren(text) == <<"(">> \o text \o <<")">>

-----------------------------------------------------------------------------
(* The branches of visit().  e is the node, a its visited operands and w   *)
(* the visited WHERE of its subquery, where the code visits them in that   *)
(* order.                                                                  *)
Qualified(table, column) == <<table, ".", column>>
VisitColumn(e) == Bare(IF e.args = << >> THEN <<e.op>> ELSE Qualified(e.args[1].op, e.op))
VisitLiteral(e) == [sql |-> <<"?">>, params |-> <<e.op>>, slots |-> <<StaticSlot(e.op)>>]
VisitParam(e) == [sql |-> <<"?">>, params |-> << >>, slots |-> <<DynamicSlot(e.op)>>]
VisitBinary(e, a) == Emit(Paren(a[1].sql \o <<e.op>> \o a[2].sql), a)
VisitLogic(e, a) == Emit(Paren(a[1].sql \o <<e.op>> \o a[2].sql), a)
VisitUnary(e, a) ==
    CASE e.op = "NOT"         -> Emit(<<"NOT">> \o Paren(a[1].sql), a)
      [] e.op = "IS NULL"     -> Emit(a[1].sql \o <<"IS", "NULL">>, a)
      [] e.op = "IS NOT NULL" -> Emit(a[1].sql \o <<"IS", "NOT", "NULL">>, a)
Negation(e) == IF e.op = "NOT" THEN <<"NOT">> ELSE << >>
VisitBetween(e, a) ==
    Emit(Paren(a[1].sql \o Negation(e) \o <<"BETWEEN">> \o a[2].sql \o <<"AND">> \o a[3].sql), a)
VisitLike(e, a) == Emit(Paren(a[1].sql \o Negation(e) \o <<"LIKE">> \o a[2].sql), a)
VisitInList(e, a) ==
    IF Len(a) = 1   \* no values: the operand was visited all the same
    THEN Emit(IF e.op = "NOT" THEN <<"(", "1", "=", "1", ")">> ELSE <<"(", "1", "=", "0", ")">>, a)
    ELSE Emit(Paren(a[1].sql \o Negation(e) \o <<"IN">> \o Paren(Listed(Tail(a)).sql)), a)
VisitFunction(d, e, a) == Emit(<<FunctionName(d, e.op)>> \o Paren(Listed(a).sql), a)

(* SELECT [DISTINCT] columns FROM table [WHERE ...], with what stands for  *)
(* an empty list of columns.                                               *)
SubSelect(sub, w, all) ==
    <<"SELECT">> \o (IF sub.is_distinct THEN <<"DISTINCT">> ELSE << >>)
    \o (IF sub.select_columns = << >> THEN <<all>> ELSE Names(sub.select_columns))
    \o <<"FROM", sub.table_name>> \o (IF w = Nothing THEN << >> ELSE <<"WHERE">> \o w[1].sql)
VisitSubquery(e, w) == Emit(Paren(SubSelect(e.sub[1], w, "*")), w)
VisitExists(e, w) == Emit(Negation(e) \o <<"EXISTS">> \o Paren(SubSelect(e.sub[1], w, "1")), w)
VisitInSubqueryOwnContext(e, a, w) ==   \* a mutant: the subquery keeps its slots
    Emit(Paren(a[1].sql \o Negation(e) \o <<"IN">> \o Paren(SubSelect(e.sub[1], w, "*"))), a)
VisitInSubquery(e, a, w) ==
    Emit(Paren(a[1].sql \o Negation(e) \o <<"IN">> \o Paren(SubSelect(e.sub[1], w, "*"))), a \o w)

VisitExtract(d, e, a) == Emit(ExtractPart(d, e.op, a[1].sql), a)
VisitDateAdd(d, e, a) == Emit(DateAddDays(d, a[1].sql, a[2].sql), a)
VisitOrderTerm(e, a) == Emit(a[1].sql \o <<e.op>>, a)

(* a: the argument, the PARTITION BY list and the ORDER BY list, each as   *)
(* the list of what was visited.                                           *)
VisitWindow(e, a) ==
    LET arg == IF a[1].sql = << >> /\ e.op = "COUNT" THEN <<"*">> ELSE a[1].sql
        Clause(words, list) == IF list.sql = << >> THEN << >> ELSE words \o list.sql
    IN  Emit(<<e.op>> \o Paren(arg)
             \o <<"OVER">> \o Paren(Clause(<<"PARTITION", "BY">>, a[2]) \o Clause(<<"ORDER", "BY">>, a[3])), a)

(* The parts of a statement are nodes as well: words that stand there as   *)
(* they are, a list after its words, and parts one after the other.        *)
Words(text) == Node("Words", text, << >>)
Clause(words, list) == IF list = << >> THEN Words(<< >>) ELSE Node("Clause", words, list)
Sequel(parts) == Node("Sequel", "", parts)
VisitClause(e, a) == Emit(e.op \o Listed(a).sql, a)
VisitSequel(a) == Emit(FlattenSeq(Texts(a)), a)

RECURSIVE Visit(_, _)
Visit(d, e) ==
    LET a == [i \in DOMAIN e.args |-> Visit(d, e.args[i])]
        w == IF e.sub = Nothing \/ e.sub[1].where = Nothing THEN Nothing ELSE <<Visit(d, e.sub[1].where[1])>>
    IN  CASE e.node = "Column"           -> VisitColumn(e)
          [] e.node = "Literal"          -> VisitLiteral(e)
          [] e.node = "Param"            -> VisitParam(e)
          [] e.node = "Binary"           -> VisitBinary(e, a)
          [] e.node = "Logic"            -> VisitLogic(e, a)
          [] e.node = "Unary"            -> VisitUnary(e, a)
          [] e.node = "Between"          -> VisitBetween(e, a)
          [] e.node = "Like"             -> VisitLike(e, a)
          [] e.node = "InList"           -> VisitInList(e, a)
          [] e.node = "Function"         -> VisitFunction(d, e, a)
          [] e.node = "Subquery"         -> VisitSubquery(e, w)
          [] e.node = "Exists"           -> VisitExists(e, w)
          [] e.node = "InSubquery"       -> VisitInSubquery(e, a, w)
          [] e.node = "Extract"          -> VisitExtract(d, e, a)
          [] e.node = "DateAdd"          -> VisitDateAdd(d, e, a)
          [] e.node = "CurrentTimestamp" -> Bare(CurrentTimestamp(d))
          [] e.node = "CurrentDate"      -> Bare(CurrentDate(d))
          [] e.node = "Window"           -> VisitWindow(e, a)
          [] e.node = "OrderBy"          -> VisitOrderTerm(e, a)
          [] e.node = "Words"            -> Bare(e.op)
          [] e.node = "Clause"           -> VisitClause(e, a)
          [] e.node = "Sequel"           -> VisitSequel(a)
          [] OTHER                       -> Listed(a)

-----------------------------------------------------------------------------
(* The clauses of a statement, in the order of the text.                   *)
Where(where) == Clause(<<"WHERE">>, where)
OrderBy(d, order_by, limit, offset) ==
    IF order_by # << >> THEN Clause(<<"ORDER", "BY">>, order_by)
    ELSE Words(IF Contains(LimitOffset(d, limit, offset), "OFFSET")
               THEN <<"ORDER", "BY", "(", "SELECT", "NULL", ")">> ELSE << >>)
SelectList(columns) == IF columns = << >> THEN <<"*">> ELSE Names(columns)
Distinct(is_distinct) == IF is_distinct THEN <<"DISTINCT">> ELSE << >>
Select(d, limit, offset, distinct) == <<"SELECT">> \o SelectPrefix(d, limit, offset) \o Distinct(distinct)
-----------------------------------------------------------------------------
(* Queries.  s holds the clauses of a builder: a table with its columns,   *)
(* where, order, limit, offset, distinct, group, having and ctes; a joined *)
(* one has joins, a set operation has ops.                                 *)
Cte(c) ==
    Sequel(<<Words(<<c.name, "AS", "(">> \o SubSelect(c.subquery, Nothing, "*")),
             Where(c.subquery.where), Words(<<")">>)>>)
GenerateCteSelect(d, s) ==
    Sequel(<<Clause(<<"WITH">>, [i \in DOMAIN s.ctes |-> Cte(s.ctes[i])]),
             Words(Select(d, s.limit, s.offset, s.distinct) \o SelectList(s.columns) \o <<"FROM", s.table>>),
             Where(s.where), Clause(<<"GROUP", "BY">>, s.group), Clause(<<"HAVING">>, s.having),
             OrderBy(d, s.order, s.limit, s.offset), Words(LimitOffset(d, s.limit, s.offset))>>)
GenerateSelect(d, s) == GenerateCteSelect(d, [s EXCEPT !.ctes = << >>])

Join(j) == Sequel(<<Words(<<j.join_type, j.table_name, "ON">>), j.on_condition>>)
Joins(s) == Sequel([i \in DOMAIN s.joins |-> Join(s.joins[i])])
JoinedColumns(s) ==
    LET Of(table, columns) == Each(columns, LAMBDA c : Qualified(table, c))
    IN  Of(s.table, s.columns)
        \o FlattenSeq([i \in DOMAIN s.joins |-> Of(s.joins[i].table_name, s.joins[i].columns)])
GenerateJoinedSelect(d, s) ==
    Sequel(<<Words(Select(d, s.limit, s.offset, FALSE) \o Joined(<<",">>, JoinedColumns(s)) \o <<"FROM", s.table>>),
             Joins(s), Where(s.where),
             OrderBy(d, s.order, s.limit, s.offset), Words(LimitOffset(d, s.limit, s.offset))>>)
GenerateJoinedCount(s) ==
    Sequel(<<Words(<<"SELECT", "COUNT", "(", "*", ")", "FROM", s.table>>), Joins(s), Where(s.where)>>)

(* A column that orders a set operation loses its table.                   *)
Unqualified(term) ==
    IF term.args[1].node = "Column" THEN [term EXCEPT !.args = <<Column(term.args[1].op)>>] ELSE term
SetOp(o) ==
    Sequel(<<Words(<<o.op_type, "SELECT">> \o Distinct(o.is_distinct) \o SelectList(o.columns)
                   \o <<"FROM", o.table_name>>),
             Where(o.where)>>)
GenerateSetOperation(d, s) ==
    Sequel(<<Words(Select(d, s.limit, s.offset, s.distinct) \o SelectList(s.columns) \o <<"FROM", s.table>>),
             Where(s.where), Sequel([i \in DOMAIN s.ops |-> SetOp(s.ops[i])]),
             OrderBy(d, [i \in DOMAIN s.order |-> Unqualified(s.order[i])], s.limit, s.offset),
             Words(LimitOffset(d, s.limit, s.offset))>>)
GenerateSetOperationCount(d, s) ==
    Sequel(<<Words(<<"SELECT", "COUNT", "(", "*", ")", "FROM", "(">>),
             GenerateSetOperation(d, [s EXCEPT !.order = << >>, !.limit = Nothing, !.offset = Nothing]),
             Words(<<")", "_sub">>)>>)

(* The count of rows or of a column's distinct values, and the aggregates. *)
GenerateCount(table, where, distinct_column) ==
    LET what == IF distinct_column = Nothing THEN <<"*">> ELSE <<"DISTINCT", distinct_column[1]>>
    IN  Sequel(<<Words(<<"SELECT", "COUNT">> \o Paren(what) \o <<"FROM", table>>), Where(where)>>)
GenerateAggregate(d, function, table, column, where) ==
    Sequel(<<Words(<<"SELECT", FunctionName(d, function)>> \o Paren(<<column>>) \o <<"FROM", table>>),
             Where(where)>>)

-----------------------------------------------------------------------------
(* Modifications.  A returning column that is absent is Nothing.           *)
GenerateInsert(d, table, column_names, values, returning) ==
    LET clause(Text(_, _)) == Words(IF returning = Nothing THEN << >> ELSE Text(d, returning[1]))
    IN  Sequel(<<Words(<<"INSERT", "INTO", table>>
                       \o (IF column_names = << >> THEN << >> ELSE Paren(Names(column_names)))),
                 clause(OutputClause),
                 IF column_names = << >> THEN Words(<<"DEFAULT", "VALUES">>)
                 ELSE Clause(<<"VALUES", "(">>, [i \in DOMAIN values |-> Literal(values[i])]),
                 Words(IF column_names = << >> THEN << >> ELSE <<")">>),
                 clause(ReturningClause)>>)
GenerateUpsert(d, table, columns, values, conflict, update) ==
    [sql |-> Upsert(d, table, columns, values, conflict, update), params |-> values,
     slots |-> [i \in DOMAIN values |-> StaticSlot(values[i])]]

Assignment(a) == Sequel(<<Words(<<a.column, "=">>), a.value>>)
GenerateUpdate(table, assignments, where) ==
    Sequel(<<Clause(<<"UPDATE", table, "SET">>, [i \in DOMAIN assignments |-> Assignment(assignments[i])]),
             Where(where)>>)
GenerateDelete(table, where) == Sequel(<<Words(<<"DELETE", "FROM", table>>), Where(where)>>)

(* A column of a generated value brings its own PRIMARY KEY, and then no   *)
(* other column gets one; a composite key is a constraint of the table.    *)
ColumnDefinition(d, col, alone) ==
    LET when(flag, words) == IF flag THEN words ELSE << >>
    IN  IF col.is_auto_increment
        THEN <<col.name>> \o AutoIncrementType(d) \o when(col.is_unique, <<"UNIQUE">>)
        ELSE <<col.name, "type_name">>
             \o when(col.is_primary_key /\ alone, <<"PRIMARY KEY">>)
             \o when(col.is_not_null, <<"NOT NULL">>) \o when(col.is_unique, <<"UNIQUE">>)
GenerateCreateTable(d, table, columns) ==
    LET keys == SelectSeq(columns, LAMBDA c : c.is_primary_key)
        has_auto_inc == \E i \in DOMAIN columns : columns[i].is_auto_increment
        alone == Len(keys) = 1 /\ ~has_auto_inc
        definitions == [i \in DOMAIN columns |-> ColumnDefinition(d, columns[i], alone)]
        constraint == IF Len(keys) > 1 /\ ~has_auto_inc
                      THEN <<",", "PRIMARY KEY">> \o Paren(Names([i \in DOMAIN keys |-> keys[i].name]))
                      ELSE << >>
    IN  Words(CreateTablePrefix(d, table) \o Paren(Joined(<<",">>, definitions) \o constraint))
=============================================================================
