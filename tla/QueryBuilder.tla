---------------------------- MODULE QueryBuilder ----------------------------
(***************************************************************************)
(* One application thread with a query builder (core/query_builder.h): it  *)
(* adds clauses, joins and combines, turns the builder into a subquery of  *)
(* another one, and calls terminals on any database, or prepares the       *)
(* statement and executes it with arguments (core/prepared_query.h).       *)
(* `q` is the builder, `said` what the application asked of it so far, in  *)
(* its own terms; the properties hold what the database understands from   *)
(* the statement `sent` against it.                                        *)
(***************************************************************************)
EXTENDS SqlGenerator

DB == INSTANCE SqlReader

CONSTANTS
    Backends,        \* dialects the application talks to
    Conditions,      \* conditions it passes to where, having and on
    ColumnTerms,     \* terms it orders and groups by
    Subqueries,      \* other builders, as CTEs and operands of set operations
    Pages,           \* numbers it passes to limit and offset
    Updates,         \* lists of assignments
    Arguments,       \* arguments it executes a prepared statement with
    Budget,          \* bound on the calls: 3 for a condition, a first join or set operation
                     \* or a nesting, 2 for another clause, 1 for a group or another join
    Odd              \* uses the code does not survive; see README

ASSUME BackendsAssumption == Backends \subseteq Dialects
ASSUME BudgetAssumption == Budget \in Nat /\ Pages \subseteq Nat

VARIABLES
    q,          \* the builder: its kind and its clauses
    said,       \* conditions, pages and the rest, as they were asked for
    spent,      \* how much of Budget has been used
    sent,       \* the statement the database got, if a terminal was called
    prepared,   \* the PreparedQuery or PreparedCommand, if there is one
    handle      \* the values bound to its statement, "" before the first
vars == <<q, said, spent, sent, prepared, handle>>

-----------------------------------------------------------------------------
(* db.from(table), and what each kind of builder offers.                   *)
Fresh(table, columns) ==
    [kind |-> "query", table |-> table, columns |-> columns, where |-> Nothing, order |-> << >>,
     limit |-> Nothing, offset |-> Nothing, distinct |-> FALSE, group |-> << >>, having |-> Nothing,
     ctes |-> << >>, joins |-> << >>, ops |-> << >>]
Users == Fresh("users", <<"id", "name">>)
Orders == [table_name |-> "orders", columns |-> <<"id", "user_id">>]
Items == [table_name |-> "items", columns |-> <<"order_id">>]

QueryClauses == {"where", "order_by", "limit", "offset", "distinct", "group_by", "having", "with_cte"}
JoinedClauses == {"where", "order_by", "limit", "offset"}
Joined3Clauses == {"where", "order_by", "limit", "offset"}
SetOpClauses == {"order_by", "limit", "offset"}
Offers(clause) ==
    clause \in CASE q.kind = "query" -> QueryClauses [] q.kind = "join" -> JoinedClauses
                 [] q.kind = "join3" -> Joined3Clauses [] q.kind = "setop" -> SetOpClauses

NothingSaid ==
    [conditions |-> << >>, order |-> << >>, limit |-> Nothing, offset |-> Nothing, distinct |-> FALSE,
     group |-> << >>, having |-> Nothing, ctes |-> << >>, joins |-> << >>, ops |-> << >>]

Spend(n) == spent + n <= Budget /\ spent' = spent + n
Speaking == sent = Nothing /\ prepared = Nothing

-----------------------------------------------------------------------------
(* Clauses.  Conditions accumulate; an order_by starts the order anew.     *)
(* Only columns may order the rows of a set operation: that is SQL's rule. *)
Orderable(term) == q.kind = "setop" => term.args[1].node = "Column"
AddWhere(e) == IF q.where = Nothing THEN <<e>> ELSE <<And(q.where[1], e)>>
NewOrder(term) == <<term>>
MoreOrder(term) == Append(q.order, term)

WhereCall(e) ==
    /\ Offers("where") /\ Spend(3)
    /\ q' = [q EXCEPT !.where = AddWhere(e)]
    /\ said' = [said EXCEPT !.conditions = Append(@, e)]
OrderByCall(term) ==
    /\ Offers("order_by") /\ Orderable(term) /\ Spend(2)
    /\ q' = [q EXCEPT !.order = NewOrder(term)]
    /\ said' = [said EXCEPT !.order = <<term>>]
ThenByCall(term) ==
    /\ Offers("order_by") /\ q.order # << >> /\ Orderable(term) /\ Spend(2)
    /\ q' = [q EXCEPT !.order = MoreOrder(term)]
    /\ said' = [said EXCEPT !.order = Append(@, term)]
LimitCall(n) ==
    /\ Offers("limit") /\ Spend(2)
    /\ q' = [q EXCEPT !.limit = <<n>>]
    /\ said' = [said EXCEPT !.limit = <<n>>]
OffsetCall(n) ==
    /\ Offers("offset") /\ Spend(2)
    /\ q' = [q EXCEPT !.offset = <<n>>]
    /\ said' = [said EXCEPT !.offset = <<n>>]
DistinctCall ==
    /\ Offers("distinct") /\ ~q.distinct /\ Spend(2)
    /\ q' = [q EXCEPT !.distinct = TRUE]
    /\ said' = [said EXCEPT !.distinct = TRUE]
GroupByCall(column) ==
    /\ Offers("group_by") /\ ~Contains(q.group, column) /\ Spend(1)
    /\ q' = [q EXCEPT !.group = Append(@, column)]
    /\ said' = [said EXCEPT !.group = Append(@, column)]
HavingCall(e) ==
    /\ Offers("having") /\ q.group # << >> /\ Spend(3)
    /\ q' = [q EXCEPT !.having = <<e>>]
    /\ said' = [said EXCEPT !.having = <<e>>]
WithCteCall(sub) ==
    /\ Offers("with_cte") /\ Spend(3)
    /\ q' = [q EXCEPT !.ctes = Append(@, [name |-> "cte", subquery |-> sub])]
    /\ said' = [said EXCEPT !.ctes = Append(@, [name |-> "cte", subquery |-> sub])]

(* Another builder takes the place of this one.  Of a builder with other   *)
(* clauses it keeps some without a word; the application does not set      *)
(* those first, unless the documentation says that they are dropped.       *)
Unpaged == q.order = << >> /\ q.limit = Nothing /\ q.offset = Nothing
Plain == Unpaged /\ q.group = << >> /\ q.having = Nothing
Loses(condition, use) == condition \/ use \in Odd

MakeJoined(type, e) ==
    /\ q.kind = "query" /\ Loses(Plain /\ ~q.distinct, "dropped") /\ Spend(3)
    /\ LET join == Orders @@ [join_type |-> type, on_condition |-> e]
       IN  /\ q' = [Fresh(q.table, q.columns) EXCEPT !.kind = "join", !.where = q.where, !.joins = <<join>>]
           /\ said' = [said EXCEPT !.joins = <<join>>, !.ctes = << >>]
MakeJoined3(type, e) ==
    /\ q.kind = "join" /\ Loses(Unpaged, "dropped") /\ Spend(1)
    /\ LET join == Items @@ [join_type |-> type, on_condition |-> e]
       IN  /\ q' = [Fresh(q.table, q.columns) EXCEPT
                        !.kind = "join3", !.where = q.where, !.joins = Append(q.joins, join)]
           /\ said' = [said EXCEPT !.joins = Append(@, join)]

Operand(type, other) ==
    [op_type |-> type, table_name |-> other.table_name, columns |-> other.select_columns,
     where |-> other.where, is_distinct |-> other.is_distinct]
FirstSetOp(type, other) ==
    /\ q.kind = "query" /\ Loses(Plain, "dropped") /\ Spend(3)
    /\ q' = [Fresh(q.table, q.columns) EXCEPT
                !.kind = "setop", !.where = q.where, !.distinct = q.distinct, !.ops = <<Operand(type, other)>>]
    /\ said' = [said EXCEPT !.ops = <<Operand(type, other)>>, !.ctes = << >>]
NextSetOp(type, other) ==
    /\ q.kind = "setop" /\ Spend(2)
    /\ Loses(type = "INTERSECT" => Last(q.ops).op_type = "INTERSECT", "intersect")
    /\ q' = [q EXCEPT !.ops = Append(@, Operand(type, other))]
    /\ said' = [said EXCEPT !.ops = Append(@, Operand(type, other))]

(* as_subquery(column) of this builder in a condition or a CTE of a new    *)
(* one: its order, page and groups are dropped, as documented.             *)
AsSubquery(columns) == SubqueryExpr(q.table, columns, q.where, q.distinct)
SaidSubquery(columns) ==
    SubqueryExpr(q.table, columns, DB!AllOf(said.conditions), said.distinct)
Nest ==
    /\ q.kind = "query" /\ q.where # Nothing /\ q.table = "users" /\ Spend(3)
    /\ \E shape \in {"in", "value", "exists", "not exists", "cte"} :
         LET Shape(Sub(_)) ==
               CASE shape = "in"  -> InSubquery(Column("user_id"), Sub(<<"id">>), "")
                 [] shape = "value"  -> Compare(Column("user_id"), "=", Subquery(Sub(<<"id">>)))
                 [] shape = "exists" -> Exists(Sub(q.columns), "")
                 [] OTHER -> Exists(Sub(q.columns), "NOT")
             outer == Fresh("orders", Orders.columns)
         IN  IF shape = "cte"
             THEN /\ q' = [Fresh("recent", q.columns) EXCEPT
                               !.ctes = <<[name |-> "recent", subquery |-> AsSubquery(q.columns)]>>]
                  /\ said' = [NothingSaid EXCEPT
                               !.ctes = <<[name |-> "recent", subquery |-> SaidSubquery(q.columns)]>>]
             ELSE /\ q' = [outer EXCEPT !.where = <<Shape(AsSubquery)>>]
                  /\ said' = [NothingSaid EXCEPT !.conditions = <<Shape(SaidSubquery)>>]

-----------------------------------------------------------------------------
(* Uses that the code does not survive, of one condition on a database.    *)
RECURSIVE HasValue(_), Uses(_, _)
HasValue(e) ==
    \/ e.node \in {"Literal", "Param"} \/ \E i \in DOMAIN e.args : HasValue(e.args[i])
    \/ \E sub \in Range(e.sub) : \E where \in Range(sub.where) : HasValue(where)
Uses(d, e) ==
    UNION {Uses(d, e.args[i]) : i \in DOMAIN e.args}
    \cup (IF e.sub = Nothing \/ e.sub[1].where = Nothing THEN {} ELSE Uses(d, e.sub[1].where[1]))
    \cup (IF e.node = "DateAdd" /\ d = "mssql" /\ \A i \in 1..2 : HasValue(e.args[i]) THEN {"dateadd"} ELSE {})
    \cup (IF e.node = "InList" /\ Len(e.args) = 1 /\ HasValue(e.args[1]) THEN {"empty in"} ELSE {})
    \cup (IF e.node = "Param" THEN {"unbound"} ELSE {})
SaidConditions == Range(said.conditions) \cup Range(said.having) \cup
                  {j.on_condition : j \in Range(said.joins)} \cup Range(said.order) \cup
                  UNION {Range(c.subquery.where) : c \in Range(said.ctes)} \cup
                  UNION {Range(o.where) : o \in Range(said.ops)}
Sound(d, allowed) ==
    /\ \A e \in SaidConditions : Uses(d, e) \subseteq Odd \cup allowed
    /\ d = "oracle" => \A o \in Range(q.ops) : o.op_type # "EXCEPT"   \* documented: Oracle has MINUS

(* ORDER BY (SELECT NULL) stands in for an order where the text has an     *)
(* OFFSET; not every database takes it after DISTINCT or a set operation,  *)
(* and Informix pages the first SELECT of a set operation only.            *)
Unordered(b, d) == b.order = << >> /\ Contains(LimitOffset(d, b.limit, b.offset), "OFFSET")
Pageable(b, d) ==
    /\ Loses(~(b.distinct /\ b.kind = "query" /\ Unordered(b, d) /\ d \in {"postgres", "mssql"}), "distinct page")
    /\ Loses(b.kind = "setop" => ~Unordered(b, d) /\ SelectPrefix(d, b.limit, b.offset) = << >>, "compound page")

-----------------------------------------------------------------------------
(* Terminals.  A statement without values is executed directly, the others *)
(* are prepared and the k-th value is bound to the k-th placeholder.  A    *)
(* dialect that refuses the limit throws before there is a statement.      *)
Terminal(name, operand) == [name |-> name, operand |-> operand]
NoArguments == << >>
Sending(d, terminal, g) ==
    sent' = <<[backend |-> d, terminal |-> terminal, sql |-> g.sql, bindings |-> g.params,
               arguments |-> NoArguments]>>
RunDirect(d, terminal, statement) ==
    /\ Sound(d, {})
    /\ Sending(d, terminal, Visit(d, statement))
    /\ UNCHANGED <<prepared, handle, said, spent>>

ListText(d, b) ==
    CASE b.kind = "query" -> IF b.ctes # << >> THEN GenerateCteSelect(d, b) ELSE GenerateSelect(d, b)
      [] b.kind \in {"join", "join3"} -> GenerateJoinedSelect(d, b)
      [] b.kind = "setop" -> GenerateSetOperation(d, b)
ToList(d) ==
    /\ ~LimitThrows(d, q.limit) /\ Pageable(q, d)
    /\ RunDirect(d, Terminal("to_list", ""), ListText(d, q)) /\ UNCHANGED q
Stream(d) ==
    /\ q.kind = "query" /\ ~LimitThrows(d, q.limit) /\ Pageable(q, d)
    /\ RunDirect(d, Terminal("stream", ""), ListText(d, q)) /\ UNCHANGED q

(* first() lists with a limit of 1; LimitGuard puts the old limit back.    *)
RestoredNot(b, limit) == b   \* a mutant
Restored(b, limit) == [b EXCEPT !.limit = limit]
First(d) ==
    LET during == [q EXCEPT !.limit = <<1>>]
    IN  /\ Pageable(during, d)
        /\ RunDirect(d, Terminal("first", ""), ListText(d, during))
        /\ q' = Restored(during, q.limit)

(* These take the conditions alone.  The documentation says so of the      *)
(* counts; of the others an application that set more is told nothing.     *)
ConditionsOnly == Plain /\ ~q.distinct
CountText(d) ==
    CASE q.kind = "query" -> GenerateCount(q.table, q.where, Nothing)
      [] q.kind \in {"join", "join3"} -> GenerateJoinedCount(q)
      [] q.kind = "setop" -> GenerateSetOperationCount(d, q)
Count(d) ==
    /\ RunDirect(d, Terminal("count", ""), CountText(d)) /\ UNCHANGED q
CountDistinct(d, column) ==
    /\ q.kind = "query"
    /\ RunDirect(d, Terminal("count_distinct", column), GenerateCount(q.table, q.where, <<column>>))
    /\ UNCHANGED q
Aggregate(d, function, column) ==
    /\ q.kind = "query" /\ Loses(ConditionsOnly, "dropped")
    /\ RunDirect(d, Terminal(function, column), GenerateAggregate(d, function, q.table, column, q.where))
    /\ UNCHANGED q
ExistsTerminal(d) ==
    LET one == [q EXCEPT !.columns = <<Head(@)>>, !.limit = <<1>>, !.offset = Nothing, !.distinct = FALSE]
    IN  /\ q.kind = "query"
        /\ Loses(q.limit # <<0>> /\ q.offset = Nothing, "dropped")
        /\ RunDirect(d, Terminal("exists", ""), GenerateSelect(d, one))
        /\ UNCHANGED q
Update(d, assignments) ==
    /\ q.kind = "query" /\ Loses(ConditionsOnly, "dropped")
    /\ \A a \in Range(assignments) : Uses(d, a.value) \subseteq Odd
    /\ RunDirect(d, Terminal("update", assignments), GenerateUpdate(q.table, assignments, q.where))
    /\ UNCHANGED q
RemoveTerminal(d) ==
    /\ q.kind = "query" /\ Loses(ConditionsOnly, "dropped")
    /\ RunDirect(d, Terminal("remove", ""), GenerateDelete(q.table, q.where))
    /\ UNCHANGED q

-----------------------------------------------------------------------------
(* Prepared queries and commands: the statement and its slots, executed    *)
(* many times.  Every execution binds all the slots, and stops at one      *)
(* whose argument is missing.                                              *)
Preparing(d, terminal, g) ==
    /\ prepared' = <<[backend |-> d, terminal |-> terminal, sql |-> g.sql, slots |-> g.slots]>>
    /\ handle' = [i \in DOMAIN g.slots |-> ""]
PrepareAs(d, terminal, statement) ==
    /\ Sound(d, {"unbound"})
    /\ Preparing(d, terminal, Visit(d, statement))
    /\ UNCHANGED <<q, said, spent, sent>>
Prepare(d) ==
    /\ q.kind = "query" /\ ~LimitThrows(d, q.limit) /\ Pageable(q, d)
    /\ PrepareAs(d, Terminal("to_list", ""), ListText(d, q))
PrepareUpdate(d, assignments) ==
    /\ q.kind = "query" /\ Loses(ConditionsOnly, "dropped")
    /\ PrepareAs(d, Terminal("update", assignments), GenerateUpdate(q.table, assignments, q.where))
PrepareRemove(d) ==
    /\ q.kind = "query" /\ Loses(ConditionsOnly, "dropped")
    /\ PrepareAs(d, Terminal("remove", ""), GenerateDelete(q.table, q.where))

SlotValue(slot, arguments) == IF slot.is_dynamic THEN arguments[slot.dynamic_index] ELSE slot.static_value
BindSlots(slots, arguments) ==
    LET missing == {i \in DOMAIN slots : slots[i].is_dynamic /\ slots[i].dynamic_index \notin DOMAIN arguments}
    IN  [complete |-> missing = {},
         handle |-> [i \in DOMAIN slots |->
                        IF \A j \in missing : i < j THEN SlotValue(slots[i], arguments) ELSE handle[i]]]
Execute(arguments) ==
    /\ prepared # Nothing /\ sent = Nothing
    /\ LET p == prepared[1] bound == BindSlots(p.slots, arguments)
       IN  /\ handle' = bound.handle
           /\ sent' = IF ~bound.complete THEN Nothing
                      ELSE <<[backend |-> p.backend, terminal |-> p.terminal, sql |-> p.sql,
                              bindings |-> bound.handle, arguments |-> arguments]>>
    /\ UNCHANGED <<q, said, spent, prepared>>

(* The terminal returns; the prepared object goes out of scope.            *)
Return == sent # Nothing /\ sent' = Nothing /\ UNCHANGED <<q, said, spent, prepared, handle>>
Forget ==
    /\ prepared # Nothing /\ sent = Nothing
    /\ prepared' = Nothing /\ handle' = << >> /\ UNCHANGED <<q, said, spent, sent>>

-----------------------------------------------------------------------------
Init ==
    /\ q = Users /\ said = NothingSaid /\ spent = 0
    /\ sent = Nothing /\ prepared = Nothing /\ handle = << >>

SetOps == {"UNION", "UNION ALL", "INTERSECT", "EXCEPT"}
Clauses ==
    \/ \E e \in Conditions : WhereCall(e) \/ HavingCall(e)
    \/ \E term \in ColumnTerms, direction \in {"ASC", "DESC"} :
         OrderByCall(OrderTerm(term, direction)) \/ ThenByCall(OrderTerm(term, direction))
    \/ \E n \in Pages : LimitCall(n) \/ OffsetCall(n)
    \/ DistinctCall
    \/ \E term \in ColumnTerms : GroupByCall(term)
    \/ \E sub \in Subqueries : WithCteCall(sub)
    \/ \E type \in {"INNER JOIN", "LEFT JOIN"}, e \in Conditions : MakeJoined(type, e) \/ MakeJoined3(type, e)
    \/ \E type \in SetOps, sub \in Subqueries : FirstSetOp(type, sub) \/ NextSetOp(type, sub)
    \/ Nest
Terminals(d) ==
    \/ ToList(d) \/ Stream(d) \/ First(d) \/ Count(d) \/ ExistsTerminal(d) \/ RemoveTerminal(d)
    \/ CountDistinct(d, "name")
    \/ \E function \in {"AVG", "SUM", "MIN", "MAX"} : Aggregate(d, function, "id")
    \/ \E assignments \in Updates : Update(d, assignments) \/ PrepareUpdate(d, assignments)
    \/ Prepare(d) \/ PrepareRemove(d)
Next ==
    \/ Speaking /\ Clauses /\ UNCHANGED <<sent, prepared, handle>>
    \/ Speaking /\ \E d \in Backends : Terminals(d)
    \/ \E arguments \in Arguments : Execute(arguments)
    \/ Return \/ Forget
Spec == Init /\ [][Next]_vars

-----------------------------------------------------------------------------
(* What the application asked for, in the reader's terms.                  *)
Page(limit, offset) ==
    LET Number(n) == IF n = Nothing THEN "" ELSE ToString(n[1])
    IN  [limit |-> Number(limit), offset |-> DB!Skip(Number(offset))]
TablesAsked == <<[table_name |-> q.table, columns |-> q.columns]>> \o said.joins
ColumnsAsked ==
    IF said.joins = << >> THEN DB!Commas(q.columns)
    ELSE Tail(FlattenSeq([i \in DOMAIN TablesAsked |->
             LET t == TablesAsked[i]
             IN  FlattenSeq([k \in DOMAIN t.columns |-> <<",", t.table_name, ".", t.columns[k]>>])]))
CoreAsked(columns, a) ==
    [DB!Core(q.table, columns) EXCEPT
        !.distinct = said.distinct,
        !.where = DB!AllMeant(DB!AllOf(said.conditions), a),
        !.joins = [i \in DOMAIN said.joins |->
                     [join_type |-> said.joins[i].join_type, table_name |-> said.joins[i].table_name,
                      on_condition |-> DB!Meant(said.joins[i].on_condition, a)]],
        !.group = DB!AllMeant(said.group, a), !.having = DB!AllMeant(said.having, a)]
CombinedAsked(core, a) ==
    FoldLeft(LAMBDA l, o : DB!Combined(o.op_type, l, DB!SubqueryMeant(
                 SubqueryExpr(o.table_name, o.columns, o.where, o.is_distinct), "*", a).body),
             core, said.ops)
(* The order of combined rows names their columns, not a table's.          *)
OrderAsked(a) ==
    [i \in DOMAIN said.order |->
        DB!Meant(IF said.ops # << >> /\ said.order[i].args[1].node = "Column"
                 THEN OrderTerm(Column(said.order[i].args[1].op), said.order[i].op)
                 ELSE said.order[i], a)]
ListAsked(limit, a) ==
    [ctes  |-> [i \in DOMAIN said.ctes |->
                  [name |-> said.ctes[i].name, query |-> DB!SubqueryMeant(said.ctes[i].subquery, "*", a)]],
     body  |-> CombinedAsked(CoreAsked(ColumnsAsked, a), a),
     order |-> OrderAsked(a),
     page  |-> Page(limit, said.offset)]
Selected(what, a) ==
    DB!Query([CoreAsked(what, a) EXCEPT !.distinct = FALSE, !.group = << >>, !.having = Nothing])
CountAsked(a) ==
    LET rows == <<"COUNT", "(", "*", ")">>
    IN  IF said.ops = << >> THEN Selected(rows, a)
        ELSE DB!Query([DB!Core("_sub", rows) EXCEPT
                 !.inner = <<DB!Query(CombinedAsked(CoreAsked(ColumnsAsked, a), a))>>])
ExistsAsked(a) ==
    [ctes |-> << >>, order |-> OrderAsked(a), page |-> Page(<<1>>, Nothing),
     body |-> [CoreAsked(<<Head(q.columns)>>, a) EXCEPT !.distinct = FALSE]]
Asked(terminal, a) ==
    LET where == DB!AllMeant(DB!AllOf(said.conditions), a)
        column == terminal.operand
    IN  CASE terminal.name \in {"to_list", "stream"} -> ListAsked(said.limit, a)
          [] terminal.name = "first"          -> ListAsked(<<1>>, a)
          [] terminal.name = "count"          -> CountAsked(a)
          [] terminal.name = "count_distinct" -> Selected(<<"COUNT", "(", "DISTINCT", column, ")">>, a)
          [] terminal.name \in {"AVG", "SUM", "MIN", "MAX"} -> Selected(<<terminal.name, "(", column, ")">>, a)
          [] terminal.name = "exists"         -> ExistsAsked(a)
          [] terminal.name = "update"         ->
                [update |-> q.table, where |-> where,
                 set |-> [i \in DOMAIN column |-> <<column[i].column, DB!Meant(column[i].value, a)>>]]
          [] terminal.name = "remove"         -> [delete |-> q.table, where |-> where]
-----------------------------------------------------------------------------
(* Properties.                                                             *)

(* The builder is of one of the four kinds and carries only the clauses    *)
(* that its kind offers; an optional has at most one value; a prepared     *)
(* statement has a slot for each of its placeholders.                      *)
TypeOK ==
    /\ q.kind \in {"query", "join", "join3", "setop"}
    /\ Len(q.joins) = (CASE q.kind = "join" -> 1 [] q.kind = "join3" -> 2 [] OTHER -> 0)
    /\ (q.kind = "setop") = (q.ops # << >>)
    /\ q.kind # "query" => q.group = << >> /\ q.having = Nothing /\ q.ctes = << >>
    /\ {Len(q.where), Len(q.limit), Len(q.offset), Len(q.having)} \subseteq 0..1
    /\ spent \in 0..Budget
    /\ \A p \in Range(prepared) : Len(p.slots) = Cardinality(DB!Marks(p.sql)) /\ Len(handle) = Len(p.slots)

(* Whatever terminal is called, after whatever clauses, joins, set         *)
(* operations and nested builders, on whatever dialect, directly or as a   *)
(* prepared statement executed again with other arguments: the database,   *)
(* reading the text and the values bound to its placeholders, understands  *)
(* the query the application asked for.  It fails when a value ends up at  *)
(* another placeholder, a condition escapes its parentheses, or a clause   *)
(* is lost, kept from an earlier call or put where the dialect reads it    *)
(* otherwise.                                                              *)
StatementMeansQuery ==
    \A s \in Range(sent) :
        DB!Understood(s.backend, s.sql, s.bindings) = Asked(s.terminal, s.arguments)
=============================================================================
