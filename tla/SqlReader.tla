----------------------------- MODULE SqlReader -----------------------------
(***************************************************************************)
(* The other end: what a database understands when it is given a text and  *)
(* values for its placeholders.  Written from SQL's grammar and the        *)
(* dialects' manuals, and from nothing in the generator: it knows that AND *)
(* binds tighter than OR, that the k-th placeholder takes the k-th value,  *)
(* which words a dialect has for a function and where it allows a clause.  *)
(* A reading is a tree or a statement and the place where it ends; what    *)
(* cannot be read is Bad.                                                  *)
(***************************************************************************)
EXTENDS Expressions, SequencesExt

Bad == Node("Bad", "", << >>)
At(t, i) == IF i \in DOMAIN t THEN t[i] ELSE ""
Found(tree, i) == [tree |-> tree, at |-> i]
Expect(word, t, r) == IF At(t, r.at) = word THEN Found(r.tree, r.at + 1) ELSE Found(Bad, r.at)

(* The k-th placeholder is followed by the k-th value.                     *)
Marks(t) == {i \in DOMAIN t : t[i] = "?"}
BindValues(t, values) ==
    FlattenSeq([i \in DOMAIN t |->
        IF t[i] # "?" THEN <<t[i]>>
        ELSE <<"?", values[Cardinality({j \in Marks(t) : j <= i})]>>])
Binds(t, values) == Cardinality(Marks(t)) = Len(values)

-----------------------------------------------------------------------------
(* Words of the dialects.  A form is what opens it, what follows each      *)
(* operand, the node it is, and the order of its operands.                 *)
Form(open, after, kind, op, order) == [open |-> open, after |-> after, kind |-> kind, op |-> op, order |-> order]
Parts == {"YEAR", "MONTH", "DAY"}
ExtractForm(open, part, after) == Form(open, <<after>>, "Extract", part, <<1>>)
AddDaysForm(open, after, order) == Form(open, after, "DateAdd", "", order)
Forms ==
  [sqlite |-> {ExtractForm(<<"CAST(strftime('%Y',">>, "YEAR", ") AS INTEGER)"),
               ExtractForm(<<"CAST(strftime('%m',">>, "MONTH", ") AS INTEGER)"),
               ExtractForm(<<"CAST(strftime('%d',">>, "DAY", ") AS INTEGER)"),
               AddDaysForm(<<"date(">>, <<", (", ") || ' days')">>, <<1, 2>>)},
   postgres |-> {ExtractForm(<<"EXTRACT(", p, "FROM CAST(">>, p, "AS TIMESTAMP))") : p \in Parts} \cup
                {AddDaysForm(<<"(CAST(">>, <<"AS TIMESTAMP) + (", "|| ' days')::interval)">>, <<1, 2>>)},
   mysql |-> {ExtractForm(<<p, "(">>, p, ")") : p \in Parts} \cup
             {AddDaysForm(<<"DATE_ADD(">>, <<", INTERVAL (", ") DAY)">>, <<1, 2>>)},
   mssql |-> {ExtractForm(<<p, "(">>, p, ")") : p \in Parts} \cup
             {AddDaysForm(<<"DATEADD(day,">>, <<",", ")">>, <<2, 1>>)},
   oracle |-> {ExtractForm(<<"EXTRACT(", p, "FROM TO_TIMESTAMP(SUBSTR(">>, p,
                           ", 1, 19), 'YYYY-MM-DD HH24:MI:SS'))") : p \in Parts} \cup
              {AddDaysForm(<<"(TO_TIMESTAMP(SUBSTR(">>,
                           <<", 1, 19), 'YYYY-MM-DD HH24:MI:SS') + NUMTODSINTERVAL(", ", 'DAY'))">>, <<1, 2>>)},
   informix |-> {ExtractForm(<<p, "(", "CAST(">>, p, "AS DATETIME YEAR TO SECOND))") : p \in Parts}]
Opens(t, i, open) == i + Len(open) - 1 <= Len(t) /\ SubSeq(t, i, i + Len(open) - 1) = open

FunctionMeant(d, word) ==
    CASE d = "mssql" /\ word = "LEN"                     -> "LENGTH"
      [] d = "mysql" /\ word = "CHAR_LENGTH"             -> "LENGTH"
      [] d \in {"mysql", "mssql"} /\ word = "SUBSTRING"  -> "SUBSTR"
      [] d \in {"mssql"} /\ word \in {"LENGTH", "SUBSTR"} -> "unknown"
      [] OTHER                                           -> word
Moments(d) ==
    [now |-> IF d = "informix" THEN "CURRENT YEAR TO FRACTION(3)" ELSE "CURRENT_TIMESTAMP",
     today |-> CASE d = "mssql" -> "CAST(GETDATE() AS DATE)" [] d = "mysql" -> "CURRENT_DATE()"
                 [] d = "informix" -> "TODAY" [] OTHER -> "CURRENT_DATE"]
Reserved == {"", "(", ")", ",", ".", "=", "<>", "<", "<=", ">", ">=", "AND", "OR", "NOT", "IS", "IN", "NULL",
             "BETWEEN", "LIKE", "EXISTS", "SELECT", "DISTINCT", "FROM", "WHERE", "GROUP", "HAVING", "ORDER", "BY",
             "ASC", "DESC", "OVER", "PARTITION", "ON", "SET", "VALUES", "DEFAULT", "UNION", "UNION ALL", "INTERSECT", "EXCEPT",
             "INNER JOIN", "LEFT JOIN", "LIMIT", "OFFSET", "WITH"}

-----------------------------------------------------------------------------
(* Expressions: OR over AND over NOT over predicates over operands.        *)
RECURSIVE Read(_, _, _, _), Predicate(_, _, _), Operands(_, _, _, _), NamesAt(_, _)

Disjunction(d, t, i) ==
    LET l == Read("Conjunction", d, t, i) r == Read("Disjunction", d, t, l.at + 1)
    IN  IF At(t, l.at) = "OR" THEN Found(Or(l.tree, r.tree), r.at) ELSE l
Conjunction(d, t, i) ==
    LET l == Read("Negated", d, t, i) r == Read("Conjunction", d, t, l.at + 1)
    IN  IF At(t, l.at) = "AND" THEN Found(And(l.tree, r.tree), r.at) ELSE l
Negated(d, t, i) ==
    LET r == Read("Negated", d, t, i + 1)
    IN  IF At(t, i) = "NOT" THEN Found(Not(r.tree), r.at) ELSE Predicate(d, t, Read("Operand", d, t, i))

(* What follows an operand: a test, and then perhaps another.              *)
Predicate(d, t, l) ==
    LET not == IF At(t, l.at) = "NOT" THEN "NOT" ELSE ""
        i == IF not = "NOT" THEN l.at + 1 ELSE l.at
        r == Read("Operand", d, t, i + 1)
        high == Read("Operand", d, t, r.at + 1)
        list == Read("Items", d, t, i + 2)
        sub == Read("CompoundAt", d, t, i + 2)
    IN  CASE Opens(t, l.at, <<"IS", "NULL">>)        -> Predicate(d, t, Found(IsNull(l.tree), l.at + 2))
          [] Opens(t, l.at, <<"IS", "NOT", "NULL">>) -> Predicate(d, t, Found(IsNotNull(l.tree), l.at + 3))
          [] At(t, l.at) \in CompareOps              ->
                Predicate(d, t, Found(Compare(l.tree, At(t, l.at), r.tree), r.at))
          [] At(t, i) = "BETWEEN"                    ->
                IF At(t, r.at) # "AND" THEN Found(Bad, r.at)
                ELSE Predicate(d, t, Found(Between(l.tree, r.tree, high.tree, not), high.at))
          [] At(t, i) = "LIKE"                       -> Predicate(d, t, Found(Like(l.tree, r.tree, not), r.at))
          [] Opens(t, i, <<"IN", "(", "SELECT">>)    ->
                Predicate(d, t, Expect(")", t, Found(InSubquery(l.tree, sub.tree, not), sub.at)))
          [] At(t, i) = "IN"                         ->
                Predicate(d, t, Expect(")", t, Found(InList(l.tree, list.tree, not), list.at)))
          [] OTHER                                   -> l

(* A form of the dialect, a value, a subquery or a group in parentheses, a *)
(* function, perhaps over a window, or a column.                           *)
FormRead(d, t, i, form) ==
    LET rs == Operands(d, t, i + Len(form.open), form.after)
        trees == [k \in DOMAIN form.order |-> rs.tree[form.order[k]]]
    IN  Found(Node(form.kind, form.op, trees), rs.at)
GroupRead(d, t, i) ==
    LET e == Read("Disjunction", d, t, i + 1)
        days == Read("Disjunction", d, t, e.at + 1)
    IN  IF d = "informix" /\ At(t, e.at) = "+ ("
        THEN Expect(") UNITS DAY)", t, Found(AddDays(e.tree, days.tree), days.at))
        ELSE Expect(")", t, e)
WindowRead(d, t, i, func, args) ==
    LET partition == IF Opens(t, i, <<"PARTITION", "BY">>) THEN Read("Items", d, t, i + 2) ELSE Found(<< >>, i)
        order == IF Opens(t, partition.at, <<"ORDER", "BY">>) THEN Read("Terms", d, t, partition.at + 2)
                 ELSE Found(<< >>, partition.at)
    IN  Expect(")", t, Found(Window(func, args, partition.tree, order.tree), order.at))
FunctionRead(d, t, i) ==
    LET empty == Opens(t, i + 1, <<"(", ")">>)
        args == IF empty THEN Found(<< >>, i + 2) ELSE Read("Items", d, t, i + 2)
    IN  IF At(t, args.at) # ")" THEN Found(Bad, args.at)
        ELSE IF Opens(t, args.at + 1, <<"OVER", "(">>) THEN WindowRead(d, t, args.at + 3, t[i], args.tree)
        ELSE Found(Function(FunctionMeant(d, t[i]), args.tree), args.at + 1)
Operand(d, t, i) ==
    LET sub(k) == Read("CompoundAt", d, t, k)
        forms == {f \in Forms[d] : Opens(t, i, f.open)}
    IN  CASE forms # {}                        -> FormRead(d, t, i, CHOOSE f \in forms : TRUE)
          [] At(t, i) = "?"                    -> Found(Literal(t[i + 1]), i + 2)
          [] At(t, i) = Moments(d).now         -> Found(Now, i + 1)
          [] At(t, i) = Moments(d).today       -> Found(Today, i + 1)
          [] Opens(t, i, <<"(", "SELECT">>)    -> Expect(")", t, Found(Subquery(sub(i + 1).tree), sub(i + 1).at))
          [] Opens(t, i, <<"EXISTS", "(">>)    -> Expect(")", t, Found(Exists(sub(i + 2).tree, ""), sub(i + 2).at))
          [] At(t, i) = "("                    -> GroupRead(d, t, i)
          [] At(t, i) \in Reserved             -> Found(Bad, i)
          [] At(t, i + 1) = "("                -> FunctionRead(d, t, i)
          [] At(t, i + 1) = "."                -> Found(ColumnOf(t[i], At(t, i + 2)), i + 3)
          [] OTHER                             -> Found(Column(t[i]), i + 1)

(* Operands each followed by a word of its own; expressions or names with  *)
(* commas between them.                                                    *)
Operands(d, t, i, after) ==
    LET e == Read("Disjunction", d, t, i)
        more == Operands(d, t, e.at + 1, Tail(after))
    IN  IF after = << >> THEN Found(<< >>, i)
        ELSE IF At(t, e.at) # after[1] THEN Found([k \in DOMAIN after |-> Bad], e.at)
        ELSE Found(<<e.tree>> \o more.tree, more.at)
Items(d, t, i) ==
    LET e == Read("Disjunction", d, t, i)
        more == Read("Items", d, t, e.at + 1)
    IN  IF At(t, e.at) = "," THEN Found(<<e.tree>> \o more.tree, more.at) ELSE Found(<<e.tree>>, e.at)
Terms(d, t, i) ==
    LET e == Read("Disjunction", d, t, i)
        term == OrderTerm(e.tree, At(t, e.at))
        more == Read("Terms", d, t, e.at + 2)
    IN  IF At(t, e.at) \notin {"ASC", "DESC"} THEN Found(<<Bad>>, e.at)
        ELSE IF At(t, e.at + 1) = "," THEN Found(<<term>> \o more.tree, more.at)
        ELSE Found(<<term>>, e.at + 1)
NamesAt(t, i) ==
    LET more == NamesAt(t, i + 2)
    IN  IF At(t, i + 1) = "," THEN Found(<<t[i]>> \o more.tree, more.at) ELSE Found(<<At(t, i)>>, i + 1)
-----------------------------------------------------------------------------
(* Queries.  A core is one SELECT; a compound has set operations between   *)
(* cores, and clauses that apply to the combined rows.                     *)
Skip(n) == IF n = "0" THEN "" ELSE n    \* no rows skipped
NoPage == [limit |-> "", offset |-> ""]
Option(t, i, words) == IF Opens(t, i, words) THEN Len(words) ELSE 0
OptionalAt(rule, d, t, i, words) ==
    IF Opens(t, i, words) THEN LET r == Read(rule, d, t, i + Len(words)) IN Found(<<r.tree>>, r.at)
    ELSE Found(Nothing, i)
WhereAt(d, t, i) == OptionalAt("Disjunction", d, t, i, <<"WHERE">>)
FirstFrom(t, i) == CHOOSE k \in i .. Len(t) + 1 : At(t, k) \in {"FROM", ""} /\ \A j \in i .. k - 1 : t[j] # "FROM"

JoinsAt(d, t, i) ==
    LET on == Read("Disjunction", d, t, i + 3)
        more == Read("JoinsAt", d, t, on.at)
    IN  IF At(t, i) \notin {"INNER JOIN", "LEFT JOIN"} THEN Found(<< >>, i)
        ELSE IF At(t, i + 2) # "ON" THEN Found(<<Bad>>, i)
        ELSE Found(<<[join_type |-> t[i], table_name |-> t[i + 1], on_condition |-> on.tree]>> \o more.tree, more.at)
(* What stands before the columns; where the rows come from; the clauses.  *)
PrefixAt(d, t, i) ==
    LET skip == Option(t, i, <<"SKIP">>) * 2
        first == Option(t, i + skip, <<"FIRST">>) * 2
        distinct == Option(t, i + skip + first, <<"DISTINCT">>)
        page == [offset |-> IF skip = 0 THEN "" ELSE Skip(At(t, i + 1)),
                 limit |-> IF first = 0 THEN "" ELSE At(t, i + skip + 1)]
    IN  IF d # "informix" /\ page # NoPage THEN Found(Bad, i)
        ELSE Found([distinct |-> distinct = 1, page |-> page], i + skip + first + distinct)
RowsAt(d, t, i) ==
    LET inner == Read("CompoundAt", d, t, i + 1)
    IN  IF At(t, i) # "(" THEN Found([table |-> At(t, i), inner |-> Nothing], i + 1)
        ELSE IF At(t, inner.at) # ")" THEN Found(Bad, i)
        ELSE Found([table |-> At(t, inner.at + 1), inner |-> <<inner.tree>>], inner.at + 2)
ClausesAt(d, t, i) ==
    LET joins == Read("JoinsAt", d, t, i)
        where == WhereAt(d, t, joins.at)
        group == OptionalAt("Items", d, t, where.at, <<"GROUP", "BY">>)
        having == OptionalAt("Disjunction", d, t, group.at, <<"HAVING">>)
    IN  Found([joins |-> joins.tree, where |-> where.tree, having |-> having.tree,
               group |-> FlattenSeq(group.tree)], having.at)
SelectFrom(d, t, prefix, from) ==
    LET rows == RowsAt(d, t, from + 1)
        clauses == ClausesAt(d, t, rows.at)
    IN  IF Bad \in {prefix.tree, rows.tree} \/ At(t, from) # "FROM" \/ prefix.at >= from THEN Found(Bad, prefix.at)
        ELSE Found(prefix.tree @@ rows.tree @@ clauses.tree @@ [columns |-> SubSeq(t, prefix.at, from - 1)],
                   clauses.at)
SelectAt(d, t, i) ==
    LET prefix == Read("PrefixAt", d, t, i + 1)
    IN  IF At(t, i) # "SELECT" THEN Found(Bad, i) ELSE SelectFrom(d, t, prefix, FirstFrom(t, prefix.at))

SetOpWords(d) == {"UNION", "UNION ALL", "INTERSECT", IF d = "oracle" THEN "MINUS" ELSE "EXCEPT"}
Combined(op, l, r) == [op |-> op, left |-> l, right |-> r]
OpsAt(d, t, i) ==
    LET core == Read("SelectAt", d, t, i + 1)
        more == Read("OpsAt", d, t, core.at)
    IN  IF At(t, i) \notin SetOpWords(d) THEN Found(<< >>, i)
        ELSE Found(<<[op |-> t[i], core |-> core.tree]>> \o more.tree, more.at)
(* SQLite and Oracle take the operations as they come; elsewhere INTERSECT *)
(* binds tighter.                                                          *)
RECURSIVE Chain(_, _, _)
Chain(d, l, ops) ==
    IF ops = << >> THEN l
    ELSE IF d \notin {"sqlite", "oracle"} /\ Len(ops) > 1 /\ ops[1].op # "INTERSECT" /\ ops[2].op = "INTERSECT"
    THEN Chain(d, l, <<[op |-> ops[1].op, core |-> Combined("INTERSECT", ops[1].core, ops[2].core)]>>
                     \o SubSeq(ops, 3, Len(ops)))
    ELSE Chain(d, Combined(ops[1].op, l, ops[1].core), Tail(ops))

(* LIMIT n OFFSET m or OFFSET m ROWS FETCH NEXT n ROWS ONLY.  SQL Server   *)
(* wants an ORDER BY before it.                                            *)
PageAt(d, t, i, ordered) ==
    LET unlimited == CASE d = "sqlite" -> "-1" [] d = "mysql" -> "18446744073709551615" [] OTHER -> ""
        Limit(n) == IF n = unlimited THEN "" ELSE n
    IN  CASE d \in {"sqlite", "postgres", "mysql"} /\ At(t, i) = "LIMIT" ->
                IF At(t, i + 2) = "OFFSET"
                THEN Found([limit |-> Limit(At(t, i + 1)), offset |-> Skip(At(t, i + 3))], i + 4)
                ELSE Found([limit |-> Limit(At(t, i + 1)), offset |-> ""], i + 2)
          [] d = "postgres" /\ At(t, i) = "OFFSET" -> Found([limit |-> "", offset |-> Skip(At(t, i + 1))], i + 2)
          [] (d = "oracle" \/ (d = "mssql" /\ ordered)) /\ At(t, i) = "OFFSET" /\ At(t, i + 2) = "ROWS" ->
                IF Opens(t, i + 3, <<"FETCH", "NEXT">>) /\ Opens(t, i + 6, <<"ROWS", "ONLY">>)
                THEN Found([limit |-> At(t, i + 5), offset |-> Skip(At(t, i + 1))], i + 8)
                ELSE Found([limit |-> "", offset |-> Skip(At(t, i + 1))], i + 3)
          [] OTHER -> Found(NoPage, i)

NoOrder == <<"ORDER", "BY", "(", "SELECT", "NULL", ")">>
CtesAt(d, t, i) ==
    LET query == Read("CompoundAt", d, t, i + 3)
        more == Read("CtesAt", d, t, query.at + 2)
        cte == [name |-> At(t, i), query |-> query.tree]
    IN  IF ~Opens(t, i + 1, <<"AS", "(">>) \/ At(t, query.at) # ")" THEN Found(<<Bad>>, i)
        ELSE IF At(t, query.at + 1) = "," THEN Found(<<cte>> \o more.tree, more.at)
        ELSE Found(<<cte>>, query.at + 1)
OrderAt(d, t, i) ==
    IF Opens(t, i, NoOrder) THEN Found([unordered |-> TRUE, terms |-> << >>], i + Len(NoOrder))
    ELSE LET order == OptionalAt("Terms", d, t, i, <<"ORDER", "BY">>)
         IN  Found([unordered |-> FALSE, terms |-> FlattenSeq(order.tree)], order.at)
(* ORDER BY (SELECT NULL) is not for every query; set operations are       *)
(* ordered by columns without a table.                                     *)
MayOrder(d, core, ops, order) ==
    /\ order.unordered => \/ ops = << >> /\ ~core.distinct
                          \/ d \notin {"sqlite", "postgres", "mssql"}
                          \/ d = "sqlite" /\ ops = << >>
    /\ ops # << >> => \A term \in Range(order.terms) :
           term.args # << >> /\ term.args[1].node = "Column" /\ term.args[1].args = << >>
QueryOf(d, ctes, core, ops, order, page) ==
    LET prefixed == ops = << >> /\ core.page # NoPage
    IN  [ctes |-> ctes, order |-> order.terms, page |-> IF prefixed THEN core.page ELSE page,
         body |-> Chain(d, IF prefixed THEN [core EXCEPT !.page = NoPage] ELSE core, ops)]
CompoundAt(d, t, i) ==
    LET ctes == OptionalAt("CtesAt", d, t, i, <<"WITH">>)
        core == Read("SelectAt", d, t, ctes.at)
        ops == Read("OpsAt", d, t, core.at)
        order == Read("OrderAt", d, t, ops.at)
        page == PageAt(d, t, order.at, order.tree.unordered \/ order.tree.terms # << >>)
    IN  IF core.tree = Bad \/ ~MayOrder(d, core.tree, ops.tree, order.tree) THEN Found(Bad, i)
        ELSE Found(QueryOf(d, FlattenSeq(ctes.tree), core.tree, ops.tree, order.tree, page.tree), page.at)
-----------------------------------------------------------------------------
(* Modifications.                                                          *)
AssignmentsAt(d, t, i) ==
    LET e == Read("Operand", d, t, i + 2)
        more == Read("AssignmentsAt", d, t, e.at + 1)
    IN  IF At(t, i + 1) # "=" THEN Found(<<Bad>>, Len(t) + 2)
        ELSE IF At(t, e.at) = "," THEN Found(<<<<t[i], e.tree>>>> \o more.tree, more.at)
        ELSE Found(<<<<t[i], e.tree>>>>, e.at)
UpdateAt(d, t, i) ==
    LET set == Read("AssignmentsAt", d, t, i + 3)
        where == WhereAt(d, t, set.at)
    IN  IF At(t, i + 2) # "SET" THEN Found(Bad, i)
        ELSE Found([update |-> t[i + 1], set |-> set.tree, where |-> where.tree], where.at)
DeleteAt(d, t, i) ==
    LET where == WhereAt(d, t, i + 3)
    IN  IF At(t, i + 1) # "FROM" THEN Found(Bad, i) ELSE Found([delete |-> t[i + 2], where |-> where.tree], where.at)

(* The rules refer to each other through this one, and a statement is read *)
(* to its end.                                                             *)
Read(rule, d, t, i) ==
    CASE rule = "Disjunction"   -> Disjunction(d, t, i)
      [] rule = "Conjunction"   -> Conjunction(d, t, i)
      [] rule = "Negated"       -> Negated(d, t, i)
      [] rule = "Operand"       -> Operand(d, t, i)
      [] rule = "Items"         -> Items(d, t, i)
      [] rule = "Terms"         -> Terms(d, t, i)
      [] rule = "PrefixAt"      -> PrefixAt(d, t, i)
      [] rule = "SelectAt"      -> SelectAt(d, t, i)
      [] rule = "JoinsAt"       -> JoinsAt(d, t, i)
      [] rule = "OpsAt"         -> OpsAt(d, t, i)
      [] rule = "OrderAt"       -> OrderAt(d, t, i)
      [] rule = "CtesAt"        -> CtesAt(d, t, i)
      [] rule = "CompoundAt"    -> CompoundAt(d, t, i)
      [] rule = "AssignmentsAt" -> AssignmentsAt(d, t, i)
      [] rule = "UpdateAt"      -> UpdateAt(d, t, i)
      [] rule = "DeleteAt"      -> DeleteAt(d, t, i)
Finished(t, r) == IF r.at = Len(t) + 1 THEN r.tree ELSE Bad
StatementRead(d, t) ==
    Finished(t, Read(CASE At(t, 1) = "UPDATE" -> "UpdateAt" [] At(t, 1) = "DELETE" -> "DeleteAt"
                       [] OTHER -> "CompoundAt", d, t, 1))
(* What the database does with a text and the values bound to it.          *)
Understood(d, sql, bindings) ==
    IF Binds(sql, bindings) THEN StatementRead(d, BindValues(sql, bindings)) ELSE Bad

-----------------------------------------------------------------------------
(* What the application means by its trees, in the same terms: NOT EXISTS  *)
(* is NOT of EXISTS, membership in an empty list is a constant, arguments  *)
(* stand for the placeholders of a prepared query.                         *)
Commas(names) == FlattenSeq([i \in DOMAIN names |-> IF i = 1 THEN <<names[i]>> ELSE <<",", names[i]>>])
Core(table, columns) ==
    [distinct |-> FALSE, columns |-> columns, table |-> table, inner |-> Nothing, joins |-> << >>,
     where |-> Nothing, group |-> << >>, having |-> Nothing, page |-> NoPage]
Query(core) == [ctes |-> << >>, body |-> core, order |-> << >>, page |-> NoPage]
One(b) == Compare(Column("1"), "=", Column(IF b THEN "1" ELSE "0"))
RECURSIVE Meant(_, _)
SubqueryMeant(sub, all, arguments) ==
    Query([Core(sub.table_name, IF sub.select_columns = << >> THEN <<all>> ELSE Commas(sub.select_columns))
           EXCEPT !.distinct = sub.is_distinct,
                  !.where = [i \in DOMAIN sub.where |-> Meant(sub.where[i], arguments)]])
Reduced(e) ==
    CASE e.node = "Exists" /\ e.op = "NOT"    -> Not([e EXCEPT !.op = ""])
      [] e.node = "InList" /\ Len(e.args) = 1 -> One(e.op = "NOT")
      [] e.node = "Window" /\ e.op = "COUNT" /\ e.args[1].args = << >> ->
             Window("COUNT", <<Column("*")>>, e.args[2].args, e.args[3].args)
      [] OTHER                                -> e
Meant(e, arguments) ==
    IF e.node = "Param" THEN IF e.op \in DOMAIN arguments THEN Literal(arguments[e.op]) ELSE Bad
    ELSE Reduced([e EXCEPT
             !.args = [i \in DOMAIN @ |-> Meant(@[i], arguments)],
             !.sub = [i \in DOMAIN @ |-> SubqueryMeant(@[i], IF e.node = "Exists" THEN "1" ELSE "*", arguments)]])
AllMeant(list, arguments) == [i \in DOMAIN list |-> Meant(list[i], arguments)]
(* Conditions given one after the other must all hold.                     *)
AllOf(conditions) ==
    IF conditions = << >> THEN Nothing
    ELSE <<FoldLeft(LAMBDA x, y : And(x, y), conditions[1], Tail(conditions))>>
=============================================================================
