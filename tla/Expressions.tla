---------------------------- MODULE Expressions ----------------------------
(***************************************************************************)
(* The expression trees an application writes (core/expression.h).  The    *)
(* variant ExprNode is one kind of record: the alternative it holds, the   *)
(* operator, name or value it carries, its operands in the order of the    *)
(* members, and the subquery, if it has one.  An optional is a sequence of *)
(* at most one element, here and in the modules that extend this one.      *)
(***************************************************************************)
EXTENDS Sequences, Naturals

Nothing == << >>
Node(kind, op, args) == [node |-> kind, op |-> op, args |-> args, sub |-> Nothing]

(* Leaves.  A column may carry its table; a literal is its value; a        *)
(* placeholder of a prepared query, param(i), is the name of the argument  *)
(* it stands for.                                                          *)
Column(name) == Node("Column", name, << >>)
ColumnOf(table, name) == Node("Column", name, <<Node("Table", table, << >>)>>)
Literal(value) == Node("Literal", value, << >>)
Param(argument) == Node("Param", argument, << >>)
Now == Node("CurrentTimestamp", "", << >>)
Today == Node("CurrentDate", "", << >>)

(* The operators ==, !=, <, <=, >, >= and &&, ||, !.                       *)
CompareOps == {"=", "<>", "<", "<=", ">", ">="}
Compare(lhs, op, rhs) == Node("Binary", op, <<lhs, rhs>>)
And(lhs, rhs) == Node("Logic", "AND", <<lhs, rhs>>)
Or(lhs, rhs) == Node("Logic", "OR", <<lhs, rhs>>)
Not(operand) == Node("Unary", "NOT", <<operand>>)

(* The methods of Expr, which ColumnHandle repeats.  `is_not` is the flag  *)
(* of the node, written "NOT" or "".                                       *)
IsNull(e) == Node("Unary", "IS NULL", <<e>>)
IsNotNull(e) == Node("Unary", "IS NOT NULL", <<e>>)
Between(e, low, high, is_not) == Node("Between", is_not, <<e, low, high>>)
Like(e, pattern, is_not) == Node("Like", is_not, <<e, pattern>>)
InList(e, values, is_not) == Node("InList", is_not, <<e>> \o values)
Function(name, arguments) == Node("Function", name, arguments)
Extract(part, e) == Node("Extract", part, <<e>>)
AddDays(e, days) == Node("DateAdd", "", <<e, days>>)

(* Subqueries: a value, a list for IN, or the operand of EXISTS.           *)
SubqueryExpr(table, columns, where, distinct) ==
    [table_name |-> table, select_columns |-> columns, where |-> where, is_distinct |-> distinct]
WithSubquery(kind, op, args, sub) == [Node(kind, op, args) EXCEPT !.sub = <<sub>>]
Subquery(sub) == WithSubquery("Subquery", "", << >>, sub)
InSubquery(e, sub, is_not) == WithSubquery("InSubquery", is_not, <<e>>, sub)
Exists(sub, is_not) == WithSubquery("Exists", is_not, << >>, sub)

(* FUNC(arg) OVER (PARTITION BY ... ORDER BY ...), what WindowBuilder      *)
(* accumulates, and the terms of an ORDER BY.                              *)
OrderTerm(e, direction) == Node("OrderBy", direction, <<e>>)
Window(func, arg, partition, order) ==
    Node("Window", func, <<Node("Arg", "", arg), Node("Partition", "", partition),
                           Node("Order", "", order)>>)

(* column = value, in the SET of an UPDATE.                                *)
Assign(column, value) == [column |-> column, value |-> value]
=============================================================================
