---------------------------- MODULE MCDbContext ----------------------------
(* Conditions that mix every kind of node, each literal a value of its own,*)
(* and tables with a generated, a plain and a composite key.               *)
EXTENDS DbContext

Id == Column("id")
Name == Column("name")
Length == Function("LENGTH", <<Name>>)
OrName == Function("COALESCE", <<Name, Literal("a")>>)

MCConditions ==
    {Compare(Id, "=", Literal("b")),
     Or(Compare(Id, ">", Literal("c")), IsNull(Name)),
     Not(And(Like(Name, Literal("d"), "NOT"), IsNotNull(ColumnOf("users", "name")))),
     Or(InList(Length, <<Literal("e"), Literal("f")>>, "NOT"), InList(Name, << >>, "NOT")),
     Between(Function("SUBSTR", <<Name, Literal("g")>>), Param("1"), Param("0"), ""),
     Or(Compare(Extract("YEAR", AddDays(Name, Literal("h"))), "<=", Extract("DAY", Now)),
        Compare(Name, "<>", Today)),
     Or(Compare(AddDays(OrName, Literal("i")), "<", Literal("o")),
        Between(OrName, Literal("j"), Literal("k"), "NOT"))}
MCColumnTerms ==
    {ColumnOf("users", "name"),
     Window("COUNT", << >>, <<Name>>, <<OrderTerm(Id, "DESC")>>)}
MCSubqueries ==
    {SubqueryExpr("admins", <<"id", "name">>, <<Or(Compare(Id, "<", Literal("l")), IsNull(Name))>>, TRUE),
     SubqueryExpr("guests", <<"id", "name">>, Nothing, FALSE)}
MCUpdates ==
    {<<Assign("name", Literal("m"))>>,
     <<Assign("age", Function("SUBSTR", <<Name, Param("0")>>)), Assign("name", Literal("n"))>>}
MCArguments == {<< >>, ("0" :> "x") @@ ("1" :> "y"), ("0" :> "y") @@ ("1" :> "z")}

MCDeclarations ==
    {[name |-> "users", columns |-> <<ColumnDef("id", {"primary key", "auto"}), ColumnDef("name", {"not null"})>>],
     [name |-> "tags", columns |-> <<ColumnDef("label", {"unique"}), ColumnDef("id", {"primary key"})>>],
     [name |-> "roles", columns |-> <<ColumnDef("a", {"primary key"}), ColumnDef("v", {}), ColumnDef("b", {"primary key"})>>]}
=============================================================================
