----------------------------- MODULE SqlEngine -----------------------------
(***************************************************************************)
(* A database that stores rows, as far as the commands of DbContext reach  *)
(* it: CREATE TABLE, INSERT with what the dialects have for upserts and    *)
(* generated values, UPDATE, DELETE, TRUNCATE and the queries for the last *)
(* generated value.  Like SqlReader it is written from the databases'      *)
(* manuals.  A store is a table with its unique keys, its rows, the next   *)
(* generated value and the last one this session generated; a result is a  *)
(* store, whether the statement was accepted, how many rows it touched and *)
(* the value it returned.                                                  *)
(***************************************************************************)
EXTENDS SqlReader

NoStore == [exists |-> FALSE, uniques |-> {}, auto |-> "", rows |-> {}, next |-> 1, last |-> "0"]
Accepted(store, affected, value) == [ok |-> TRUE, store |-> store, affected |-> affected, value |-> value]
Refused(store) == [ok |-> FALSE, store |-> store, affected |-> 0, value |-> "0"]
Numeral(s) == CHOOSE n \in 0..20 : ToString(n) = s
Largest(S) == IF S = {} THEN 0 ELSE CHOOSE n \in S : \A m \in S : m <= n

(* CREATE TABLE: a primary key is declared with its column, or in a        *)
(* constraint of its own.                                                  *)
Generated == {"AUTOINCREMENT", "BIGSERIAL", "AUTO_INCREMENT", "IDENTITY(1,1)", "SERIAL",
              "GENERATED BY DEFAULT ON NULL AS IDENTITY"}
Places(t, words) == {i \in DOMAIN t : t[i] \in words}
OfColumn(t, i) == t[Largest({j \in 1..i : t[j] \in {"(", ","}}) + 1]
Created(t) ==
    LET constraints == {i \in Places(t, {"PRIMARY KEY"}) : At(t, i + 1) = "("}
        primary == {OfColumn(t, i) : i \in Places(t, {"PRIMARY KEY"}) \ constraints}
        auto == {OfColumn(t, i) : i \in Places(t, Generated)}
    IN  [NoStore EXCEPT
            !.exists = TRUE,
            !.uniques = {{OfColumn(t, i)} : i \in Places(t, {"UNIQUE"})}
                        \cup {Range(NamesAt(t, i + 2).tree) : i \in constraints}
                        \cup (IF primary = {} THEN {} ELSE {primary}),
            !.auto = IF auto = {} THEN "" ELSE CHOOSE c \in auto : TRUE]

(* INSERT and MERGE: the columns and their values, and what to do with a   *)
(* row that is there already.                                              *)
ListAt(t, word) == NamesAt(t, (CHOOSE i \in DOMAIN t : t[i] = word) + 2).tree
ValuesOf(t) == LET marks == SetToSortSeq(Marks(t), <) IN [k \in DOMAIN marks |-> t[marks[k] + 1]]
TargetsOf(t, from, opens) ==
    LET set == {i \in from .. Len(t) - 2 : t[i + 1] = "=" /\ t[i + 2] \in opens}
    IN  {<<t[i], At(t, i + 3)>> : i \in set}
InsertRead(d, t) ==
    LET columns == IF At(t, 4) = "(" THEN NamesAt(t, 5).tree ELSE << >>
        on == IF d = "mysql" THEN Places(t, {"ON DUPLICATE KEY UPDATE"}) ELSE Places(t, {"ON CONFLICT"})
    IN  [columns |-> columns, values |-> ValuesOf(t),
         upsert |-> IF on = {} THEN "no" ELSE IF d = "mysql" THEN "any key" ELSE "key",
         on |-> IF on # {} /\ d # "mysql" THEN Range(ListAt(t, "ON CONFLICT")) ELSE {},
         update |-> TargetsOf(t, Largest(on), {"EXCLUDED.", "VALUES("}),
         returning |-> Places(t, {"RETURNING", "OUTPUT"}) # {}]
MergeRead(t) ==
    LET on == CHOOSE i \in DOMAIN t : t[i] = "ON"
        matched == Places(t, {"WHEN MATCHED THEN UPDATE SET"})
        insert == ListAt(t, "WHEN NOT MATCHED THEN INSERT")
        pair(i) == <<t[i + 1], At(t, i + 4)>>     \* target. c = source. c
        pairs(from, to) == {pair(i) : i \in {k \in from .. to : t[k] = "target."}}
        not_matched == CHOOSE i \in DOMAIN t : t[i] = "WHEN NOT MATCHED THEN INSERT"
        set == Largest(matched)
    IN  [columns |-> insert, values |-> ValuesOf(t), upsert |-> "merge",
         on |-> {p[1] : p \in pairs(on, IF set = 0 THEN not_matched ELSE set)},
         update |-> IF set = 0 THEN {} ELSE pairs(set, not_matched), returning |-> FALSE]

Agree(r, s, columns) == \A c \in columns : r[c] = s[c]
KeysHold(store, rows) ==
    \A r, s \in rows : r # s => \A key \in store.uniques : ~Agree(r, s, key)
Given(i) == [c \in Range(i.columns) |-> i.values[CHOOSE k \in DOMAIN i.columns : i.columns[k] = c]]
(* PostgreSQL, Oracle and SQL Server do not look at given values when they *)
(* generate the next one.                                                  *)
After(d, store, row) ==
    IF store.auto = "" THEN store
    ELSE [store EXCEPT !.next = IF d \in {"postgres", "oracle", "mssql"} THEN @
                                ELSE Largest({@, Numeral(row[store.auto]) + 1})]
Inserted(d, store, i) ==
    LET generated == store.auto # "" /\ store.auto \notin Range(i.columns)
        row == IF generated THEN Given(i) @@ (store.auto :> ToString(store.next)) ELSE Given(i)
        next == IF generated THEN [store EXCEPT !.next = @ + 1, !.last = row[store.auto]]
                ELSE After(d, store, row)
    IN  IF row \in store.rows \/ ~KeysHold(store, store.rows \cup {row})
           \/ (d = "mssql" /\ store.auto \in Range(i.columns))
        THEN Refused(store)
        ELSE Accepted([next EXCEPT !.rows = @ \cup {row}], 1,
                      IF i.returning THEN row[store.auto] ELSE "0")
Upserted(d, store, i) ==
    LET new == Given(i)
        met == {r \in store.rows :
                  CASE i.upsert = "any key" -> \E key \in store.uniques : Agree(r, new, key)
                    [] OTHER                -> Agree(r, new, i.on)}
        Changed(r) == [c \in DOMAIN r |-> IF \E p \in i.update : p[1] = c
                                          THEN new[(CHOOSE p \in i.update : p[1] = c)[2]] ELSE r[c]]
        rows == (store.rows \ met) \cup {Changed(r) : r \in met}
    IN  IF i.upsert = "key" /\ i.on \notin store.uniques THEN Refused(store)
        ELSE IF met = {} THEN Inserted(d, store, i)
        ELSE IF Cardinality(rows) # Cardinality(store.rows) \/ ~KeysHold(store, rows) THEN Refused(store)
        ELSE Accepted([store EXCEPT !.rows = rows], Cardinality(met), "0")

(* Conditions on the columns of one row.                                   *)
RECURSIVE Holds(_, _)
Value(e, row) == IF e.node = "Column" THEN row[e.op] ELSE e.op
Holds(e, row) ==
    CASE e.node = "Logic"  -> Holds(e.args[1], row) /\ Holds(e.args[2], row)
      [] e.node = "Binary" -> Value(e.args[1], row) = Value(e.args[2], row)
      [] e.node = "InList" -> \E k \in 2..Len(e.args) : Value(e.args[1], row) = Value(e.args[k], row)
Chosen(store, where) == {r \in store.rows : \A k \in DOMAIN where : Holds(where[k], r)}
Updated(store, u) ==
    LET chosen == Chosen(store, u.where)
        Changed(r) == [c \in DOMAIN r |->
            IF \E k \in DOMAIN u.set : u.set[k][1] = c
            THEN Value(u.set[CHOOSE k \in DOMAIN u.set : u.set[k][1] = c][2], r) ELSE r[c]]
        rows == (store.rows \ chosen) \cup {Changed(r) : r \in chosen}
    IN  IF Cardinality(rows) # Cardinality(store.rows) \/ ~KeysHold(store, rows) THEN Refused(store)
        ELSE Accepted([store EXCEPT !.rows = rows], Cardinality(chosen), "0")
Deleted(store, where) ==
    LET chosen == Chosen(store, where)
    IN  Accepted([store EXCEPT !.rows = @ \ chosen], Cardinality(chosen), "0")

(* The last generated value: of this session, or whatever is largest.      *)
LastId(d, store, t) ==
    CASE t[2] = "NVL(MAX(" -> ToString(Largest({Numeral(r[t[3]]) : r \in store.rows}))
      [] <<d, t[2]>> \in {<<"sqlite", "last_insert_rowid()">>, <<"mysql", "LAST_INSERT_ID()">>,
                         <<"informix", "DBINFO('sqlca.sqlerrd1')">>} -> store.last
      [] OTHER -> "0"

Added(d, store, i) == IF i.upsert = "no" THEN Inserted(d, store, i) ELSE Upserted(d, store, i)
Modified(store, s) ==
    IF s = Bad THEN Refused(store)
    ELSE IF "update" \in DOMAIN s THEN Updated(store, s) ELSE Deleted(store, s.where)
Performed(d, store, t) ==
    CASE Places(t, {"CREATE TABLE"}) # {}     -> Accepted(IF store.exists THEN store ELSE Created(t), 0, "0")
      [] ~store.exists                        -> Refused(store)
      [] At(t, 1) \in {"INSERT", "MERGE"}     ->
            Added(d, store, IF At(t, 1) = "INSERT" THEN InsertRead(d, t) ELSE MergeRead(t))
      [] At(t, 1) \in {"UPDATE", "DELETE"}    -> Modified(store, StatementRead(d, t))
      [] At(t, 1) = "TRUNCATE TABLE"          -> Accepted([store EXCEPT !.rows = {}], 0, "0")
      [] At(t, 1) = "SELECT"                  -> Accepted(store, 0, LastId(d, store, t))
      [] OTHER                                -> Refused(store)
Lacking(d, sql) == "DEFAULT" \in Range(sql) /\ d \in {"mysql", "oracle", "informix"}
Executed(d, store, sql, bindings) ==
    IF ~Binds(sql, bindings) \/ Lacking(d, sql) THEN Refused(store)
    ELSE Performed(d, store, BindValues(sql, bindings))
=============================================================================
