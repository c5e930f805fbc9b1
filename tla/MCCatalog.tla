----------------------------- MODULE MCCatalog -----------------------------
(* Catalog with a few schemas that differ in one table or in one name's overloads. *)
EXTENDS Catalog

Type(is, shown, serial) == [is |-> is, shown |-> <<shown, "">>, serial |-> serial]
MCTypes ==
  [t \in {"INTEGER", "BIGINT", "SMALLINT", "SERIAL", "BIGSERIAL", "SMALLSERIAL", "TEXT", "VARCHAR",
          "CHARACTER VARYING", "REAL", "MONEY", "MOOD", "INTEGER[]"} |->
     CASE t = "SERIAL"      -> Type("INTEGER", "INTEGER", TRUE)
       [] t = "BIGSERIAL"   -> Type("BIGINT", "BIGINT", TRUE)
       [] t = "SMALLSERIAL" -> Type("SMALLINT", "SMALLINT", TRUE)
       [] t \in {"VARCHAR", "CHARACTER VARYING"} -> Type("VARCHAR", "CHARACTER VARYING", FALSE)
       [] t = "MOOD"        -> Type("MOOD", "enum", FALSE)
       [] t = "INTEGER[]"   -> Type("INTEGER[]", "ARRAY", FALSE)
       [] OTHER             -> Type(t, t, FALSE)]

Integer == {"INTEGER", "BIGINT", "SMALLINT"}
Text == {"TEXT", "VARCHAR"}
All == Integer \cup Text \cup {"REAL", "MONEY", "MOOD", "INTEGER[]"}
MCAssignable ==
  {<<t, t>> : t \in All} \cup (Integer \X Integer) \cup (Integer \X {"REAL", "MONEY"}) \cup ({"REAL"} \X Integer)
    \cup (All \X Text)
MCCastable == MCAssignable \cup (Text \X All)

Col(name, type, null, default) == [name |-> name, type |-> <<type, "">>, null |-> null, default |-> default, identity |-> FALSE]
Id == Col("id", "INTEGER", FALSE, "nextval")
Identity == [Col("id", "BIGINT", FALSE, None) EXCEPT !.identity = TRUE]
Label == Col("label", "VARCHAR", TRUE, "x")
Key(table) == [name |-> "fk", column |-> "id", table |-> table, ref |-> "id"]

Orders == Object("table", <<Id, Label>>, {"id"}, "")
Items == [Object("table", <<Identity, Col("mood", "MOOD", TRUE, "NULL::text")>>, {"id"}, "") EXCEPT
            !.fks = {Key("orders")}, !.indexes = {"ix"}, !.triggers = {"tg"}]
Parts == [Object("partitioned", <<Col("n", "REAL", TRUE, None)>>, {}, "") EXCEPT !.fks = {Key("orders")}]
View == Object("view", <<ViewColumn>>, {}, "select 1")
Matview == Object("matview", <<ViewColumn>>, {}, "select 1")
Routine(kind, args, result) == [name |-> "f", args |-> args, kind |-> kind, result |-> result]

Two == With(With(<<>>, "orders", Orders), "items", Items)
S(objects, routines) == [objects |-> objects, routines |-> routines]
MCSchema ==
  {S(Two, {Routine("f", <<"INTEGER">>, "TEXT")}),
   S(Two, {Routine("f", <<"TEXT">>, "VOID")}),
   S(Two, {Routine("f", <<"INTEGER">>, "TEXT"), Routine("f", <<"TEXT">>, "VOID")}),
   S(With(Two, "orders", View), {Routine("p", <<"INTEGER", "TEXT">>, "VOID")}),
   S(With(With(Two, "items", Parts), "v", Matview), {Routine("a", <<"INTEGER">>, "TEXT")}),
   S(With(<<>>, "orders", Orders), {})}

Def(name, type, null, pk, auto, default) ==
  [name |-> name, data_type |-> <<type, "">>, is_nullable |-> null, is_pk |-> pk, is_auto_increment |-> auto,
   default_value |-> default]
Defs ==
  {Def("n", type, null, FALSE, auto, default) :
     type \in {"INTEGER", "BIGINT", "SMALLINT"}, null \in BOOLEAN, auto \in BOOLEAN, default \in {None, "0", "NULL"}}
    \cup {Def("n", "VARCHAR", null, FALSE, FALSE, default) : null \in BOOLEAN, default \in {None, "x"}}
    \cup {Def("n", "SERIAL", FALSE, FALSE, auto, None) : auto \in BOOLEAN}
Read == {Def("id", "INTEGER", FALSE, TRUE, TRUE, None), Def("label", "CHARACTER VARYING", TRUE, FALSE, FALSE, "x"),
         Def("id", "BIGINT", FALSE, TRUE, TRUE, None), Def("mood", "enum", TRUE, FALSE, FALSE, None)}
Alterations ==
  {[old |-> old, new |-> [old EXCEPT !.name = name, !.data_type = <<type, "">>, !.is_nullable = null,
                                     !.default_value = default]] :
     old \in Read, name \in {"id", "label", "new"}, null \in BOOLEAN, default \in {None, "x", "NULL"},
     type \in {"INTEGER", "BIGINT", "CHARACTER VARYING", "TEXT", "MONEY", "SERIAL", "INTEGER[]"}}

Named(names, args) == [name : names, arg : args]
MCRequests ==
  [op \in OneRead \cup OneChange \cup Builders \cup
          {"get_routine_definition", "get_schema_snapshot", "get_table_ddl", "get_routine_parameters", "get_routines",
           "drop_routine"} |->
     CASE op = "get_create_table_sql" ->
            Named({"orders", "new"},
                  {<<d>> : d \in Defs} \cup {<<d, d>> : d \in Defs}
                    \cup {<<Def("k", "INTEGER", TRUE, TRUE, auto, None), d>> : d \in Defs, auto \in BOOLEAN})
       [] op = "get_add_column_sql"   -> Named({"orders", "new"}, Defs)
       [] op = "get_alter_column_sql" -> Named({"orders", "items"}, Alterations)
       [] op = "get_create_index_sql" -> Named({"orders", "new"}, {"ix2"})
       [] op = "get_create_foreign_key_sql" -> Named({"orders"}, {Key("items")})
       [] op \in {"get_routine_definition", "get_routine_parameters"} -> Named({"f", "g"}, {None})
       [] op = "drop_routine" -> Named({"f", "g"}, {"FUNCTION", "PROCEDURE"})
       [] op = "drop_index"   -> Named({"ix", "ix3"}, {None})
       [] op \in {"create_trigger", "drop_trigger", "get_trigger_definition"} -> Named({"items", "v"}, {"tg"})
       [] op = "drop_foreign_key" -> Named({"items"}, {"fk", "fk2"})
       [] OTHER -> Named({"orders", "items", "v"}, {"select 2"})]
=============================================================================
