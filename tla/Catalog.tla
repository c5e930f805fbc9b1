------------------------------ MODULE Catalog ------------------------------
(***************************************************************************)
(* What the host asks about a database schema and has done to it           *)
(* (handlers/metadata.rs, handlers/ddl.rs, handlers/routines.rs), while    *)
(* other clients of the server change the schema between the statements of *)
(* a request: each runs in a transaction of its own.                       *)
(*                                                                         *)
(* A schema is [objects, routines].  An object is [kind, columns, pk, fks, *)
(* indexes, triggers, definition], its pk a set of names, a column of it   *)
(* [name, type, null, default, identity], a type <<its name, its           *)
(* arguments>> in upper case.                                              *)
(* A routine is [name, args, kind, result], kinds as in pg_proc.prokind.   *)
(***************************************************************************)
EXTENDS Integers, Sequences, FiniteSets, SequencesExt

CONSTANTS
  Schema,      \* the schemas other clients make
  Requests,    \* per operation, what the host may ask: [name, arg]
  Types,       \* per type name the server knows: the type it stands for, how
               \* information_schema shows it, and whether it is a serial
  Assignable,  \* pairs of types the server casts on assignment
  Castable,    \* pairs of types it can cast
  Version,     \* the server's version number
  MaxChanges   \* bound: changes made by other clients

VARIABLES
  schema,   \* the schema
  past,     \* what it has been in the course of the request, but for the request's changes
  req,      \* [pc, op, name, arg, got, todo, result]
  changes

vars == <<schema, past, req, changes>>

None == "none"
Without(f, x) == [y \in DOMAIN f \ {x} |-> f[y]]
With(f, x, v) == [y \in DOMAIN f \cup {x} |-> IF y = x THEN v ELSE f[y]]
NameOf(c) == c.name
Names(columns) == [k \in DOMAIN columns |-> columns[k].name]
OfKind(s, kinds) == {t \in DOMAIN s.objects : s.objects[t].kind \in kinds}

-----------------------------------------------------------------------------
(* handlers/metadata.rs: what is read. *)

\* information_schema calls a partitioned table a BASE TABLE too, and has no columns
\* of materialized views.
BaseTables == {"table", "partitioned"}
Listed == {"table", "partitioned", "foreign", "view"}

\* column_default_value.
DefaultValue(default, auto) ==
  IF auto \/ default \in {"NULL", "NULL::text"} THEN None ELSE default

\* row_to_table_column.
TableColumn(o, c) ==
  LET auto == c.identity \/ c.default = "nextval"
  IN  [name |-> c.name, data_type |-> Types[c.type[1]].shown, is_pk |-> c.name \in o.pk,
       is_nullable |-> c.null, is_auto_increment |-> auto, default_value |-> DefaultValue(c.default, auto)]

TableColumns(o) == [k \in DOMAIN o.columns |-> TableColumn(o, o.columns[k])]

\* fetch_table_columns, get_view_columns.
ColumnsOf(s, name) == IF name \in OfKind(s, Listed) THEN TableColumns(s.objects[name]) ELSE <<>>

\* get_materialized_view_columns.
MatviewColumns(s, name) ==
  LET bare(c) == [name |-> c.name, data_type |-> c.type, is_pk |-> FALSE, is_nullable |-> c.null,
                  is_auto_increment |-> FALSE, default_value |-> None]
      columns == s.objects[name].columns
  IN  IF name \in OfKind(s, {"matview"}) THEN [k \in DOMAIN columns |-> bare(columns[k])] ELSE <<>>

\* get_foreign_keys; get_indexes, of ordinary tables and materialized views only.
ForeignKeys(s, name) == IF name \in DOMAIN s.objects THEN s.objects[name].fks ELSE {}
Indexes(s, name) == IF name \in OfKind(s, {"table", "matview"}) THEN s.objects[name].indexes ELSE {}

\* fetch_tables.
Tables(s) == OfKind(s, BaseTables)

\* Mutant of AllForeignKeys: grouped by the table they refer to.
KeysByTarget(s) ==
  LET keys == UNION {ForeignKeys(s, t) : t \in DOMAIN s.objects}
  IN  [t \in {k.table : k \in keys} |-> {k \in keys : k.table = t}]

\* fetch_all_columns, fetch_all_foreign_keys: group_rows_by_table.
AllColumns(s) == [t \in OfKind(s, Listed) |-> ColumnsOf(s, t)]
AllForeignKeys(s) == [t \in {u \in DOMAIN s.objects : ForeignKeys(s, u) # {}} |-> ForeignKeys(s, t)]

\* build_schema_snapshot.
SchemaSnapshot(tables, columns, fks) ==
  [t \in tables |-> [columns |-> IF t \in DOMAIN columns THEN columns[t] ELSE <<>>,
                     foreign_keys |-> IF t \in DOMAIN fks THEN fks[t] ELSE {}]]

\* get_view_definition takes whatever has the name; get_materialized_view_definition
\* looks at its kind.
ViewDefinition(s, name) == {<<"VIEW", s.objects[t].definition>> : t \in DOMAIN s.objects \cap {name}}
MatviewDefinition(s, name) ==
  {<<"MATERIALIZED VIEW", s.objects[t].definition>> : t \in OfKind(s, {"matview"}) \cap {name}}

Overloads(s, name) == {x \in s.routines : x.name = name}

\* routine_query_for_version: pg_proc has prokind from version 11, proisagg before.
RoutineQuery(version) == IF version >= 110000 THEN "prokind" ELSE "proisagg"

\* get_routines, with that query.
Routines(s) == {<<x.name, IF x.kind = "p" THEN "PROCEDURE" ELSE "FUNCTION">> :
                  x \in {y \in s.routines : y.kind \in {"f", "p"}}}

\* get_routine_parameters: the result of any overload, and the parameters of all.
Listable(s, name) == {x \in Overloads(s, name) : x.kind # "a"}
ReturnValues(s, name) ==
  LET found == Listable(s, name)
      returned(x) == IF x.kind # "p" /\ x.result \notin {"VOID", "TRIGGER"} THEN <<x.result>> ELSE <<>>
  IN  IF found = {} THEN {<<>>} ELSE {returned(x) : x \in found}
Parameters(s, name) ==
  UNION {{<<k, x.args[k]>> : k \in DOMAIN x.args} : x \in Listable(s, name)}

-----------------------------------------------------------------------------
(* handlers/ddl.rs: statements for the host to run. *)

CompatibleGroups ==
  {{"SMALLINT", "INTEGER", "BIGINT", "SERIAL", "BIGSERIAL", "SMALLSERIAL"},
   {"REAL", "DOUBLE PRECISION", "NUMERIC", "DECIMAL", "MONEY"},
   {"CHAR", "VARCHAR", "TEXT", "NAME", "CITEXT"},
   {"TIMESTAMP", "TIMESTAMPTZ"}, {"TIME", "TIMETZ"}, {"JSON", "JSONB"}, {"BIT", "VARBIT"}}

\* extract_base_type, is_implicit_cast_compatible.
BaseType(type) == type[1]
ImplicitCast(old, new) == old = new \/ \E group \in CompatibleGroups : {old, new} \subseteq group

\* resolve_column_type.
ResolveColumnType(c) ==
  CASE ~c.is_auto_increment                                                 -> c.data_type
    [] c.is_auto_increment /\ c.data_type[1] \in {"BIGINT", "BIGSERIAL"}     -> <<"BIGSERIAL", "">>
    [] c.is_auto_increment /\ c.data_type[1] \in {"SMALLINT", "SMALLSERIAL"} -> <<"SMALLSERIAL", "">>
    [] OTHER                                                                -> <<"SERIAL", "">>

\* Mutant of ColumnClause: a serial column is given its default as well.
ClauseKeepsDefault(c) ==
  [name |-> c.name, type |-> ResolveColumnType(c), notnull |-> ~c.is_nullable /\ ~c.is_auto_increment,
   default |-> c.default_value]

\* A column's clause in build_create_table_sql and build_add_column_sql.
ColumnClause(c) ==
  [name |-> c.name, type |-> ResolveColumnType(c), notnull |-> ~c.is_nullable /\ ~c.is_auto_increment,
   default |-> IF c.is_auto_increment THEN None ELSE c.default_value]

Pk(columns) == {c.name : c \in {d \in Range(columns) : d.is_pk}}

CreateTable(table, columns) ==
  <<[do |-> "create_table", table |-> table, columns |-> [k \in DOMAIN columns |-> ColumnClause(columns[k])],
     pk |-> Pk(columns)]>>

AddColumn(table, column) == <<[do |-> "add", table |-> table, clause |-> ColumnClause(column)]>>

\* build_alter_column_sql; no statement is its error.
AlterColumn(table, old, new) ==
  LET change(what, to) == <<[do |-> what, table |-> table, column |-> new.name, to |-> to]>>
      unless(same, statements) == IF same THEN <<>> ELSE statements
  IN  unless(old.name = new.name,
             <<[do |-> "rename", table |-> table, column |-> old.name, to |-> new.name]>>)
        \o unless(old.data_type = new.data_type,
                  change(IF ImplicitCast(BaseType(old.data_type), BaseType(new.data_type)) THEN "type" ELSE "cast",
                         new.data_type))
        \o unless(old.is_nullable = new.is_nullable, change("null", new.is_nullable))
        \o unless(old.default_value = new.default_value, change("default", new.default_value))

\* build_create_index_sql, build_create_foreign_key_sql.
CreateIndex(table, index) == <<[do |-> "create_index", table |-> table, index |-> index]>>
CreateForeignKey(table, key) == <<[do |-> "add_key", table |-> table, key |-> key]>>

\* build_table_ddl, from the columns read.
TableDdl(table, columns) ==
  LET clause(c) == [name |-> c.name, type |-> c.data_type, notnull |-> ~c.is_nullable, default |-> None]
  IN  <<[do |-> "create_table", table |-> table, columns |-> [k \in DOMAIN columns |-> clause(columns[k])],
         pk |-> Pk(columns)]>>

-----------------------------------------------------------------------------
(* What PostgreSQL does with a statement: the schemas it can lead to, none if it is *)
(* refused.                                                                         *)

Known(type) == type[1] \in DOMAIN Types
Is(type) == Types[type[1]].is
Serials == {<<"INTEGER", "SERIAL">>, <<"BIGINT", "BIGSERIAL">>, <<"SMALLINT", "SMALLSERIAL">>}

\* A serial makes a column of its integer type; what a name stands for is shown as the
\* name is, and what is shown, where it is a name the server takes, stands for the same.
ASSUME TypesAssumption ==
  /\ \A t \in Serials : /\ {t[1], t[2]} \subseteq DOMAIN Types
                        /\ Types[t[1]].is = t[1] /\ Types[t[2]].is = t[1] /\ Types[t[2]].serial
  /\ \A n \in DOMAIN Types :
       LET is == Types[n].is
           shown == Types[n].shown[1]
       IN  /\ is \in DOMAIN Types /\ Types[is].shown = Types[n].shown
           /\ shown \in DOMAIN Types => Types[shown].is = is /\ ~Types[shown].serial

\* Where the groups of types take a cast for implicit, the server makes it on assignment
\* if it can make it at all.
ASSUME CastsAssumption ==
  \A from \in DOMAIN Types, to \in DOMAIN Types :
    ImplicitCast(Types[from].shown[1], to) /\ <<from, Types[to].is>> \in Castable
      => <<from, Types[to].is>> \in Assignable

\* What the server keeps true of every schema: column names are distinct, types known, and
\* the columns of the primary key not null.
IsColumn(c) ==
  /\ c = [name |-> c.name, type |-> c.type, null |-> c.null, default |-> c.default, identity |-> c.identity]
  /\ Known(c.type) /\ c.null \in BOOLEAN
IsObject(o) ==
  /\ o = [kind |-> o.kind, columns |-> o.columns, pk |-> o.pk, fks |-> o.fks, indexes |-> o.indexes,
          triggers |-> o.triggers, definition |-> o.definition]
  /\ o.columns \in Seq(Range(o.columns)) /\ IsInjective(Names(o.columns))
  /\ \A c \in Range(o.columns) : IsColumn(c) /\ (c.name \in o.pk => ~c.null)
  /\ o.pk \subseteq Range(Names(o.columns))
ASSUME SchemaAssumption ==
  \A s \in Schema : /\ s = [objects |-> s.objects, routines |-> s.routines]
                    /\ IsFiniteSet(s.routines)
                    /\ \A t \in DOMAIN s.objects : IsObject(s.objects[t])

Accepts(clause) == Known(clause.type) /\ (Types[clause.type[1]].serial => clause.default = None)
Column(clause, pk) ==
  LET serial == Types[clause.type[1]].serial
  IN  [name |-> clause.name, type |-> <<Is(clause.type), clause.type[2]>>,
       null |-> ~clause.notnull /\ ~serial /\ clause.name \notin pk,
       default |-> IF serial THEN "nextval" ELSE clause.default, identity |-> FALSE]

Object(kind, columns, pk, definition) ==
  [kind |-> kind, columns |-> columns, pk |-> pk, fks |-> {}, indexes |-> {}, triggers |-> {},
   definition |-> definition]
ViewColumn == [name |-> "v", type |-> <<"INTEGER", "">>, null |-> TRUE, default |-> None, identity |-> FALSE]

Replaced(o, name, c) == [o EXCEPT !.columns = [k \in DOMAIN @ |-> IF @[k].name = name THEN c ELSE @[k]]]

\* A statement on a table's column.
ExecColumn(o, q) ==
  LET c == CHOOSE x \in Range(o.columns) : x.name = q.column
      from == c.type[1]
  IN  IF q.column \notin {x.name : x \in Range(o.columns)} THEN {}
      ELSE CASE q.do = "rename" /\ q.to \notin {x.name : x \in Range(o.columns)} ->
                  {[Replaced(o, q.column, [c EXCEPT !.name = q.to]) EXCEPT
                      !.pk = {IF name = q.column THEN q.to ELSE name : name \in @}]}
             [] q.do \in {"type", "cast"} /\ Known(q.to) /\ ~Types[q.to[1]].serial
                  /\ <<from, Is(q.to)>> \in (IF q.do = "type" \/ c.default # None THEN Assignable ELSE Castable) ->
                  {Replaced(o, q.column, [c EXCEPT !.type = <<Is(q.to), q.to[2]>>])}
             [] q.do = "null" /\ ~(q.to /\ q.column \in o.pk) -> {Replaced(o, q.column, [c EXCEPT !.null = q.to])}
             [] q.do = "default" /\ ~c.identity    -> {Replaced(o, q.column, [c EXCEPT !.default = q.to])}
             [] OTHER                              -> {}

Exec(s, q) ==
  LET known == q.table \in DOMAIN s.objects
      o == s.objects[q.table]
      is(kind) == known /\ o.kind = kind
      put(new) == [s EXCEPT !.objects = With(@, q.table, new)]
      view == put(Object("view", <<ViewColumn>>, {}, q.definition))
  IN  CASE q.do = "create_table" /\ ~known /\ IsInjective(Names(q.columns)) /\ \A c \in Range(q.columns) : Accepts(c) ->
             {put(Object("table", [k \in DOMAIN q.columns |-> Column(q.columns[k], q.pk)], q.pk, ""))}
        [] q.do = "add" /\ is("table") /\ Accepts(q.clause) /\ q.clause.name \notin {x.name : x \in Range(o.columns)} ->
             {put([o EXCEPT !.columns = Append(@, Column(q.clause, o.pk))])}
        [] q.do \in {"rename", "type", "cast", "null", "default"} /\ is("table") ->
             {put(new) : new \in ExecColumn(o, q)}
        [] q.do = "create_index" /\ is("table")    -> {put([o EXCEPT !.indexes = @ \cup {q.index}])}
        [] q.do = "add_key" /\ is("table")         -> {put([o EXCEPT !.fks = @ \cup {q.key}])}
        [] q.do = "drop_index" /\ (\E t \in DOMAIN s.objects : q.table \in s.objects[t].indexes) ->
             {[s EXCEPT !.objects = [t \in DOMAIN @ |-> [@[t] EXCEPT !.indexes = @ \ {q.table}]]]}
        [] q.do = "drop_constraint" /\ is("table") /\ (\E k \in o.fks : k.name = q.name) ->
             {put([o EXCEPT !.fks = {k \in @ : k.name # q.name}])}
        [] q.do = "create_view" /\ ~known          -> {view}
        [] q.do = "replace_view" /\ (~known \/ is("view")) -> {view}
        [] q.do = "drop_view" /\ ~known            -> {s}
        [] q.do = "drop_view" /\ is("view")        -> {[s EXCEPT !.objects = Without(@, q.table)]}
        [] q.do = "refresh" /\ is("matview")       -> {s}
        [] q.do = "create_trigger" /\ is("table")  -> {put([o EXCEPT !.triggers = @ \cup {q.name}])}
        [] q.do = "drop_trigger" /\ known          -> {put([o EXCEPT !.triggers = @ \ {q.name}])}
        [] OTHER                                   -> {}

\* DROP FUNCTION or PROCEDURE with a signature, or with a name only.
ExecDropRoutine(s, name, keyword, signature) ==
  LET named == {x \in Overloads(s, name) : /\ x.kind = "p" <=> keyword = "PROCEDURE"
                                           /\ x.kind # "a"
                                           /\ \A args \in signature : x.args = args}
  IN  IF Cardinality(named) = 1 THEN {[s EXCEPT !.routines = @ \ named]} ELSE {}

-----------------------------------------------------------------------------
(* A request. *)

At(op, pc) == req.op = op /\ req.pc = pc
Goes(pc, got) == req' = [req EXCEPT !.pc = pc, !.got = got]
Replies(result) == req' = [req EXCEPT !.pc = "replied", !.result = <<result>>]
Errs == req' = [req EXCEPT !.pc = "error"]

Ask ==
  /\ req.pc = "idle"
  /\ \E op \in DOMAIN Requests : \E ask \in Requests[op] :
       req' = [req EXCEPT !.pc = "first", !.op = op, !.name = ask.name, !.arg = ask.arg]
  /\ past' = <<schema>>
  /\ UNCHANGED <<schema, changes>>

\* The handlers of one SELECT.
Reply(s, op, name, arg) ==
  CASE op = "get_tables"                 -> Tables(s)
    [] op \in {"get_columns", "get_view_columns"} -> ColumnsOf(s, name)
    [] op = "get_materialized_view_columns" -> MatviewColumns(s, name)
    [] op = "get_foreign_keys"           -> ForeignKeys(s, name)
    [] op = "get_indexes"                -> Indexes(s, name)
    [] op = "get_all_columns_batch"      -> AllColumns(s)
    [] op = "get_all_foreign_keys_batch" -> AllForeignKeys(s)
    [] op = "get_views"                  -> OfKind(s, {"view"})
    [] op = "get_materialized_views"     -> OfKind(s, {"matview"})
    [] op = "get_view_definition"        -> ViewDefinition(s, name)
    [] op = "get_materialized_view_definition" -> MatviewDefinition(s, name)
    [] op = "get_triggers"               -> UNION {s.objects[t].triggers : t \in DOMAIN s.objects}
    [] op = "get_trigger_definition"     -> UNION {s.objects[t].triggers : t \in DOMAIN s.objects \cap {name}} \cap {arg}

OneRead == {"get_tables", "get_columns", "get_view_columns", "get_materialized_view_columns", "get_foreign_keys",
            "get_indexes", "get_all_columns_batch", "get_all_foreign_keys_batch", "get_views",
            "get_materialized_views", "get_view_definition", "get_materialized_view_definition", "get_triggers",
            "get_trigger_definition"}

\* A SELECT that finds nothing where something was named is an error.
ReadOnce ==
  /\ req.op \in OneRead /\ req.pc = "first"
  /\ Replies(Reply(schema, req.op, req.name, req.arg))
  /\ UNCHANGED <<schema, past, changes>>

\* get_routine_definition: of any overload, and of no aggregate.
ReadRoutineDefinition ==
  /\ At("get_routine_definition", "first")
  /\ LET found == Overloads(schema, req.name)
     IN  \/ \E x \in found : x.kind # "a" /\ Replies({x})
         \/ (\A x \in found : x.kind = "a") /\ Errs
  /\ UNCHANGED <<schema, past, changes>>

\* get_schema_snapshot: three queries.
ReadTables ==
  /\ At("get_schema_snapshot", "first")
  /\ Goes("columns", <<Tables(schema)>>)
  /\ UNCHANGED <<schema, past, changes>>

ReadColumns ==
  /\ At("get_schema_snapshot", "columns")
  /\ Goes("fks", Append(req.got, AllColumns(schema)))
  /\ UNCHANGED <<schema, past, changes>>

ReadForeignKeys ==
  /\ At("get_schema_snapshot", "fks")
  /\ Replies(SchemaSnapshot(req.got[1], req.got[2], AllForeignKeys(schema)))
  /\ UNCHANGED <<schema, past, changes>>

\* get_table_ddl: ensure_base_table, then the columns.
EnsureBaseTable ==
  /\ At("get_table_ddl", "first")
  /\ IF req.name \in OfKind(schema, BaseTables) THEN Goes("columns", <<>>) ELSE Errs
  /\ UNCHANGED <<schema, past, changes>>

ReadTableColumns ==
  /\ At("get_table_ddl", "columns")
  /\ LET columns == ColumnsOf(schema, req.name)
     IN  IF columns = <<>> THEN Errs ELSE Replies(TableDdl(req.name, columns))
  /\ UNCHANGED <<schema, past, changes>>

\* get_routine_parameters: two queries.
ReadReturnValue ==
  /\ At("get_routine_parameters", "first")
  /\ \E returned \in ReturnValues(schema, req.name) : Goes("parameters", returned)
  /\ UNCHANGED <<schema, past, changes>>

ReadParameters ==
  /\ At("get_routine_parameters", "parameters")
  /\ Replies([returned |-> req.got, parameters |-> Parameters(schema, req.name)])
  /\ UNCHANGED <<schema, past, changes>>

\* get_routines: the server's version, then its query.  A version that cannot be read
\* is 0.
ReadVersion ==
  /\ At("get_routines", "first")
  /\ \E version \in {Version, 0} : Goes("routines", <<RoutineQuery(version)>>)
  /\ UNCHANGED <<schema, past, changes>>

ReadRoutines ==
  /\ At("get_routines", "routines")
  /\ IF req.got[1] = RoutineQuery(Version) THEN Replies(Routines(schema)) ELSE Errs
  /\ UNCHANGED <<schema, past, changes>>

\* exec_drop_routine: the signature is looked up.
LookUpRoutine ==
  /\ At("drop_routine", "first")
  /\ LET found == Overloads(schema, req.name)
     IN  IF Cardinality(found) = 1 THEN Goes("drop", <<(CHOOSE x \in found : TRUE).args>>) ELSE Errs
  /\ UNCHANGED <<schema, past, changes>>

\* Mutant of DropRoutine: the name alone.
DropsByName ==
  /\ At("drop_routine", "drop")
  /\ LET after == ExecDropRoutine(schema, req.name, req.arg, {})
     IN  IF after = {} THEN Errs /\ UNCHANGED schema ELSE schema' \in after /\ Replies(None)
  /\ UNCHANGED <<past, changes>>

\* Its second half: drop_routine_sql.
DropRoutine ==
  /\ At("drop_routine", "drop")
  /\ LET after == ExecDropRoutine(schema, req.name, req.arg, {req.got[1]})
     IN  IF after = {} THEN Errs /\ UNCHANGED schema ELSE schema' \in after /\ Replies(None)
  /\ UNCHANGED <<past, changes>>

\* The handlers of one statement that changes something.
Statement(op, name, arg) ==
  CASE op = "create_view"      -> [do |-> "create_view", table |-> name, definition |-> arg]
    [] op = "alter_view"       -> [do |-> "replace_view", table |-> name, definition |-> arg]
    [] op = "drop_view"        -> [do |-> "drop_view", table |-> name]
    [] op = "refresh_materialized_view" -> [do |-> "refresh", table |-> name]
    [] op = "create_trigger"   -> [do |-> "create_trigger", table |-> name, name |-> arg]
    [] op = "drop_trigger"     -> [do |-> "drop_trigger", table |-> name, name |-> arg]
    [] op = "drop_index"       -> [do |-> "drop_index", table |-> name]
    [] op = "drop_foreign_key" -> [do |-> "drop_constraint", table |-> name, name |-> arg]

OneChange == {"create_view", "alter_view", "drop_view", "refresh_materialized_view", "create_trigger",
              "drop_trigger", "drop_index", "drop_foreign_key"}

\* A refused statement is reported; so is one the rows or other objects forbid.
Change ==
  /\ req.op \in OneChange /\ req.pc = "first"
  /\ \/ schema' \in Exec(schema, Statement(req.op, req.name, req.arg)) /\ Replies(None)
     \/ Errs /\ UNCHANGED schema
  /\ UNCHANGED <<past, changes>>

-----------------------------------------------------------------------------
(* The builders: the host runs their statements, one after the other. *)

Built(op, name, arg) ==
  CASE op = "get_create_table_sql"       -> CreateTable(name, arg)
    [] op = "get_add_column_sql"         -> AddColumn(name, arg)
    [] op = "get_alter_column_sql"       -> AlterColumn(name, arg.old, arg.new)
    [] op = "get_create_index_sql"       -> CreateIndex(name, arg)
    [] op = "get_create_foreign_key_sql" -> CreateForeignKey(name, arg)

Builders == {"get_create_table_sql", "get_add_column_sql", "get_alter_column_sql", "get_create_index_sql",
             "get_create_foreign_key_sql"}

Build ==
  /\ req.op \in Builders /\ req.pc = "first"
  /\ LET built == Built(req.op, req.name, req.arg)
     IN  IF built = <<>> THEN Errs ELSE req' = [req EXCEPT !.pc = "running", !.todo = built]
  /\ UNCHANGED <<schema, past, changes>>

\* The table's rows can contradict a NOT NULL or a new type, a default its column's type.
DataForbids(q) == q.do \in {"create_table", "add", "null", "type", "cast", "default", "add_key"}

HostRuns ==
  /\ req.pc = "running" /\ req.todo # <<>>
  /\ LET q == Head(req.todo)
     IN  \/ schema' \in Exec(schema, q) /\ req' = [req EXCEPT !.todo = Tail(@)]
         \/ /\ Exec(schema, q) = {} \/ DataForbids(q)
            /\ req' = [req EXCEPT !.pc = IF Exec(schema, q) = {} THEN "refused" ELSE "error"]
            /\ UNCHANGED schema
  /\ UNCHANGED <<past, changes>>

-----------------------------------------------------------------------------
\* A query of a request fails.
QueryFails ==
  /\ req.pc \in {"first", "columns", "fks", "parameters", "routines", "drop"} /\ req.op \notin Builders
  /\ Errs
  /\ UNCHANGED <<schema, past, changes>>

\* Other clients change the schema.
OthersChange ==
  /\ req.pc \in {"first", "columns", "fks", "parameters", "routines", "drop", "running"}
  /\ changes < MaxChanges
  /\ changes' = changes + 1
  /\ \E s \in Schema \ {schema} : schema' = s /\ past' = Append(past, s)
  /\ UNCHANGED req

Init ==
  /\ schema \in Schema
  /\ past = <<>>
  /\ req = [pc |-> "idle", op |-> None, name |-> None, arg |-> None, got |-> <<>>, todo |-> <<>>, result |-> <<>>]
  /\ changes = 0

Next ==
  \/ Ask \/ ReadOnce \/ ReadRoutineDefinition
  \/ ReadTables \/ ReadColumns \/ ReadForeignKeys
  \/ EnsureBaseTable \/ ReadTableColumns
  \/ ReadReturnValue \/ ReadParameters \/ ReadVersion \/ ReadRoutines
  \/ LookUpRoutine \/ DropRoutine \/ Change
  \/ Build \/ HostRuns \/ QueryFails \/ OthersChange

Spec == Init /\ [][Next]_vars

-----------------------------------------------------------------------------
(* Properties. *)

Quiet == Len(past) = 1
From == past[1]
Moments == DOMAIN past

\* The reply of get_schema_snapshot is three views of the schema, each true at some
\* moment of the request and none older than the one before; together they are one view
\* if nothing changed.  Table by table it is what get_columns and get_foreign_keys say.
SnapshotTrue(reply) ==
  \E i \in Moments, j \in Moments, k \in Moments :
    /\ i <= j /\ j <= k
    /\ DOMAIN reply = Tables(past[i])
    /\ \A t \in DOMAIN reply : /\ reply[t].columns = ColumnsOf(past[j], t)
                               /\ reply[t].foreign_keys = ForeignKeys(past[k], t)

\* Types information_schema shows under a name the server takes.
Plain(o) == \A c \in Range(o.columns) : Types[c.type[1]].shown[1] \in DOMAIN Types
Bare(columns) == [k \in DOMAIN columns |-> [name |-> columns[k].name, data_type |-> columns[k].data_type,
                                            is_pk |-> columns[k].is_pk, is_nullable |-> columns[k].is_nullable]]

\* The statement of get_table_ddl, run on an empty schema, makes a table with the
\* columns the dumped one had, after it was seen to be a base table.
DdlTrue(reply) ==
  \E i \in Moments, j \in Moments :
    /\ i <= j
    /\ req.name \in OfKind(past[i], BaseTables) /\ req.name \in OfKind(past[j], Listed)
    /\ Plain(past[j].objects[req.name]) =>
         LET made == Exec([objects |-> <<>>, routines |-> {}], reply[1])
         IN  \E s \in made : Bare(ColumnsOf(s, req.name)) = Bare(ColumnsOf(past[j], req.name))

\* Of a routine that has no overloads, get_routine_parameters tells the result and the
\* parameters of that one.
ParametersTrue(reply) ==
  LET found == Listable(From, req.name)
  IN  Quiet /\ Cardinality(found) = 1 =>
        \E x \in found : /\ reply.parameters = {<<k, x.args[k]>> : k \in DOMAIN x.args}
                         /\ reply.returned = <<>> <=> x.kind = "p" \/ x.result \in {"VOID", "TRIGGER"}

\* However other clients change the schema between the queries of a request, its reply
\* tells what was true in its course.
ReadsTrue ==
  req.pc = "replied" =>
    /\ req.op = "get_schema_snapshot" => SnapshotTrue(req.result[1])
    /\ req.op = "get_table_ddl" => DdlTrue(req.result[1])
    /\ req.op = "get_routine_parameters" => ParametersTrue(req.result[1])

\* drop_routine removes nothing but a routine of the kind and with the signature that
\* was the only one of its name when the request looked, whatever overloads come and go
\* between the look and the drop.
DropsNamed ==
  [][At("drop_routine", "drop") /\ changes' = changes =>
       \A x \in schema.routines \ schema'.routines :
         /\ x.name = req.name /\ (x.kind = "p" <=> req.arg = "PROCEDURE")
         /\ <<x.args>> = req.got
         /\ \E k \in Moments : {y.args : y \in Overloads(past[k], req.name)} = {x.args}]_vars

\* A definition says one thing: what counts up is of an integer type, and a serial does.
Coherent(c) ==
  /\ c.is_pk \in BOOLEAN
  /\ c.is_auto_increment => c.data_type[1] \in UNION {{t[1], t[2]} : t \in Serials}
  /\ c.data_type[1] \in {t \in DOMAIN Types : Types[t].serial} => c.is_auto_increment

\* What get_columns reads of a column made from a definition, as a key or not.
Expected(c, key) ==
  LET auto == c.is_auto_increment \/ c.default_value = "nextval"
  IN  [name |-> c.name, data_type |-> Types[c.data_type[1]].shown, is_pk |-> key,
       is_nullable |-> c.is_nullable /\ ~c.is_auto_increment /\ ~key,
       is_auto_increment |-> auto, default_value |-> DefaultValue(c.default_value, auto)]

\* The column after its alteration; a new default ends a serial.
Altered(column, old, new) ==
  LET set == old.default_value # new.default_value
      auto == new.default_value = "nextval"
  IN  [name |-> new.name,
       data_type |-> IF old.data_type = new.data_type THEN column.data_type ELSE Types[new.data_type[1]].shown,
       is_pk |-> column.is_pk,
       is_nullable |-> IF old.is_nullable = new.is_nullable THEN column.is_nullable ELSE new.is_nullable,
       is_auto_increment |-> IF set THEN auto ELSE column.is_auto_increment,
       default_value |-> IF set THEN DefaultValue(new.default_value, auto) ELSE column.default_value]

\* An added column joins no key: build_add_column_sql reads no is_pk.
Wanted ==
  LET columns == ColumnsOf(From, req.name)
  IN  CASE req.op = "get_create_table_sql" -> [k \in DOMAIN req.arg |-> Expected(req.arg[k], req.arg[k].is_pk)]
        [] req.op = "get_add_column_sql"   -> Append(columns, Expected(req.arg, FALSE))
        [] req.op = "get_alter_column_sql" ->
             [k \in DOMAIN columns |-> IF columns[k].name = req.arg.old.name
                                        THEN Altered(columns[k], req.arg.old, req.arg.new) ELSE columns[k]]
        [] OTHER -> columns

\* The alterations PostgreSQL can make of a column that is of the type the host was shown:
\* the type changes before the default does.
CanAlter(c, pk, taken, old, new) ==
  /\ Types[c.type[1]].shown = old.data_type
  /\ old.name # new.name => new.name \notin taken
  /\ old.data_type # new.data_type =>
       /\ Known(new.data_type) /\ ~Types[new.data_type[1]].serial
       /\ <<c.type[1], Is(new.data_type)>> \in (IF c.default = None THEN Castable ELSE Assignable)
  /\ ~(c.name \in pk /\ ~old.is_nullable /\ new.is_nullable)
  /\ old.default_value # new.default_value => ~c.identity

Can ==
  LET known == req.name \in DOMAIN From.objects
      o == From.objects[req.name]
      names == Range(Names(o.columns))
  IN  CASE req.op = "get_create_table_sql" ->
             ~known /\ IsInjective(Names(req.arg)) /\ \A c \in Range(req.arg) : Known(c.data_type)
        [] req.op = "get_add_column_sql"   ->
             known /\ o.kind = "table" /\ Known(req.arg.data_type) /\ req.arg.name \notin names
        [] req.op = "get_alter_column_sql" ->
             /\ known /\ o.kind = "table"
             /\ \E c \in Range(o.columns) : /\ c.name = req.arg.old.name
                                            /\ CanAlter(c, o.pk, names, req.arg.old, req.arg.new)
        [] OTHER -> known /\ o.kind = "table"

\* The definitions a request makes say one thing each, and what may be null is a flag.
AskedCoherently ==
  /\ req.op = "get_create_table_sql" => \A c \in Range(req.arg) : Coherent(c)
  /\ req.op = "get_add_column_sql" => Coherent(req.arg)
  /\ req.op = "get_alter_column_sql" => {req.arg.old.is_nullable, req.arg.new.is_nullable} \subseteq BOOLEAN

\* The statements built for a definition, run in their order, leave a table whose columns
\* read as defined, and the server refuses none of them that it could have taken: not for
\* a name that the rename before has changed, a cast that needs USING, or a clause that a
\* serial type forbids.
DdlRight ==
  req.op \in Builders /\ Quiet /\ AskedCoherently =>
    /\ req.pc = "running" /\ req.todo = <<>> =>
         /\ ColumnsOf(schema, req.name) = Wanted
         /\ \A t \in DOMAIN From.objects \ {req.name} : schema.objects[t] = From.objects[t]
    /\ req.pc = "refused" => ~Can
=============================================================================
