-------------------------------- MODULE Rows --------------------------------
(***************************************************************************)
(* Editing in the grid: extract.rs shows a table, and insert_record,       *)
(* update_record and delete_record (crud.rs) and the blob transfer         *)
(* (blob.rs) find a row again by what was shown of it, while other         *)
(* sessions write to the table.                                            *)
(*                                                                         *)
(* A stored value is the text PostgreSQL itself would print for it, or     *)
(* NULL.  The host names a row by the cells of its primary key as shown,   *)
(* and a row of a table without one by all its cells.                      *)
(***************************************************************************)
EXTENDS Binding

CONSTANTS
  Id,            \* identities of rows
  Schema,        \* the tables: [types, keyed, keys], keys the columns that name a row
  Stored(_),     \* per type, the values stored
  ShownText(_),  \* the text extract.rs gives a value
  JsonSort(_),   \* the sort of a jsonb value: object, array, number, string, bool or null
  NoText,        \* values it has none for, and shows as null: infinite dates, NaN
  Reading(_, _), \* what the server reads in a text as a value of a type: {} for an error
  Typed,         \* texts a user may enter
  MaxWrites      \* bound: writes of other sessions

VARIABLES
  schema,    \* the table's columns
  table,     \* the rows: per identity a function from columns, or Gone
  seen,      \* the rows as they were when the grid loaded them
  stage,     \* of the request: "idle", "asked", "looked", "done"
  request,   \* [op, row, col, json, shows]: shows, the value json was shown for, if any
  types,     \* the column types as the request has loaded them
  enums,     \* whether it has loaded the enum types; the oid of hstore
  result,    \* [error, hit, got]: what was refused if anything, the rows written or
             \* read, and the value fetched
  writes

vars == <<schema, table, seen, stage, request, types, enums, result, writes>>

Gone == <<"gone">>
NULL == "NULL"
Columns == DOMAIN schema.types
Rowset(t) == {i \in Id : t[i] # Gone}

-----------------------------------------------------------------------------
(* The grid. *)

\* extract_value, by type.  A jsonb is shown as the JSON it is, a JSON null as a NULL.
Show(type, v) ==
  IF v = NULL \/ v \in NoText \/ (type = "jsonb" /\ JsonSort(v) = "null") THEN Null
  ELSE IF type \in FloatTypes \/ (type \in IntegerTypes /\ v \notin Unsafe) THEN <<"number", v>>
  ELSE IF type = "boolean" THEN <<"bool", v>>
  ELSE IF type = "hstore" THEN <<"object", v>>
  ELSE IF type = "integer[]" THEN <<"array", ShownText(v)>>
  ELSE IF type = "jsonb" THEN <<JsonSort(v), ShownText(v)>>
  ELSE <<"string", ShownText(v)>>

\* The types of columns, and the shape that what is shown of one of them has.
ColumnTypes ==
  NumericTypes \cup TemporalTypes
    \cup {"text", "uuid", "boolean", "mood", "bytea", "hstore", "jsonb", "integer[]"}
Shape(type) ==
  CASE type \in IntegerTypes -> {"integer"}
    [] type \in DecimalTypes -> {"decimal"}
    [] type = "uuid"         -> {"uuid"}
    [] type = "bytea"        -> {"blob"}
    [] type = "hstore"       -> {"object"}
    [] type = "integer[]"    -> {"array"}
    [] OTHER                 -> {}

Ordered == {KeyOrder[k] : k \in DOMAIN KeyOrder}
ASSUME SchemaAssumption ==
  /\ KeyOrder \in Seq(Ordered)
  /\ \A s \in Schema : /\ s.keys # {} /\ s.keys \subseteq DOMAIN s.types
                       /\ DOMAIN s.types \subseteq Ordered
                       /\ \A c \in DOMAIN s.types : s.types[c] \in ColumnTypes

\* A text, a label or a jsonb can look like anything; what is shown of another type has
\* its shape, and is never taken for a sentinel, a blob, a function call, a geometry or an
\* array that it is not.
ASSUME LooksAssumption ==
  /\ \A type \in ColumnTypes \ {"text", "mood", "jsonb"} : \A v \in Stored(type) \ (NoText \cup {NULL}) :
       LET looks == Looks[Show(type, v)[2]]
       IN  /\ Shape(type) \subseteq looks
           /\ looks \cap {"sentinel", "blob", "function", "wkt", "array"} \subseteq Shape(type)
  /\ \A v \in Stored("integer[]") : Has(ShownText(v), "empty") => ShownText(v) = EmptyLiteral

ShownCell(i, c) == Show(schema.types[c], seen[i][c])
PkMap == [c \in schema.keys |-> ShownCell(request.row, c)]

-----------------------------------------------------------------------------
(* The server's side of a statement: fragments and parameters. *)

\* The text a fragment stands for: its placeholder's parameter, or its own; {} when
\* the parameter is missing.
TextOf(frag, params) ==
  CASE frag.at = 0                               -> {frag.text}
    [] frag.at # 0 /\ frag.at \in DOMAIN params -> {params[frag.at]}
    [] OTHER                                     -> {}

ReadAs(type, texts) == UNION {Reading(type, text) : text \in texts}

\* Whether a column takes an expression of a type as one of its own: any reads a literal.
Accepts(type, as) ==
  \/ as = type
  \/ as = "enum" /\ type = "mood"
  \/ as = "literal"
  \/ as = "numbers" /\ type = "integer[]"
  \/ {type, as} \subseteq NumericTypes

\* The value a fragment leaves in a column: {} is an error.  A call leaves what it
\* returns, if the column takes it.
Assigned(type, frag, params) ==
  IF frag.as \in {"NULL", "DEFAULT"} THEN {NULL}
  ELSE IF Accepts(type, frag.as) THEN ReadAs(type, TextOf(frag, params))
  ELSE IF type = "text" THEN ReadAs(frag.as, TextOf(frag, params))
  ELSE IF frag.as = "function" THEN ReadAs(frag.as, TextOf(frag, params)) \cap Stored(type)
  ELSE {}

\* Whether a stored value satisfies a fragment of a predicate.  A real is compared
\* with a double precision exactly.
Matches(type, v, frag, params) ==
  IF frag.as = "isnull" THEN v = NULL
  ELSE \E text \in TextOf(frag, params) :
         v \in Reading(type, text) /\ (type = "real" /\ frag.as # "real" => Has(text, "dyadic"))

Comparable(type, as) == as \in {type, "isnull"} \/ {type, as} \subseteq NumericTypes

\* A predicate the plugin or the server refuses, and the rows another one names.
Broken(frags, params) ==
  \/ schema.keys = {}
  \/ \E c \in schema.keys : \/ frags[c] = Refused \/ ~Comparable(schema.types[c], frags[c].as)
                            \/ TextOf(frags[c], params) = {}
Named(frags, params) ==
  {i \in Rowset(table) : \A c \in schema.keys : Matches(schema.types[c], table[i][c], frags[c], params)}

\* A primary key is unique and not NULL.
KeysHold(t) ==
  schema.keyed => \A i, j \in Rowset(t) :
                    /\ \A c \in schema.keys : t[i][c] # NULL
                    /\ (\A c \in schema.keys : t[i][c] = t[j][c]) => i = j

-----------------------------------------------------------------------------
(* The handlers. *)

Options(c, default) ==
  [type |-> types[c], enum |-> enums /\ schema.types[c] = "mood", default |-> default, oid |-> enums]

Failed(what) == [error |-> what, hit |-> {}, got |-> {}]
Done(hit, got) == [error |-> "none", hit |-> hit, got |-> got]

Finish(r, t) ==
  /\ stage' = "done"
  /\ result' = IF KeysHold(t) THEN r ELSE Failed("key")
  /\ table' = IF KeysHold(t) THEN t ELSE table
  /\ UNCHANGED <<schema, seen, request, types, enums, writes>>

\* exec_update: the new value first, then the predicate.
Update ==
  LET c == request.col
      set == Add(NoFragments(1), c, BindValue(request.json, 1, Options(c, TRUE)))
      where == PkPredicate(PkMap, types, set.next)
      params == set.params \o where.params
      new == Assigned(schema.types[c], set.frags[c], params)
      hit == Named(where.frags, params)
  IN  /\ stage = "looked" /\ request.op = "update"
      /\ IF new = {} THEN Finish(Failed("value"), table)
         ELSE IF Broken(where.frags, params) THEN Finish(Failed("key"), table)
         ELSE \E v \in new :
                Finish(Done(hit, {}), [i \in Id |-> IF i \in hit THEN [table[i] EXCEPT ![c] = v] ELSE table[i]])

\* exec_delete.
Delete ==
  LET where == PkPredicate(PkMap, types, 1)
      hit == Named(where.frags, where.params)
  IN  /\ stage = "looked" /\ request.op = "delete"
      /\ IF Broken(where.frags, where.params) THEN Finish(Failed("key"), table)
         ELSE Finish(Done(hit, {}), [i \in Id |-> IF i \in hit THEN Gone ELSE table[i]])

\* exec_insert, of a row as it is shown: its values, column after column.
RowValues ==
  Fragments(Columns,
    [c \in Columns |-> [i \in Nat |-> BindValue(ShownCell(request.row, c), i, Options(c, FALSE))]], 1)

ValuesRead(s) == [c \in Columns |-> Assigned(schema.types[c], s.frags[c], s.params)]
NewRow(value) == [c \in Columns |-> CHOOSE v \in value[c] : TRUE]

Insert ==
  LET value == ValuesRead(RowValues)
  IN  /\ stage = "looked" /\ request.op = "insert"
      /\ \E free \in Id \ Rowset(table) :
           IF \E c \in Columns : value[c] = {} THEN Finish(Failed("value"), table)
           ELSE Finish(Done({free}, {}), [table EXCEPT ![free] = NewRow(value)])

\* fetch_blob_bytes: the first row the predicate names, if its cell is bytes.
FetchBlob ==
  LET where == PkPredicate(PkMap, types, 1)
      hit == Named(where.frags, where.params)
  IN  /\ stage = "looked" /\ request.op = "fetch"
      /\ IF Broken(where.frags, where.params) \/ hit = {} THEN Finish(Failed("key"), table)
         ELSE \E i \in hit :
                Finish(IF table[i][request.col] = NULL \/ schema.types[request.col] # "bytea"
                         THEN Failed("value") ELSE Done({i}, {table[i][request.col]}), table)

\* get_column_types_map, get_enum_column_types, get_hstore_oid_for_column: each may
\* fail, and the handler goes on without.
LookUp ==
  /\ stage = "asked"
  /\ stage' = "looked"
  /\ types' \in {schema.types, [c \in Columns |-> NoType]}
  /\ enums' \in BOOLEAN
  /\ UNCHANGED <<schema, table, seen, request, result, writes>>

\* insert_record, update_record, delete_record, fetch_blob_as_data_url and
\* save_blob_to_file: a cell's new value is one shown in its column or typed in.
Ask ==
  /\ stage = "idle"
  /\ stage' = "asked"
  /\ \E i \in Rowset(seen), c \in Columns :
       \/ \E op \in {"delete", "insert", "fetch"} :
            request' = [op |-> op, row |-> i, col |-> c, json |-> Null, shows |-> {}]
       \/ \E j \in Rowset(seen) :
            request' = [op |-> "update", row |-> i, col |-> c, json |-> ShownCell(j, c), shows |-> {seen[j][c]}]
       \/ \E text \in Typed :
            request' = [op |-> "update", row |-> i, col |-> c, json |-> <<"string", text>>, shows |-> {}]
  /\ UNCHANGED <<schema, table, seen, types, enums, result, writes>>

\* Another session writes one cell, or deletes a row.
OtherWrites ==
  /\ stage # "done"
  /\ writes < MaxWrites
  /\ writes' = writes + 1
  /\ \E i \in Rowset(table) :
       \/ table' = [table EXCEPT ![i] = Gone]
       \/ \E c \in Columns : \E v \in Stored(schema.types[c]) : table' = [table EXCEPT ![i][c] = v]
  /\ KeysHold(table')
  /\ UNCHANGED <<schema, seen, stage, request, types, enums, result>>

\* The grid has loaded a table of all identities but one.
Init ==
  /\ schema \in Schema
  /\ \E gone \in Id :
       \E rows \in [Id \ {gone} -> {r \in [Columns -> UNION {Stored(schema.types[c]) : c \in Columns}] :
                                      \A c \in Columns : r[c] \in Stored(schema.types[c])}] :
         table = [i \in Id |-> IF i = gone THEN Gone ELSE rows[i]]
  /\ KeysHold(table)
  /\ seen = table
  /\ stage = "idle"
  /\ request = [op |-> "none", row |-> NULL, col |-> NULL,
                json |-> Null, shows |-> {}]
  /\ types = schema.types
  /\ enums = TRUE
  /\ result = Done({}, {})
  /\ writes = 0

Next == Ask \/ LookUp \/ Update \/ Delete \/ Insert \/ FetchBlob \/ OtherWrites
Spec == Init /\ [][Next]_vars

-----------------------------------------------------------------------------
(* Properties. *)

\* Whether what is shown of a value reads back as that value and as no other.
Exact(type, v) == v = NULL \/ (Show(type, v) # Null /\ Reading(type, Show(type, v)[2]) = {v})

Executes == stage = "looked" /\ stage' = "done"
AsSeen(i) == table[i] = seen[i]

\* A row is written or read only if its key is the one the grid showed for the row
\* that was asked for, in every column whose shown value is exact.
OnlyNamedRow ==
  [][Executes /\ request.op # "insert" =>
       \A i \in result'.hit, c \in schema.keys :
         Exact(schema.types[c], seen[request.row][c]) => table[i][c] = seen[request.row][c]]_vars

\* build_pk_map_predicate "identifies one row by primary key" (binding.rs:693): no row
\* of a keyed table is touched but the one asked for, when that one is as it was shown.
IdentifiesOneRow ==
  [][Executes /\ request.op # "insert" /\ schema.keyed /\ AsSeen(request.row) =>
       result'.hit \subseteq {request.row}]_vars

\* Types whose shown form a predicate compares with the column.
KeyTypes == NumericTypes \cup TemporalTypes \cup {"text", "uuid", "boolean"}

\* A row that is still as it was shown is found: deleting it deletes it, and an
\* update that is accepted changes it, when its key has a usable type and is shown
\* exactly, and the column types were loaded.
StillFound ==
  [][Executes /\ AsSeen(request.row) /\ types = schema.types
       /\ (\A c \in schema.keys : /\ schema.types[c] \in KeyTypes
                                  /\ Exact(schema.types[c], seen[request.row][c])) =>
       /\ request.op = "delete" => request.row \in result'.hit
       /\ request.op = "update" /\ result'.error = "none" => request.row \in result'.hit]_vars

\* What is bound as something else though all is loaded: a text or a label in the shape
\* of it, a jsonb string, which goes the way of texts, and an array without a number,
\* whose ARRAY[...] is one of texts.
Disguised(type, v) ==
  LET looks == Looks[Show(type, v)[2]]
  IN  /\ v # NULL
      /\ \/ type = "text" /\ looks \cap {"sentinel", "blob", "function", "wkt", "uuid", "array"} # {}
         \/ type = "mood" /\ looks \cap {"sentinel", "blob"} # {}
         \/ type = "jsonb" /\ Show(type, v)[1] = "string"
         \/ type = "integer[]" /\ looks \cap {"numbers", "empty"} = {}

\* What is bound as something else when the types or the enums are not loaded: a label
\* like a call or an empty array, and an empty jsonb array, which becomes an empty object.
Guessed(type, v) ==
  LET looks == Looks[Show(type, v)[2]]
  IN  /\ v # NULL
      /\ \/ type = "mood" /\ looks \cap {"function", "empty"} # {}
         \/ type = "jsonb" /\ Show(type, v)[1] = "array" /\ "empty" \in looks

AllLoaded == types = schema.types /\ enums
Faithful(c, v) == /\ Exact(schema.types[c], v) /\ ~Disguised(schema.types[c], v)
                  /\ AllLoaded \/ ~Guessed(schema.types[c], v)

\* Saving a cell as it is shown, or inserting a copy of a row, stores the values
\* themselves, where they are shown exactly and are not bound as something else; they
\* are refused only when the types or the enums could not be loaded.
CopiesValue ==
  [][Executes /\ request.op \in {"update", "insert"} =>
       LET copied == IF request.op = "update" THEN {<<request.col, v>> : v \in request.shows}
                     ELSE {<<c, seen[request.row][c]>> : c \in Columns}
       IN  /\ \A i \in result'.hit, x \in copied : Faithful(x[1], x[2]) => table'[i][x[1]] = x[2]
           /\ copied # {} /\ (\A x \in copied : Faithful(x[1], x[2])) /\ AllLoaded
                => result'.error # "value"]_vars
=============================================================================
