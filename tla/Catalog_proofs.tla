-------------------------- MODULE Catalog_proofs ---------------------------
(* Catalog's readers tell what was true, drop_routine drops what was looked up, and the *)
(* builders' statements make what was asked.                                            *)
EXTENDS Catalog, FiniteSetTheorems, SequenceTheorems, TLAPS

Open == {"first", "columns", "fks", "parameters", "routines", "drop"}
Ended == {"replied", "error", "refused"}

-----------------------------------------------------------------------------
(* What a step does to the request. *)

IsRequest(q) ==
  q = [pc |-> q.pc, op |-> q.op, name |-> q.name, arg |-> q.arg, got |-> q.got, todo |-> q.todo,
       result |-> q.result]

\* The request is still the one the host made.
SameAsked == req'.op = req.op /\ req'.name = req.name /\ req'.arg = req.arg

\* Going on keeps what was read; nothing else changes.
LEMMA GoesEffect ==
  ASSUME NEW pc, NEW got, IsRequest(req), Goes(pc, got)
  PROVE  IsRequest(req') /\ SameAsked /\ req'.pc = pc /\ req'.got = got
  BY DEF IsRequest, SameAsked, Goes

\* A reply holds the result.
LEMMA RepliesEffect ==
  ASSUME NEW result, IsRequest(req), Replies(result)
  PROVE  IsRequest(req') /\ SameAsked /\ req'.pc = "replied" /\ req'.result = <<result>>
  BY DEF IsRequest, SameAsked, Replies

\* An error ends the request.
LEMMA ErrsEffect ==
  ASSUME IsRequest(req), Errs
  PROVE  IsRequest(req') /\ SameAsked /\ req'.pc = "error"
  BY DEF IsRequest, SameAsked, Errs

-----------------------------------------------------------------------------
(* The kinds of step. *)

\* The host asks.
Asks ==
  /\ req.pc = "idle" /\ req'.pc = "first"
  /\ past' = <<schema>> /\ schema' = schema

\* The request ends without a reply that tells what was read.
Ends ==
  /\ req.pc \in Open \cup {"running"} /\ SameAsked
  /\ \/ req'.pc \in {"error", "refused"}
     \/ /\ req'.pc = "replied"
        /\ req.op \notin {"get_schema_snapshot", "get_table_ddl", "get_routine_parameters"}
  /\ past' = past

\* The host has statements to run.
Runs ==
  /\ req.pc \in {"first", "running"} /\ req'.pc = "running" /\ SameAsked
  /\ past' = past

\* A request of several queries makes one of them.
Reads == ReadTables \/ ReadColumns \/ ReadReturnValue \/ ReadVersion
Decides == EnsureBaseTable \/ LookUpRoutine
Tells == ReadForeignKeys \/ ReadTableColumns \/ ReadParameters

\* Every step is of one of these kinds.
LEMMA StepKinds ==
  ASSUME IsRequest(req), Next
  PROVE  /\ IsRequest(req')
         /\ Asks \/ Ends \/ Runs \/ Reads \/ Decides \/ Tells \/ OthersChange
<1>1. CASE Ask
  BY <1>1 DEF Ask, Asks, IsRequest
<1>2. CASE ReadOnce
  BY <1>2, RepliesEffect DEF ReadOnce, OneRead, Ends, Open
<1>3. CASE ReadRoutineDefinition
  BY <1>3, RepliesEffect, ErrsEffect DEF ReadRoutineDefinition, At, Ends, Open
<1>4. CASE Reads
  BY <1>4, GoesEffect DEF Reads, ReadTables, ReadColumns, ReadReturnValue, ReadVersion
<1>5. CASE Decides
  BY <1>5, GoesEffect, ErrsEffect DEF Decides, EnsureBaseTable, LookUpRoutine
<1>6. CASE Tells
  BY <1>6, RepliesEffect, ErrsEffect DEF Tells, ReadForeignKeys, ReadTableColumns, ReadParameters
<1>7. CASE ReadRoutines
  BY <1>7, RepliesEffect, ErrsEffect DEF ReadRoutines, At, Ends, Open
<1>8. CASE DropRoutine
  BY <1>8, RepliesEffect, ErrsEffect DEF DropRoutine, At, Ends, Open
<1>9. CASE Change
  BY <1>9, RepliesEffect, ErrsEffect DEF Change, OneChange, Ends, Open
<1>10. CASE Build
  BY <1>10, ErrsEffect DEF Build, Ends, Runs, Open, IsRequest, SameAsked
<1>11. CASE HostRuns
  BY <1>11 DEF HostRuns, Ends, Runs, Open, IsRequest, SameAsked
<1>12. CASE QueryFails
  BY <1>12, ErrsEffect DEF QueryFails, Ends, Open
<1>13. CASE OthersChange
  BY <1>13 DEF OthersChange
<1>14. QED
  BY <1>1, <1>2, <1>3, <1>4, <1>5, <1>6, <1>7, <1>8, <1>9, <1>10, <1>11, <1>12, <1>13
     DEF Next, Reads, Decides, Tells

-----------------------------------------------------------------------------
(* What the request has seen. *)

\* While it may still read, the schema is the last of what it has been.
Lived ==
  /\ past \in Seq(Schema)
  /\ req.pc = "idle" => schema \in Schema
  /\ req.pc # "idle" => past # <<>>
  /\ req.pc \in Open => schema = past[Len(past)]

\* What the request has read was so at some moment, the later reading not the earlier.
SawTables ==
  At("get_schema_snapshot", "columns") => \E i \in Moments : req.got = <<Tables(past[i])>>
SawColumns ==
  At("get_schema_snapshot", "fks") =>
    \E i \in Moments, j \in Moments : i <= j /\ req.got = <<Tables(past[i]), AllColumns(past[j])>>
SawBaseTable ==
  At("get_table_ddl", "columns") => \E i \in Moments : req.name \in OfKind(past[i], BaseTables)
SawResult ==
  At("get_routine_parameters", "parameters") => \E i \in Moments : req.got \in ReturnValues(past[i], req.name)
SawRoutine ==
  At("drop_routine", "drop") =>
    \E i \in Moments, x \in UNION {Overloads(past[k], req.name) : k \in Moments} :
      Overloads(past[i], req.name) = {x} /\ req.got = <<x.args>>

Saw == SawTables /\ SawColumns /\ SawBaseTable /\ SawResult /\ SawRoutine

\* The last moment is one of them, and the schema is what it was then.
LEMMA Now ==
  ASSUME Lived, req.pc \in Open
  PROVE  /\ Len(past) \in Moments /\ schema = past[Len(past)] /\ schema \in Schema
         /\ \A i \in Moments : i <= Len(past)
  BY DEF Lived, Open, Moments

\* A change by others adds a moment and leaves those before.
LEMMA MomentsStay ==
  ASSUME Lived, OthersChange
  PROVE  /\ Moments \subseteq Moments' /\ \A i \in Moments : past'[i] = past[i]
         /\ past' \in Seq(Schema) /\ past' # <<>> /\ schema' = past'[Len(past')]
         /\ req' = req /\ req.pc # "idle" /\ req.pc # "replied"
<1>1. PICK s \in Schema : schema' = s /\ past' = Append(past, s)
  BY DEF OthersChange
<1>2. past \in Seq(Schema)
  BY DEF Lived
<1>3. QED
  BY <1>1, <1>2 DEF OthersChange, Moments

\* Lived is kept.
LEMMA LivedKept ==
  ASSUME IsRequest(req), Lived, Next
  PROVE  Lived'
<1>1. CASE Asks
  BY <1>1 DEF Asks, Lived, Open
<1>2. CASE Ends \/ Runs
  BY <1>2 DEF Ends, Runs, Lived, Open
<1>3. CASE Reads
  BY <1>3, GoesEffect DEF Reads, ReadTables, ReadColumns, ReadReturnValue, ReadVersion, At, Lived, Open
<1>4. CASE Decides
  BY <1>4, GoesEffect, ErrsEffect DEF Decides, EnsureBaseTable, LookUpRoutine, At, Lived, Open
<1>5. CASE Tells
  BY <1>5, RepliesEffect, ErrsEffect DEF Tells, ReadForeignKeys, ReadTableColumns, ReadParameters, At, Lived, Open
<1>6. CASE OthersChange
  BY <1>6, MomentsStay DEF Lived
<1>7. QED
  BY <1>1, <1>2, <1>3, <1>4, <1>5, <1>6, StepKinds

\* A change by others takes nothing back.
LEMMA SawStays ==
  ASSUME Lived, Saw, OthersChange
  PROVE  Saw'
<1> USE MomentsStay
<1>1. SawTables'
  BY DEF Saw, SawTables, At
<1>2. SawColumns'
  BY DEF Saw, SawColumns, At
<1>3. SawBaseTable'
  BY DEF Saw, SawBaseTable, At
<1>4. SawResult'
  BY DEF Saw, SawResult, At
<1>5. SawRoutine'
  BY DEF Saw, SawRoutine, At
<1>6. QED
  BY <1>1, <1>2, <1>3, <1>4, <1>5 DEF Saw

\* The only element of a set of one.
LEMMA OnlyOne ==
  ASSUME NEW S, IsFiniteSet(S), Cardinality(S) = 1
  PROVE  \E x \in S : S = {x}
  BY FS_Singleton

\* The overloads of a name are finitely many.
LEMMA FiniteOverloads ==
  ASSUME NEW s \in Schema, NEW name
  PROVE  IsFiniteSet(Overloads(s, name)) /\ IsFiniteSet(Listable(s, name))
  BY SchemaAssumption, FS_Subset DEF Overloads, Listable

\* What is appended to one thing is the second of two.
LEMMA AppendOne ==
  ASSUME NEW a, NEW b
  PROVE  Append(<<a>>, b) = <<a, b>>
<1> DEFINE S == {a, b}
<1>1. <<a>> \in Seq(S) /\ Len(<<a>>) = 1 /\ <<a>>[1] = a /\ b \in S
  OBVIOUS
<1>2. <<a, b>> \in Seq(S) /\ Len(<<a, b>>) = 2 /\ <<a, b>>[1] = a /\ <<a, b>>[2] = b
  OBVIOUS
<1> HIDE DEF S
<1>3. /\ Append(<<a>>, b) \in Seq(S) /\ Len(Append(<<a>>, b)) = 2
      /\ Append(<<a>>, b)[1] = a /\ Append(<<a>>, b)[2] = b
  <2>1. /\ Append(<<a>>, b) \in Seq(S) /\ Len(Append(<<a>>, b)) = Len(<<a>>) + 1
        /\ \A i \in 1 .. Len(<<a>>) : Append(<<a>>, b)[i] = <<a>>[i]
        /\ Append(<<a>>, b)[Len(<<a>>) + 1] = b
    BY <1>1, AppendProperties
  <2>2. QED
    BY <1>1, <2>1
<1>4. \A i \in 1 .. Len(Append(<<a>>, b)) : Append(<<a>>, b)[i] = <<a, b>>[i]
  BY <1>2, <1>3
<1>5. QED
  BY <1>2, <1>3, <1>4, SeqEqual

\* A step that goes on has read what it says.
LEMMA ReadsSaw ==
  ASSUME IsRequest(req), Lived, Saw, Reads
  PROVE  Saw'
<1> DEFINE last == Len(past)
<1>1. CASE ReadTables
  <2>1. /\ req'.pc = "columns" /\ req'.op = "get_schema_snapshot" /\ req'.got = <<Tables(schema)>> /\ past' = past
        /\ req.pc \in Open
    BY <1>1, GoesEffect DEF ReadTables, At, SameAsked, Open
  <2>2. SawTables'
    BY <2>1, Now DEF SawTables, Moments
  <2>3. QED
    BY <2>1, <2>2 DEF Saw, SawColumns, SawBaseTable, SawResult, SawRoutine, At
<1>2. CASE ReadColumns
  <2>1. /\ req'.pc = "fks" /\ req'.op = "get_schema_snapshot" /\ req'.got = Append(req.got, AllColumns(schema))
        /\ past' = past /\ req.pc \in Open
    BY <1>2, GoesEffect DEF ReadColumns, At, SameAsked, Open
  <2>2. PICK i \in Moments : req.got = <<Tables(past[i])>>
    BY <1>2 DEF ReadColumns, Saw, SawTables
  <2>3. req'.got = <<Tables(past[i]), AllColumns(past[last])>>
    BY <2>1, <2>2, Now, AppendOne
  <2>4. i <= last /\ last \in Moments
    BY <2>1, Now
  <2>5. SawColumns'
    BY <2>1, <2>3, <2>4 DEF SawColumns, Moments
  <2>6. QED
    BY <2>1, <2>5 DEF Saw, SawTables, SawBaseTable, SawResult, SawRoutine, At
<1>3. CASE ReadReturnValue
  <2>1. /\ req'.pc = "parameters" /\ req'.op = "get_routine_parameters" /\ past' = past /\ req.pc \in Open
        /\ req'.got \in ReturnValues(schema, req.name) /\ req'.name = req.name
    BY <1>3, GoesEffect DEF ReadReturnValue, At, SameAsked, Open
  <2>2. SawResult'
    BY <2>1, Now DEF SawResult, Moments
  <2>3. QED
    BY <2>1, <2>2 DEF Saw, SawTables, SawColumns, SawBaseTable, SawRoutine, At
<1>4. CASE ReadVersion
  <2>1. req'.pc = "routines"
    BY <1>4, GoesEffect DEF ReadVersion
  <2>2. QED
    BY <2>1 DEF Saw, SawTables, SawColumns, SawBaseTable, SawResult, SawRoutine, At
<1>5. QED
  BY <1>1, <1>2, <1>3, <1>4 DEF Reads

\* A step that looks before it goes on has seen what it looked for.
LEMMA DecidesSaw ==
  ASSUME IsRequest(req), Lived, Saw, Decides
  PROVE  Saw'
<1>1. CASE req'.pc = "error"
  BY <1>1 DEF Saw, SawTables, SawColumns, SawBaseTable, SawResult, SawRoutine, At
<1>2. CASE EnsureBaseTable /\ req'.pc # "error"
  <2>1. /\ req'.pc = "columns" /\ req'.op = "get_table_ddl" /\ req'.name = req.name /\ past' = past
        /\ req.name \in OfKind(schema, BaseTables) /\ req.pc \in Open
    BY <1>2, GoesEffect, ErrsEffect DEF EnsureBaseTable, At, SameAsked, Open
  <2>2. SawBaseTable'
    BY <2>1, Now DEF SawBaseTable, Moments
  <2>3. QED
    BY <2>1, <2>2 DEF Saw, SawTables, SawColumns, SawResult, SawRoutine, At
<1>3. CASE LookUpRoutine /\ req'.pc # "error"
  <2> DEFINE found == Overloads(schema, req.name)
  <2>1. /\ req'.pc = "drop" /\ req'.op = "drop_routine" /\ req'.name = req.name /\ past' = past
        /\ Cardinality(found) = 1 /\ req'.got = <<(CHOOSE x \in found : TRUE).args>> /\ req.pc \in Open
    BY <1>3, GoesEffect, ErrsEffect DEF LookUpRoutine, At, SameAsked, Open
  <2>2. IsFiniteSet(found)
    BY <2>1, Now, FiniteOverloads
  <2>3. PICK x \in found : found = {x}
    BY <2>1, <2>2, OnlyOne
  <2>4. req'.got = <<x.args>>
    BY <2>1, <2>3
  <2>5. SawRoutine'
    BY <2>1, <2>3, <2>4, Now DEF SawRoutine, Moments
  <2>6. QED
    BY <2>1, <2>5 DEF Saw, SawTables, SawColumns, SawBaseTable, SawResult, At
<1>4. QED
  BY <1>1, <1>2, <1>3 DEF Decides

\* Saw is kept.
LEMMA SawKept ==
  ASSUME IsRequest(req), Lived, Saw, Next
  PROVE  Saw'
<1>1. CASE Asks \/ Ends \/ Runs
  BY <1>1 DEF Asks, Ends, Runs, Saw, SawTables, SawColumns, SawBaseTable, SawResult, SawRoutine, At
<1>2. CASE Tells
  <2>1. req'.pc \in {"replied", "error"}
    BY <1>2, RepliesEffect, ErrsEffect DEF Tells, ReadForeignKeys, ReadTableColumns, ReadParameters
  <2>2. QED
    BY <2>1 DEF Saw, SawTables, SawColumns, SawBaseTable, SawResult, SawRoutine, At
<1>3. QED
  BY <1>1, <1>2, StepKinds, ReadsSaw, DecidesSaw, SawStays

-----------------------------------------------------------------------------
(* What it replies. *)

\* Grouped by table, the columns and the keys are what the readers of one table say.
LEMMA Grouped ==
  ASSUME NEW tables, NEW s, NEW u
  PROVE  LET reply == SchemaSnapshot(tables, AllColumns(s), AllForeignKeys(u))
         IN  /\ DOMAIN reply = tables
             /\ \A t \in tables : reply[t].columns = ColumnsOf(s, t) /\ reply[t].foreign_keys = ForeignKeys(u, t)
<1> DEFINE columns == AllColumns(s)
           fks == AllForeignKeys(u)
<1>1. \A t : (IF t \in DOMAIN columns THEN columns[t] ELSE <<>>) = ColumnsOf(s, t)
  BY DEF AllColumns, ColumnsOf
<1>2. \A t : (IF t \in DOMAIN fks THEN fks[t] ELSE {}) = ForeignKeys(u, t)
  BY DEF AllForeignKeys, ForeignKeys
<1> HIDE DEF columns, fks
<1>3. QED
  BY <1>1, <1>2 DEF SchemaSnapshot, columns, fks

\* The snapshot told is true.
LEMMA SnapshotTold ==
  ASSUME IsRequest(req), Lived, SawColumns, ReadForeignKeys
  PROVE  \E reply : req'.result = <<reply>> /\ SnapshotTrue(reply)
<1>1. req.pc \in Open /\ At("get_schema_snapshot", "fks")
  BY DEF ReadForeignKeys, At, Open
<1>2. PICK i \in Moments, j \in Moments : i <= j /\ req.got = <<Tables(past[i]), AllColumns(past[j])>>
  BY <1>1 DEF SawColumns
<1> DEFINE k == Len(past)
           reply == SchemaSnapshot(Tables(past[i]), AllColumns(past[j]), AllForeignKeys(past[k]))
<1>3. k \in Moments /\ schema = past[k] /\ j <= k
  BY <1>1, Now
<1>4. req'.result = <<reply>>
  BY <1>2, <1>3, RepliesEffect DEF ReadForeignKeys
<1>5. /\ DOMAIN reply = Tables(past[i])
      /\ \A t \in DOMAIN reply : /\ reply[t].columns = ColumnsOf(past[j], t)
                                 /\ reply[t].foreign_keys = ForeignKeys(past[k], t)
  BY Grouped
<1> HIDE DEF reply
<1>6. SnapshotTrue(reply)
  BY <1>2, <1>3, <1>5 DEF SnapshotTrue
<1>7. QED
  BY <1>4, <1>6

\* The result and the parameters told are those of the only routine of the name.
LEMMA ParametersTold ==
  ASSUME IsRequest(req), Lived, SawResult, ReadParameters
  PROVE  \E reply : req'.result = <<reply>> /\ ParametersTrue(reply)
<1>1. req.pc \in Open /\ At("get_routine_parameters", "parameters")
  BY DEF ReadParameters, At, Open
<1> DEFINE reply == [returned |-> req.got, parameters |-> Parameters(schema, req.name)]
<1>2. req'.result = <<reply>>
  BY RepliesEffect DEF ReadParameters
<1>3. ASSUME Quiet, Cardinality(Listable(From, req.name)) = 1
      PROVE  \E x \in Listable(From, req.name) :
               /\ reply.parameters = {<<k, x.args[k]>> : k \in DOMAIN x.args}
               /\ reply.returned = <<>> <=> x.kind = "p" \/ x.result \in {"VOID", "TRIGGER"}
  <2>1. schema = From /\ From \in Schema /\ req.got \in ReturnValues(From, req.name)
    BY <1>1, <1>3, Now DEF SawResult, Quiet, From, Moments, Lived
  <2>2. PICK x \in Listable(From, req.name) : Listable(From, req.name) = {x}
    BY <1>3, <2>1, FiniteOverloads, OnlyOne
  <2>3. Parameters(schema, req.name) = {<<k, x.args[k]>> : k \in DOMAIN x.args}
    BY <2>1, <2>2 DEF Parameters
  <2>4. req.got = IF x.kind # "p" /\ x.result \notin {"VOID", "TRIGGER"} THEN <<x.result>> ELSE <<>>
    BY <2>1, <2>2 DEF ReturnValues
  <2>5. QED
    BY <2>3, <2>4
<1> HIDE DEF reply
<1>4. ParametersTrue(reply)
  BY <1>3 DEF ParametersTrue
<1>5. QED
  BY <1>2, <1>4

-----------------------------------------------------------------------------
(* What a statement makes. *)

IsSchema(s) == s = [objects |-> s.objects, routines |-> s.routines]
Put(s, table, o) == [s EXCEPT !.objects = With(@, table, o)]

\* An object put is there, and the others are as they were.
LEMMA PutEffect ==
  ASSUME NEW s, IsSchema(s), NEW table, NEW o
  PROVE  /\ IsSchema(Put(s, table, o)) /\ Put(s, table, o).routines = s.routines
         /\ DOMAIN Put(s, table, o).objects = DOMAIN s.objects \cup {table}
         /\ Put(s, table, o).objects[table] = o
         /\ \A t \in DOMAIN s.objects \ {table} : Put(s, table, o).objects[t] = s.objects[t]
<1> DEFINE made == Put(s, table, o)
           objects == With(s.objects, table, o)
<1>1. made = [objects |-> objects, routines |-> s.routines]
  BY DEF IsSchema, Put
<1>2. DOMAIN objects = DOMAIN s.objects \cup {table} /\ objects[table] = o
  BY DEF With
<1>3. \A t \in DOMAIN s.objects \ {table} : objects[t] = s.objects[t]
  BY DEF With
<1> HIDE DEF objects, made
<1>4. made.objects = objects /\ made.routines = s.routines /\ IsSchema(made)
  BY <1>1 DEF IsSchema
<1>5. QED
  BY <1>2, <1>3, <1>4 DEF made

\* It is read back.
LEMMA PutRead ==
  ASSUME NEW s, IsSchema(s), NEW table, NEW o, o.kind \in Listed
  PROVE  ColumnsOf(Put(s, table, o), table) = TableColumns(o)
  BY PutEffect DEF ColumnsOf, OfKind

\* What get_columns reads of a column made from a clause.
MadeAs(clause, pk) ==
  LET serial == Types[clause.type[1]].serial
      auto == serial \/ clause.default = "nextval"
  IN  [name |-> clause.name, data_type |-> Types[Is(clause.type)].shown, is_pk |-> clause.name \in pk,
       is_nullable |-> ~clause.notnull /\ ~serial /\ clause.name \notin pk,
       is_auto_increment |-> auto, default_value |-> DefaultValue(clause.default, auto)]

\* It is so read.
LEMMA MadeColumn ==
  ASSUME NEW o, NEW clause
  PROVE  TableColumn(o, Column(clause, o.pk)) = MadeAs(clause, o.pk)
<1> DEFINE serial == Types[clause.type[1]].serial
           c == Column(clause, o.pk)
<1>1. /\ c.name = clause.name /\ c.type[1] = Is(clause.type)
      /\ c.null = (~clause.notnull /\ ~serial /\ clause.name \notin o.pk)
      /\ c.default = (IF serial THEN "nextval" ELSE clause.default) /\ c.identity = FALSE
  BY DEF Column
<1>2. (c.identity \/ c.default = "nextval") = (serial \/ clause.default = "nextval")
  BY <1>1
<1>3. DefaultValue(c.default, c.identity \/ c.default = "nextval")
        = DefaultValue(clause.default, serial \/ clause.default = "nextval")
  BY <1>1 DEF DefaultValue
<1> HIDE DEF c
<1>4. QED
  BY <1>1, <1>2, <1>3 DEF TableColumn, MadeAs, c

\* What CREATE TABLE makes of clauses the server accepts.
LEMMA CreateEffect ==
  ASSUME NEW s, IsSchema(s), NEW q, NEW table, q.do = "create_table", q.table = table,
         table \notin DOMAIN s.objects
  PROVE  /\ ~(IsInjective(Names(q.columns)) /\ \A c \in Range(q.columns) : Accepts(c)) => Exec(s, q) = {}
         /\ IsInjective(Names(q.columns)) /\ (\A c \in Range(q.columns) : Accepts(c)) =>
              \E made : /\ Exec(s, q) = {made}
                        /\ ColumnsOf(made, table) = [k \in DOMAIN q.columns |-> MadeAs(q.columns[k], q.pk)]
                        /\ \A t \in DOMAIN s.objects \ {table} : made.objects[t] = s.objects[t]
<1> DEFINE o == Object("table", [k \in DOMAIN q.columns |-> Column(q.columns[k], q.pk)], q.pk, "")
           accepts == IsInjective(Names(q.columns)) /\ \A c \in Range(q.columns) : Accepts(c)
<1>1. Exec(s, q) = IF accepts THEN {Put(s, table, o)} ELSE {}
  BY DEF Exec, Put
<1>2. o.kind \in Listed /\ o.pk = q.pk /\ o.columns = [k \in DOMAIN q.columns |-> Column(q.columns[k], o.pk)]
  BY DEF Object, Listed
<1> HIDE DEF o
<1>3. TableColumns(o) = [k \in DOMAIN q.columns |-> MadeAs(q.columns[k], q.pk)]
  <2>1. ASSUME NEW k \in DOMAIN q.columns
        PROVE  k \in DOMAIN o.columns /\ TableColumn(o, o.columns[k]) = MadeAs(q.columns[k], q.pk)
    BY <1>2, MadeColumn
  <2>2. DOMAIN o.columns = DOMAIN q.columns
    BY <1>2
  <2>3. QED
    BY <2>1, <2>2 DEF TableColumns
<1>4. QED
  <2>1. CASE ~accepts
    BY <1>1, <2>1
  <2>2. CASE accepts
    <3> DEFINE made == Put(s, table, o)
    <3>1. Exec(s, q) = {made}
      BY <1>1, <2>2
    <3>2. ColumnsOf(made, table) = TableColumns(o)
      BY <1>2, PutRead
    <3>3. \A t \in DOMAIN s.objects \ {table} : made.objects[t] = s.objects[t]
      BY PutEffect
    <3>4. QED
      BY <1>3, <2>2, <3>1, <3>2, <3>3
  <2>3. QED
    BY <2>1, <2>2

-----------------------------------------------------------------------------
(* The dump of a table makes the table. *)

\* A name the server takes for a type shown makes a column that is shown so, and no serial.
LEMMA ShownAgain ==
  ASSUME NEW n \in DOMAIN Types, Types[n].shown[1] \in DOMAIN Types
  PROVE  LET shown == Types[n].shown IN ~Types[shown[1]].serial /\ Types[Is(shown)].shown = shown
  BY TypesAssumption DEF Is

\* A table's dump, run on an empty schema, makes a table that reads as the one dumped.
LEMMA Dumped ==
  ASSUME NEW o, IsObject(o), Plain(o), NEW table
  PROVE  \E made \in Exec([objects |-> <<>>, routines |-> {}], TableDdl(table, TableColumns(o))[1]) :
           Bare(ColumnsOf(made, table)) = Bare(TableColumns(o))
<1> DEFINE empty == [objects |-> <<>>, routines |-> {}]
           clause(c) == [name |-> c.name, type |-> c.data_type, notnull |-> ~c.is_nullable, default |-> None]
           read == TableColumns(o)
           column(k) == o.columns[k]
           q == TableDdl(table, read)[1]
           K == DOMAIN o.columns
<1>1. /\ q.do = "create_table" /\ q.table = table /\ q.pk = Pk(read)
      /\ q.columns = [k \in DOMAIN read |-> clause(read[k])]
  BY DEF TableDdl
<1>2. DOMAIN read = K /\ \A k \in K : read[k] = TableColumn(o, column(k))
  BY DEF TableColumns
<1> HIDE DEF read, q, K
<1>3. DOMAIN q.columns = K /\ \A k \in K : q.columns[k] = clause(TableColumn(o, column(k)))
  BY <1>1, <1>2
<1>4. ASSUME NEW k \in K
      PROVE  LET c == clause(TableColumn(o, column(k)))
             IN  /\ c.name = column(k).name /\ c.type = Types[column(k).type[1]].shown
                 /\ c.notnull = ~column(k).null /\ c.default = None
  BY DEF TableColumn
<1>5. ASSUME NEW k \in K
      PROVE  /\ column(k).type[1] \in DOMAIN Types /\ column(k).null \in BOOLEAN
             /\ Types[column(k).type[1]].shown[1] \in DOMAIN Types
             /\ column(k).name \in o.pk => ~column(k).null
  BY DEF IsObject, IsColumn, Known, Plain, Range, K
<1> HIDE DEF clause
<1>6. ASSUME NEW k \in K
      PROVE  column(k).name \in q.pk <=> column(k).name \in o.pk
  <2>1. q.pk = {d.name : d \in {c \in Range(read) : c.is_pk}}
    BY <1>1 DEF Pk
  <2>2. ASSUME NEW j \in K
        PROVE  read[j].name = column(j).name /\ (read[j].is_pk <=> column(j).name \in o.pk)
    <3>1. read[j].name = column(j).name /\ read[j].is_pk = (column(j).name \in o.pk)
      BY <1>2 DEF TableColumn
    <3>2. QED
      BY <3>1
  <2>3. QED
    BY <1>2, <2>1, <2>2 DEF Range
<1>7. IsInjective(Names(q.columns))
  <2>1. \A j \in K : Names(q.columns)[j] = column(j).name /\ Names(o.columns)[j] = column(j).name
    BY <1>3, <1>4 DEF Names, K
  <2>2. DOMAIN Names(q.columns) = K /\ DOMAIN Names(o.columns) = K
    BY <1>3 DEF Names, K
  <2>3. IsInjective(Names(o.columns))
    BY DEF IsObject
  <2>4. QED
    BY <2>1, <2>2, <2>3 DEF IsInjective
<1>8. \A c \in Range(q.columns) : Accepts(c)
  <2>1. ASSUME NEW k \in K
        PROVE  Accepts(q.columns[k])
    BY <1>3, <1>4, <1>5, ShownAgain DEF Accepts, Known
  <2>2. QED
    BY <1>3, <2>1 DEF Range
<1>9. IsSchema(empty) /\ table \notin DOMAIN empty.objects
  BY DEF IsSchema
<1>10. PICK made : /\ Exec(empty, q) = {made}
                   /\ ColumnsOf(made, table) = [k \in DOMAIN q.columns |-> MadeAs(q.columns[k], q.pk)]
  BY <1>1, <1>7, <1>8, <1>9, CreateEffect
<1>11. ASSUME NEW k \in K
       PROVE  LET made_k == MadeAs(q.columns[k], q.pk)
              IN  /\ made_k.name = read[k].name /\ made_k.data_type = read[k].data_type
                  /\ made_k.is_pk = read[k].is_pk /\ made_k.is_nullable = read[k].is_nullable
  <2> DEFINE c == q.columns[k]
             m == MadeAs(c, q.pk)
             serial == Types[c.type[1]].serial
  <2>1. /\ m.name = c.name /\ m.data_type = Types[Is(c.type)].shown /\ m.is_pk = (c.name \in q.pk)
        /\ m.is_nullable = (~c.notnull /\ ~serial /\ c.name \notin q.pk)
    BY DEF MadeAs
  <2>2. /\ c.name = column(k).name /\ c.type = Types[column(k).type[1]].shown /\ c.notnull = ~column(k).null
    BY <1>3, <1>4
  <2>3. ~serial /\ Types[Is(c.type)].shown = c.type
    BY <1>5, <2>2, ShownAgain
  <2>4. /\ read[k].name = column(k).name /\ read[k].data_type = Types[column(k).type[1]].shown
        /\ read[k].is_pk = (column(k).name \in o.pk) /\ read[k].is_nullable = column(k).null
    BY <1>2 DEF TableColumn
  <2> HIDE DEF m, c, serial
  <2>5. m.is_pk = read[k].is_pk
    BY <1>6, <2>1, <2>2, <2>4
  <2>6. m.is_nullable = read[k].is_nullable
    BY <1>5, <1>6, <2>1, <2>2, <2>3, <2>4
  <2>7. QED
    BY <2>1, <2>2, <2>3, <2>4, <2>5, <2>6 DEF m, c
<1>12. Bare(ColumnsOf(made, table)) = Bare(read)
  <2>1. DOMAIN ColumnsOf(made, table) = K /\ \A k \in K : ColumnsOf(made, table)[k] = MadeAs(q.columns[k], q.pk)
    BY <1>1, <1>3, <1>10
  <2>2. QED
    BY <1>2, <1>11, <2>1 DEF Bare
<1>13. QED
  BY <1>10, <1>12 DEF q, read

\* The dump told makes the table that was read.
LEMMA DdlTold ==
  ASSUME IsRequest(req), Lived, SawBaseTable, ReadTableColumns, req'.pc = "replied"
  PROVE  \E reply : req'.result = <<reply>> /\ DdlTrue(reply)
<1>1. req.pc \in Open /\ At("get_table_ddl", "columns")
  BY DEF ReadTableColumns, At, Open
<1> DEFINE columns == ColumnsOf(schema, req.name)
           reply == TableDdl(req.name, columns)
           o == schema.objects[req.name]
           j == Len(past)
<1>2. columns # <<>> /\ req'.result = <<reply>>
  BY RepliesEffect, ErrsEffect DEF ReadTableColumns
<1>3. req.name \in OfKind(schema, Listed) /\ columns = TableColumns(o)
  BY <1>2 DEF ColumnsOf
<1>4. IsObject(o)
  BY <1>1, <1>3, Now, SchemaAssumption DEF OfKind
<1>5. PICK i \in Moments : req.name \in OfKind(past[i], BaseTables)
  BY <1>1 DEF SawBaseTable
<1>6. j \in Moments /\ schema = past[j] /\ i <= j
  BY <1>1, Now
<1>7. Plain(o) => LET made == Exec([objects |-> <<>>, routines |-> {}], reply[1])
                  IN  \E s \in made : Bare(ColumnsOf(s, req.name)) = Bare(columns)
  BY <1>3, <1>4, Dumped
<1> HIDE DEF reply
<1>8. DdlTrue(reply)
  BY <1>3, <1>5, <1>6, <1>7 DEF DdlTrue
<1>9. QED
  BY <1>2, <1>8

-----------------------------------------------------------------------------
(* The theorems of the readers and of drop_routine. *)

\* What a request knows when it answers.
Knows == changes \in Nat /\ IsRequest(req) /\ Lived /\ Saw /\ ReadsTrue

\* A truth told stays told while the moments and the request do.
LEMMA ToldStays ==
  ASSUME past' = past, SameAsked, NEW reply
  PROVE  /\ SnapshotTrue(reply) => SnapshotTrue(reply)'
         /\ DdlTrue(reply) => DdlTrue(reply)'
         /\ ParametersTrue(reply) => ParametersTrue(reply)'
  BY DEF SameAsked, SnapshotTrue, DdlTrue, ParametersTrue, Moments, Quiet, From

\* A reply tells what was true.
LEMMA ReadsTrueKept ==
  ASSUME Knows, Next
  PROVE  ReadsTrue'
<1> USE DEF Knows
<1>1. CASE Asks \/ Ends \/ Runs
  BY <1>1 DEF Asks, Ends, Runs, SameAsked, ReadsTrue
<1>2. CASE Reads
  BY <1>2, GoesEffect DEF Reads, ReadTables, ReadColumns, ReadReturnValue, ReadVersion, ReadsTrue
<1>3. CASE Decides
  BY <1>3, GoesEffect, ErrsEffect DEF Decides, EnsureBaseTable, LookUpRoutine, ReadsTrue
<1>4. CASE OthersChange
  BY <1>4, MomentsStay DEF ReadsTrue
<1>5. CASE ReadForeignKeys
  <2>1. PICK reply : req'.result = <<reply>> /\ SnapshotTrue(reply)
    BY <1>5, SnapshotTold DEF Saw
  <2>2. past' = past /\ SameAsked /\ req'.op = "get_schema_snapshot"
    BY <1>5, RepliesEffect DEF ReadForeignKeys, At, SameAsked
  <2>3. SnapshotTrue(reply)'
    BY <2>1, <2>2, ToldStays
  <2>4. QED
    BY <2>1, <2>2, <2>3 DEF ReadsTrue
<1>6. CASE ReadTableColumns /\ req'.pc = "replied"
  <2>1. PICK reply : req'.result = <<reply>> /\ DdlTrue(reply)
    BY <1>6, DdlTold DEF Saw
  <2>2. past' = past /\ SameAsked /\ req'.op = "get_table_ddl"
    BY <1>6, RepliesEffect, ErrsEffect DEF ReadTableColumns, At, SameAsked
  <2>3. DdlTrue(reply)'
    BY <2>1, <2>2, ToldStays
  <2>4. QED
    BY <2>1, <2>2, <2>3 DEF ReadsTrue
<1>7. CASE ReadParameters
  <2>1. PICK reply : req'.result = <<reply>> /\ ParametersTrue(reply)
    BY <1>7, ParametersTold DEF Saw
  <2>2. past' = past /\ SameAsked /\ req'.op = "get_routine_parameters"
    BY <1>7, RepliesEffect DEF ReadParameters, At, SameAsked
  <2>3. ParametersTrue(reply)'
    BY <2>1, <2>2, ToldStays
  <2>4. QED
    BY <2>1, <2>2, <2>3 DEF ReadsTrue
<1>8. CASE req'.pc # "replied"
  BY <1>8 DEF ReadsTrue
<1>9. QED
  BY <1>1, <1>2, <1>3, <1>4, <1>5, <1>6, <1>7, <1>8, StepKinds DEF Tells

\* Knows is inductive.
LEMMA KnowsInit ==
  ASSUME Init
  PROVE  Knows
  BY DEF Init, Knows, IsRequest, Lived, Saw, SawTables, SawColumns, SawBaseTable, SawResult, SawRoutine, At,
         ReadsTrue, Open

\* Every step keeps it.
LEMMA KnowsInductive ==
  ASSUME Knows, [Next]_vars
  PROVE  Knows'
<1>1. CASE Next
  <2>1. IsRequest(req')
    BY <1>1, StepKinds DEF Knows
  <2>2. Lived'
    BY <1>1, LivedKept DEF Knows
  <2>3. Saw'
    BY <1>1, SawKept DEF Knows
  <2>4. ReadsTrue'
    BY <1>1, ReadsTrueKept
  <2>5. changes' = changes \/ changes' = changes + 1
    BY <1>1
       DEF Next, vars, ReadOnce, ReadRoutineDefinition, ReadTables, ReadColumns, ReadForeignKeys, EnsureBaseTable,
           ReadTableColumns, ReadReturnValue, ReadParameters, ReadVersion, ReadRoutines, LookUpRoutine, Build,
           QueryFails, Ask, Change, HostRuns, DropRoutine, OthersChange
  <2>6. QED
    BY <2>1, <2>2, <2>3, <2>4, <2>5 DEF Knows
<1>2. CASE UNCHANGED vars
  <2>1. changes' \in Nat /\ IsRequest(req') /\ Lived'
    BY <1>2 DEF vars, Knows, Lived
  <2>2. Saw'
    BY <1>2 DEF vars, Knows, Saw, SawTables, SawColumns, SawBaseTable, SawResult, SawRoutine, At, Moments
  <2>3. ReadsTrue'
    <3>1. past' = past /\ SameAsked /\ req' = req
      BY <1>2 DEF vars, SameAsked
    <3>2. QED
      BY <3>1, ToldStays DEF Knows, ReadsTrue
  <2>4. QED
    BY <2>1, <2>2, <2>3 DEF Knows
<1>3. QED
  BY <1>1, <1>2

\* For any schemas, and however often other clients change them between the queries of a
\* request: the snapshot, the dump and the parameters replied tell what was true in its
\* course.
THEOREM RepliesTellTheTruth == Spec => []ReadsTrue
<1>1. Init => Knows
  BY KnowsInit
<1>2. Knows /\ [Next]_vars => Knows'
  BY KnowsInductive
<1>3. Knows => ReadsTrue
  BY DEF Knows
<1>4. QED
  BY <1>1, <1>2, <1>3, PTL DEF Spec

\* The routines a step of drop_routine removes.
LEMMA DropTakes ==
  ASSUME Knows, [Next]_vars, At("drop_routine", "drop"), changes' = changes
  PROVE  \A x \in schema.routines \ schema'.routines :
           /\ x \in Overloads(schema, req.name) /\ (x.kind = "p" <=> req.arg = "PROCEDURE")
           /\ x.args = req.got[1]
<1>1. schema' = schema \/ schema' \in ExecDropRoutine(schema, req.name, req.arg, {req.got[1]})
  <2>1. CASE DropRoutine
    BY <2>1 DEF DropRoutine
  <2>2. CASE Ask \/ Change \/ HostRuns
    BY <2>2 DEF Ask, Change, HostRuns, At, OneChange
  <2>3. CASE OthersChange
    <3>1. changes' = changes + 1 /\ changes < MaxChanges
      BY <2>3 DEF OthersChange
    <3>2. QED
      BY <3>1 DEF Knows
  <2>4. CASE UNCHANGED schema
    BY <2>4
  <2>5. QED
    BY <2>1, <2>2, <2>3, <2>4
       DEF Next, vars, ReadOnce, ReadRoutineDefinition, ReadTables, ReadColumns, ReadForeignKeys, EnsureBaseTable,
           ReadTableColumns, ReadReturnValue, ReadParameters, ReadVersion, ReadRoutines, LookUpRoutine, Build,
           QueryFails
<1>2. IsSchema(schema)
  BY Now, SchemaAssumption DEF Knows, At, Open, IsSchema
<1>3. ASSUME schema' \in ExecDropRoutine(schema, req.name, req.arg, {req.got[1]}),
             NEW x \in schema.routines \ schema'.routines
      PROVE  /\ x \in Overloads(schema, req.name) /\ (x.kind = "p" <=> req.arg = "PROCEDURE")
             /\ x.args = req.got[1]
  <2> DEFINE named == {y \in Overloads(schema, req.name) : /\ y.kind = "p" <=> req.arg = "PROCEDURE"
                                                           /\ y.kind # "a"
                                                           /\ \A args \in {req.got[1]} : y.args = args}
  <2>1. schema' = [schema EXCEPT !.routines = @ \ named]
    BY <1>3 DEF ExecDropRoutine
  <2>2. schema'.routines = schema.routines \ named
    <3> HIDE DEF named
    <3>1. QED
      BY <1>2, <2>1 DEF IsSchema
  <2>3. x \in named
    BY <1>3, <2>2
  <2>4. QED
    BY <2>3
<1>4. QED
  BY <1>1, <1>3

\* For any schemas: drop_routine removes nothing but the routine that was the only one of
\* its name when the request looked, whatever comes and goes between the look and the drop.
THEOREM DropTakesWhatWasNamed == Spec => DropsNamed
<1>1. Knows /\ [Next]_vars =>
        [At("drop_routine", "drop") /\ changes' = changes =>
           \A x \in schema.routines \ schema'.routines :
             /\ x.name = req.name /\ (x.kind = "p" <=> req.arg = "PROCEDURE")
             /\ <<x.args>> = req.got
             /\ \E k \in Moments : {y.args : y \in Overloads(past[k], req.name)} = {x.args}]_vars
  <2> SUFFICES ASSUME Knows, [Next]_vars, At("drop_routine", "drop"), changes' = changes,
                      NEW x \in schema.routines \ schema'.routines
               PROVE  /\ x.name = req.name /\ (x.kind = "p" <=> req.arg = "PROCEDURE")
                      /\ <<x.args>> = req.got
                      /\ \E k \in Moments : {y.args : y \in Overloads(past[k], req.name)} = {x.args}
    OBVIOUS
  <2>1. /\ x \in Overloads(schema, req.name) /\ (x.kind = "p" <=> req.arg = "PROCEDURE")
        /\ x.args = req.got[1]
    BY DropTakes
  <2>2. PICK k \in Moments : \E z : Overloads(past[k], req.name) = {z} /\ req.got = <<z.args>>
    BY DEF Knows, Saw, SawRoutine
  <2>3. PICK z : Overloads(past[k], req.name) = {z} /\ req.got = <<z.args>>
    BY <2>2
  <2>4. x.args = z.args
    BY <2>1, <2>3
  <2>5. {y.args : y \in Overloads(past[k], req.name)} = {x.args}
    BY <2>3, <2>4
  <2>6. QED
    BY <2>1, <2>2, <2>3, <2>4, <2>5 DEF Overloads
<1>2. Init => Knows
  BY KnowsInit
<1>3. Knows /\ [Next]_vars => Knows'
  BY KnowsInductive
<1>4. QED
  BY <1>1, <1>2, <1>3, PTL DEF Spec, DropsNamed

-----------------------------------------------------------------------------
(* The statement built for a new table or a new column makes what was asked. *)

\* Of a definition that says one thing the server accepts the clause if it knows the
\* type, and makes the column defined.
LEMMA ClauseRight ==
  ASSUME NEW c, Coherent(c), NEW pk
  PROVE  /\ Accepts(ColumnClause(c)) <=> Known(c.data_type)
         /\ Known(c.data_type) => MadeAs(ColumnClause(c), pk) = Expected(c, c.name \in pk)
<1> DEFINE clause == ColumnClause(c)
           t == clause.type[1]
           n == c.data_type[1]
<1>1. /\ clause.name = c.name /\ clause.type = ResolveColumnType(c)
      /\ clause.notnull = (~c.is_nullable /\ ~c.is_auto_increment)
      /\ clause.default = (IF c.is_auto_increment THEN None ELSE c.default_value)
  BY DEF ColumnClause
<1> HIDE DEF clause
<1>2. CASE c.is_auto_increment
  <2>1. /\ n \in DOMAIN Types /\ t \in DOMAIN Types /\ Types[t].serial
        /\ Types[Types[t].is].shown = Types[n].shown
    <3>1. n \in {"INTEGER", "SERIAL", "BIGINT", "BIGSERIAL", "SMALLINT", "SMALLSERIAL"}
      BY <1>2 DEF Coherent, Serials
    <3>2. t = IF n \in {"BIGINT", "BIGSERIAL"} THEN "BIGSERIAL"
              ELSE IF n \in {"SMALLINT", "SMALLSERIAL"} THEN "SMALLSERIAL" ELSE "SERIAL"
      <4>1. CASE n \in {"BIGINT", "BIGSERIAL"}
        <5>1. PICK x : ResolveColumnType(c) = <<"BIGSERIAL", x>>
          BY <1>2, <4>1 DEF ResolveColumnType
        <5>2. QED
          BY <1>1, <4>1, <5>1
      <4>2. CASE n \in {"SMALLINT", "SMALLSERIAL"}
        <5>1. PICK x : ResolveColumnType(c) = <<"SMALLSERIAL", x>>
          BY <1>2, <4>2 DEF ResolveColumnType
        <5>2. QED
          BY <1>1, <4>2, <5>1
      <4>3. CASE n \in {"INTEGER", "SERIAL"}
        <5>1. PICK x : ResolveColumnType(c) = <<"SERIAL", x>>
          BY <1>2, <4>3 DEF ResolveColumnType
        <5>2. QED
          BY <1>1, <4>3, <5>1
      <4>4. QED
        BY <3>1, <4>1, <4>2, <4>3
    <3>3. \A p \in Serials : /\ p[1] \in DOMAIN Types /\ p[2] \in DOMAIN Types
                             /\ Types[p[1]].is = p[1] /\ Types[p[2]].is = p[1] /\ Types[p[2]].serial
                             /\ Types[p[1]].shown = Types[p[2]].shown
      BY TypesAssumption
    <3>4. <<"INTEGER", "SERIAL">> \in Serials /\ <<"BIGINT", "BIGSERIAL">> \in Serials
            /\ <<"SMALLINT", "SMALLSERIAL">> \in Serials
      BY DEF Serials
    <3>5. /\ {"INTEGER", "SERIAL", "BIGINT", "BIGSERIAL", "SMALLINT", "SMALLSERIAL"} \subseteq DOMAIN Types
          /\ Types["SERIAL"].is = "INTEGER" /\ Types["SERIAL"].serial
          /\ Types["BIGSERIAL"].is = "BIGINT" /\ Types["BIGSERIAL"].serial
          /\ Types["SMALLSERIAL"].is = "SMALLINT" /\ Types["SMALLSERIAL"].serial
          /\ Types["INTEGER"].shown = Types["SERIAL"].shown /\ Types["BIGINT"].shown = Types["BIGSERIAL"].shown
          /\ Types["SMALLINT"].shown = Types["SMALLSERIAL"].shown
      BY <3>3, <3>4
    <3>6. QED
      BY <3>1, <3>2, <3>5
  <2>2. Accepts(clause) /\ Known(c.data_type)
    BY <1>1, <1>2, <2>1 DEF Accepts, Known
  <2>3. MadeAs(clause, pk) = Expected(c, c.name \in pk)
    BY <1>1, <1>2, <2>1 DEF MadeAs, Expected, Is, DefaultValue
  <2>4. QED
    BY <2>2, <2>3 DEF clause
<1>3. CASE ~c.is_auto_increment
  <2>1. clause.type = c.data_type /\ clause.default = c.default_value
    BY <1>1, <1>3 DEF ResolveColumnType
  <2>2. n \in DOMAIN Types => ~Types[n].serial
    BY <1>3 DEF Coherent
  <2>3. Accepts(clause) <=> Known(c.data_type)
    BY <2>1, <2>2 DEF Accepts, Known
  <2>4. ASSUME Known(c.data_type)
        PROVE  MadeAs(clause, pk) = Expected(c, c.name \in pk)
    <3>1. n \in DOMAIN Types /\ ~Types[n].serial /\ Types[Types[n].is].shown = Types[n].shown
      BY <2>2, <2>4, TypesAssumption DEF Known
    <3>2. QED
      BY <1>1, <1>3, <2>1, <3>1 DEF MadeAs, Expected, Is
  <2>5. QED
    BY <2>3, <2>4 DEF clause
<1>4. QED
  BY <1>2, <1>3

\* A statement left the table as asked, and the others as they were.
Left(made, s, table, columns) ==
  ColumnsOf(made, table) = columns /\ \A t \in DOMAIN s.objects \ {table} : made.objects[t] = s.objects[t]

\* The statement built for a new table.
LEMMA CreateRight ==
  ASSUME NEW s, IsSchema(s), NEW table, NEW columns, \A c \in Range(columns) : Coherent(c)
  PROVE  LET q == CreateTable(table, columns)[1]
         IN  /\ \A made \in Exec(s, q) :
                  Left(made, s, table, [k \in DOMAIN columns |-> Expected(columns[k], columns[k].is_pk)])
             /\ Exec(s, q) = {} =>
                  ~(/\ table \notin DOMAIN s.objects /\ IsInjective(Names(columns))
                    /\ \A c \in Range(columns) : Known(c.data_type))
<1> DEFINE q == CreateTable(table, columns)[1]
           K == DOMAIN columns
<1>1. /\ q.do = "create_table" /\ q.table = table /\ q.pk = Pk(columns)
      /\ q.columns = [k \in K |-> ColumnClause(columns[k])]
  BY DEF CreateTable
<1> HIDE DEF q
<1>2. DOMAIN q.columns = K /\ \A k \in K : q.columns[k] = ColumnClause(columns[k])
  BY <1>1
<1>3. \A k \in K : columns[k] \in Range(columns) /\ Coherent(columns[k])
  BY DEF Range
<1> HIDE DEF K
<1>4. Names(q.columns) = Names(columns)
  <2>1. ASSUME NEW k \in K
        PROVE  q.columns[k].name = columns[k].name
    <3>1. ColumnClause(columns[k]).name = columns[k].name
      BY DEF ColumnClause
    <3>2. QED
      BY <1>2, <3>1
  <2>2. QED
    BY <1>2, <2>1 DEF Names, K
<1>5. (\A c \in Range(q.columns) : Accepts(c)) <=> (\A c \in Range(columns) : Known(c.data_type))
  BY <1>2, <1>3, ClauseRight DEF Range, K
<1>6. CASE table \in DOMAIN s.objects
  <2>1. Exec(s, q) = {}
    BY <1>1, <1>6 DEF Exec
  <2>2. QED
    BY <1>6, <2>1 DEF q
<1>7. CASE /\ table \notin DOMAIN s.objects
           /\ ~(IsInjective(Names(q.columns)) /\ \A c \in Range(q.columns) : Accepts(c))
  <2>1. Exec(s, q) = {}
    BY <1>1, <1>7, CreateEffect
  <2>2. QED
    BY <1>4, <1>5, <1>7, <2>1 DEF q
<1>8. CASE table \notin DOMAIN s.objects /\ IsInjective(Names(q.columns)) /\ \A c \in Range(q.columns) : Accepts(c)
  <2>1. PICK made : /\ Exec(s, q) = {made}
                    /\ ColumnsOf(made, table) = [k \in DOMAIN q.columns |-> MadeAs(q.columns[k], q.pk)]
                    /\ \A t \in DOMAIN s.objects \ {table} : made.objects[t] = s.objects[t]
    BY <1>1, <1>8, CreateEffect
  <2>2. ASSUME NEW k \in K
        PROVE  MadeAs(q.columns[k], q.pk) = Expected(columns[k], columns[k].is_pk)
    <3>1. (columns[k].name \in q.pk) = columns[k].is_pk
      <4>1. \A name : name \in q.pk <=> \E j \in K : columns[j].is_pk /\ columns[j].name = name
        BY <1>1 DEF Pk, Range, K
      <4>2. \A j \in K : columns[j].name = columns[k].name => j = k
        BY <1>4, <1>8 DEF IsInjective, Names, K
      <4>3. columns[k].is_pk \in BOOLEAN
        BY <1>3 DEF Coherent
      <4>4. QED
        BY <4>1, <4>2, <4>3
    <3>2. Known(columns[k].data_type)
      BY <1>3, <1>5, <1>8
    <3>3. QED
      BY <1>2, <1>3, <3>1, <3>2, ClauseRight
  <2>3. Left(made, s, table, [k \in K |-> Expected(columns[k], columns[k].is_pk)])
    BY <1>2, <2>1, <2>2 DEF Left
  <2>4. QED
    BY <2>1, <2>3 DEF q, K
<1>9. QED
  BY <1>6, <1>7, <1>8

IsShaped(o) ==
  o = [kind |-> o.kind, columns |-> o.columns, pk |-> o.pk, fks |-> o.fks, indexes |-> o.indexes,
       triggers |-> o.triggers, definition |-> o.definition]

\* Columns are read by the columns and the key alone.
LEMMA SameRead ==
  ASSUME NEW o, NEW p, p.columns = o.columns, p.pk = o.pk
  PROVE  TableColumns(p) = TableColumns(o)
  BY DEF TableColumns, TableColumn

\* A table of a schema.
IsTable(s, table) ==
  IsSchema(s) /\ table \in DOMAIN s.objects /\ s.objects[table].kind = "table"

\* Its columns are read.
LEMMA TableRead ==
  ASSUME NEW s, NEW table, IsTable(s, table)
  PROVE  ColumnsOf(s, table) = TableColumns(s.objects[table])
  BY DEF IsTable, ColumnsOf, OfKind, Listed

\* The statement built for an index or a key.
LEMMA IndexRight ==
  ASSUME NEW s, IsSchema(s), NEW table, NEW x, NEW q,
         q \in {CreateIndex(table, x)[1], CreateForeignKey(table, x)[1]},
         table \in DOMAIN s.objects => IsShaped(s.objects[table])
  PROVE  /\ \A made \in Exec(s, q) : Left(made, s, table, ColumnsOf(s, table))
         /\ Exec(s, q) = {} => ~(table \in DOMAIN s.objects /\ s.objects[table].kind = "table")
<1> DEFINE o == s.objects[table]
<1>1. q.do \in {"create_index", "add_key"} /\ q.table = table
  BY DEF CreateIndex, CreateForeignKey
<1>2. CASE ~IsTable(s, table)
  <2>1. Exec(s, q) = {}
    BY <1>1, <1>2 DEF Exec, IsTable
  <2>2. QED
    BY <1>2, <2>1 DEF IsTable
<1>3. CASE IsTable(s, table)
  <2>1. PICK p : Exec(s, q) = {Put(s, table, p)} /\ p.columns = o.columns /\ p.pk = o.pk /\ p.kind = o.kind
    <3>1. CASE q.do = "create_index"
      <4> DEFINE p == [o EXCEPT !.indexes = @ \cup {q.index}]
      <4>1. Exec(s, q) = {Put(s, table, p)}
        BY <1>1, <1>3, <3>1 DEF Exec, IsTable, Put
      <4>2. p.columns = o.columns /\ p.pk = o.pk /\ p.kind = o.kind
        BY <1>3 DEF IsShaped, IsTable
      <4>3. QED
        BY <4>1, <4>2
    <3>2. CASE q.do = "add_key"
      <4> DEFINE p == [o EXCEPT !.fks = @ \cup {q.key}]
      <4>1. Exec(s, q) = {Put(s, table, p)}
        BY <1>1, <1>3, <3>2 DEF Exec, IsTable, Put
      <4>2. p.columns = o.columns /\ p.pk = o.pk /\ p.kind = o.kind
        BY <1>3 DEF IsShaped, IsTable
      <4>3. QED
        BY <4>1, <4>2
    <3>3. QED
      BY <1>1, <3>1, <3>2
  <2>2. ColumnsOf(Put(s, table, p), table) = ColumnsOf(s, table)
    BY <1>3, <2>1, PutRead, TableRead, SameRead DEF IsTable, Listed
  <2>3. \A t \in DOMAIN s.objects \ {table} : Put(s, table, p).objects[t] = s.objects[t]
    BY PutEffect
  <2>4. QED
    BY <2>1, <2>2, <2>3 DEF Left
<1>4. QED
  BY <1>2, <1>3

\* A function on one more index is its beginning with the last value appended.
LEMMA AppendIs ==
  ASSUME NEW S, NEW n \in Nat, NEW f \in [1 .. n -> S], NEW g \in [1 .. (n + 1) -> S], NEW e \in S,
         \A k \in 1 .. n : g[k] = f[k], g[n + 1] = e
  PROVE  g = Append(f, e)
<1>1. f \in Seq(S) /\ g \in Seq(S) /\ Len(f) = n /\ Len(g) = n + 1
  OBVIOUS
<1>2. /\ Append(f, e) \in Seq(S) /\ Len(Append(f, e)) = n + 1
      /\ \A k \in 1 .. n : Append(f, e)[k] = f[k]
      /\ Append(f, e)[n + 1] = e
  BY <1>1, AppendProperties
<1>3. \A k \in 1 .. Len(g) : g[k] = Append(f, e)[k]
  <2>1. \A k \in 1 .. Len(g) : k \in 1 .. n \/ k = n + 1
    BY <1>1
  <2>2. QED
    BY <1>2, <2>1
<1>4. QED
  BY <1>1, <1>2, <1>3, SeqEqual

\* The statement built for a new column.
LEMMA AddRight ==
  ASSUME NEW s, IsSchema(s), NEW table, NEW c, Coherent(c),
         table \in DOMAIN s.objects => IsObject(s.objects[table])
  PROVE  LET q == AddColumn(table, c)[1]
         IN  /\ \A made \in Exec(s, q) :
                  Left(made, s, table, Append(ColumnsOf(s, table), Expected(c, FALSE)))
             /\ Exec(s, q) = {} =>
                  ~(/\ table \in DOMAIN s.objects /\ s.objects[table].kind = "table" /\ Known(c.data_type)
                    /\ c.name \notin Range(Names(s.objects[table].columns)))
<1> DEFINE o == s.objects[table]
           q == AddColumn(table, c)[1]
           clause == ColumnClause(c)
           names == {x.name : x \in Range(o.columns)}
           new == Column(clause, o.pk)
           p == [o EXCEPT !.columns = Append(@, new)]
<1>1. q.do = "add" /\ q.table = table /\ q.clause = clause
  BY DEF AddColumn
<1>2. clause.name = c.name
  BY DEF ColumnClause
<1> HIDE DEF q, clause
<1>3. CASE ~IsTable(s, table)
  <2>1. Exec(s, q) = {}
    BY <1>1, <1>3 DEF Exec, IsTable
  <2>2. QED
    BY <1>3, <2>1 DEF q, IsTable
<1>4. CASE IsTable(s, table)
  <2>1. /\ IsShaped(o) /\ o.columns \in Seq(Range(o.columns)) /\ o.pk \subseteq Range(Names(o.columns))
    BY <1>4 DEF IsTable, IsObject, IsShaped
  <2>2. names = Range(Names(o.columns))
    BY DEF Names, Range
  <2>3. Exec(s, q) = IF Known(c.data_type) /\ c.name \notin names THEN {Put(s, table, p)} ELSE {}
    <3>1. Exec(s, q) = IF Accepts(clause) /\ clause.name \notin names THEN {Put(s, table, p)} ELSE {}
      BY <1>1, <1>4 DEF Exec, IsTable, Put
    <3>2. QED
      BY <1>2, <3>1, ClauseRight DEF clause
  <2>4. ASSUME Known(c.data_type), c.name \notin names
        PROVE  Left(Put(s, table, p), s, table, Append(ColumnsOf(s, table), Expected(c, FALSE)))
    <3>1. p.kind = "table" /\ p.pk = o.pk /\ p.columns = Append(o.columns, new)
      BY <1>4, <2>1 DEF IsShaped, IsTable
    <3>2. TableColumn(p, new) = Expected(c, FALSE)
      <4>1. TableColumn(p, new) = MadeAs(clause, p.pk)
        BY <3>1, MadeColumn
      <4>2. (c.name \in p.pk) = FALSE
        BY <2>1, <2>2, <2>4, <3>1
      <4>3. QED
        BY <2>4, <4>1, <4>2, ClauseRight DEF clause
    <3> HIDE DEF p, new
    <3>3. TableColumns(p) = Append(TableColumns(o), Expected(c, FALSE))
      <4> DEFINE n == Len(o.columns)
                 before == TableColumns(o)
                 e == Expected(c, FALSE)
      <4>1. /\ n \in Nat /\ DOMAIN o.columns = 1 .. n /\ DOMAIN p.columns = 1 .. (n + 1)
            /\ \A k \in 1 .. n : p.columns[k] = o.columns[k]
            /\ p.columns[n + 1] = new
        <5> DEFINE S == Range(o.columns) \cup {new}
        <5>1. o.columns \in Seq(S) /\ new \in S
          BY <2>1, SeqMonotonic
        <5>2. QED
          BY <3>1, <5>1, AppendProperties, LenProperties
      <4>2. DOMAIN before = 1 .. n /\ \A k \in 1 .. n : before[k] = TableColumn(o, o.columns[k])
        BY <4>1 DEF TableColumns
      <4>3. \A k \in 1 .. n : TableColumn(p, p.columns[k]) = before[k]
        BY <3>1, <4>1, <4>2 DEF TableColumn
      <4>4. TableColumns(p) = [k \in 1 .. (n + 1) |-> TableColumn(p, p.columns[k])]
        BY <4>1 DEF TableColumns
      <4> DEFINE after == TableColumns(p)
      <4> HIDE DEF before, e, n, after
      <4>5. n + 1 \in 1 .. (n + 1) /\ \A k \in 1 .. (n + 1) : k \in 1 .. n \/ k = n + 1
        BY <4>1
      <4>6. DOMAIN after = 1 .. (n + 1) /\ DOMAIN before = 1 .. n
        BY <4>1, <4>4 DEF after, before, TableColumns
      <4>7. \A k \in 1 .. n : after[k] = before[k]
        BY <4>1, <4>3, <4>4 DEF after
      <4>8. after[n + 1] = e
        BY <3>2, <4>1, <4>4, <4>5 DEF e, after
      <4> DEFINE S == Range(before) \cup {e}
      <4>9. before \in [1 .. n -> S] /\ e \in S
        BY <4>6, <4>1 DEF Range, before, TableColumns
      <4>10. after \in [1 .. (n + 1) -> S]
        <5>1. \A k \in 1 .. (n + 1) : after[k] \in S
          BY <4>5, <4>7, <4>8, <4>9
        <5>2. QED
          BY <4>4, <5>1 DEF after
      <4>11. after = Append(before, e)
        BY <4>1, <4>7, <4>8, <4>9, <4>10, AppendIs
      <4>12. QED
        BY <4>11 DEF before, e, after
    <3>4. ColumnsOf(Put(s, table, p), table) = TableColumns(p)
      BY <3>1, PutRead DEF IsTable, Listed
    <3>5. \A t \in DOMAIN s.objects \ {table} : Put(s, table, p).objects[t] = s.objects[t]
      BY PutEffect
    <3>6. QED
      BY <1>4, <3>3, <3>4, <3>5, TableRead DEF Left
  <2>5. QED
    BY <2>2, <2>3, <2>4 DEF q
<1>5. QED
  BY <1>3, <1>4

-----------------------------------------------------------------------------
(* The statements built for an altered column, one after the other. *)

\* What each may change, in their order.
Same(old, new, n) ==
  CASE n = 1 -> old.name = new.name
    [] n = 2 -> old.data_type = new.data_type
    [] n = 3 -> old.is_nullable = new.is_nullable
    [] n = 4 -> old.default_value = new.default_value

Step(table, old, new, n) ==
  CASE n = 1 -> [do |-> "rename", table |-> table, column |-> old.name, to |-> new.name]
    [] n = 2 -> [do |-> IF ImplicitCast(BaseType(old.data_type), BaseType(new.data_type)) THEN "type" ELSE "cast",
                 table |-> table, column |-> new.name, to |-> new.data_type]
    [] n = 3 -> [do |-> "null", table |-> table, column |-> new.name, to |-> new.is_nullable]
    [] n = 4 -> [do |-> "default", table |-> table, column |-> new.name, to |-> new.default_value]

Part(table, old, new, n) == IF Same(old, new, n) THEN <<>> ELSE <<Step(table, old, new, n)>>

\* What is left to run after the first n.
Rest(table, old, new, n) ==
  LET part(k) == Part(table, old, new, k)
  IN  CASE n = 0 -> part(1) \o (part(2) \o (part(3) \o part(4)))
        [] n = 1 -> part(2) \o (part(3) \o part(4))
        [] n = 2 -> part(3) \o part(4)
        [] n = 3 -> part(4)
        [] n = 4 -> <<>>

\* A statement before others.
LEMMA Before ==
  ASSUME NEW S, NEW x \in S, NEW rest \in Seq(S)
  PROVE  /\ <<x>> \o rest \in Seq(S) /\ <<x>> \o rest # <<>>
         /\ Head(<<x>> \o rest) = x /\ Tail(<<x>> \o rest) = rest
<1> DEFINE one == <<x>>
           all == one \o rest
<1>1. one \in Seq(S) /\ Len(one) = 1 /\ one[1] = x
  OBVIOUS
<1> HIDE DEF one
<1>2. /\ all \in Seq(S) /\ Len(all) = Len(rest) + 1 /\ Len(rest) \in Nat
      /\ \A k \in 1 .. Len(rest) + 1 : all[k] = IF k <= 1 THEN one[k] ELSE rest[k - 1]
  <2>1. /\ all \in Seq(S) /\ Len(all) = Len(one) + Len(rest)
        /\ \A k \in 1 .. Len(one) + Len(rest) : all[k] = IF k <= Len(one) THEN one[k] ELSE rest[k - Len(one)]
    BY <1>1, ConcatProperties
  <2>2. Len(rest) \in Nat
    BY LenProperties
  <2>3. QED
    BY <1>1, <2>1, <2>2
<1> HIDE DEF all
<1>3. all # <<>> /\ all[1] = x
  BY <1>1, <1>2
<1>4. /\ Tail(all) \in Seq(S) /\ Len(Tail(all)) = Len(rest)
      /\ \A k \in 1 .. Len(Tail(all)) : Tail(all)[k] = all[k + 1]
  BY <1>2, <1>3, HeadTailProperties
<1>5. \A k \in 1 .. Len(Tail(all)) : Tail(all)[k] = rest[k]
  BY <1>2, <1>4
<1>6. Tail(all) = rest
  BY <1>4, <1>5, SeqEqual
<1>7. Head(all) = x
  BY <1>2, <1>3
<1>8. QED
  BY <1>2, <1>3, <1>6, <1>7 DEF all, one

\* What is to run with a part in front, and after it.
Peeled(same, x, all, rest) ==
  /\ same => all = rest
  /\ ~same => all # <<>> /\ Head(all) = x /\ Tail(all) = rest

\* So it is with a part of one statement or none.
LEMMA Peel ==
  ASSUME NEW S, NEW x \in S, NEW same, NEW part, part = IF same THEN <<>> ELSE <<x>>, NEW rest \in Seq(S)
  PROVE  part \in Seq(S) /\ part \o rest \in Seq(S) /\ Peeled(same, x, part \o rest, rest)
<1>1. CASE same
  <2>1. part = <<>> /\ part \o rest = rest
    BY <1>1, ConcatEmptySeq
  <2>2. QED
    BY <1>1, <2>1 DEF Peeled
<1>2. CASE ~same
  <2>1. part = <<x>>
    BY <1>2
  <2>2. part \in Seq(S)
    BY <2>1
  <2>3. QED
    BY <1>2, <2>1, <2>2, Before DEF Peeled
<1>3. QED
  BY <1>1, <1>2

\* build_alter_column_sql puts the parts together.
LEMMA AlterParts ==
  ASSUME NEW table, NEW old, NEW new
  PROVE  LET part(k) == Part(table, old, new, k)
         IN  AlterColumn(table, old, new) = ((part(1) \o part(2)) \o part(3)) \o part(4)
<1>1. Part(table, old, new, 1) =
        IF old.name = new.name THEN <<>>
        ELSE <<[do |-> "rename", table |-> table, column |-> old.name, to |-> new.name]>>
  BY DEF Part, Same, Step
<1>2. Part(table, old, new, 2) =
        IF old.data_type = new.data_type THEN <<>>
        ELSE <<[do |-> IF ImplicitCast(BaseType(old.data_type), BaseType(new.data_type)) THEN "type" ELSE "cast",
                table |-> table, column |-> new.name, to |-> new.data_type]>>
  BY DEF Part, Same, Step
<1>3. Part(table, old, new, 3) =
        IF old.is_nullable = new.is_nullable THEN <<>>
        ELSE <<[do |-> "null", table |-> table, column |-> new.name, to |-> new.is_nullable]>>
  BY DEF Part, Same, Step
<1>4. Part(table, old, new, 4) =
        IF old.default_value = new.default_value THEN <<>>
        ELSE <<[do |-> "default", table |-> table, column |-> new.name, to |-> new.default_value]>>
  BY DEF Part, Same, Step
<1>5. QED
  BY <1>1, <1>2, <1>3, <1>4 DEF AlterColumn

\* What is built runs statement by statement; one that changes nothing is left out.
LEMMA RestEffect ==
  ASSUME NEW table, NEW old, NEW new
  PROVE  /\ Rest(table, old, new, 0) = AlterColumn(table, old, new) /\ Rest(table, old, new, 4) = <<>>
         /\ Peeled(Same(old, new, 1), Step(table, old, new, 1), Rest(table, old, new, 0), Rest(table, old, new, 1))
         /\ Peeled(Same(old, new, 2), Step(table, old, new, 2), Rest(table, old, new, 1), Rest(table, old, new, 2))
         /\ Peeled(Same(old, new, 3), Step(table, old, new, 3), Rest(table, old, new, 2), Rest(table, old, new, 3))
         /\ Peeled(Same(old, new, 4), Step(table, old, new, 4), Rest(table, old, new, 3), Rest(table, old, new, 4))
<1> DEFINE p1 == Part(table, old, new, 1)
           p2 == Part(table, old, new, 2)
           p3 == Part(table, old, new, 3)
           p4 == Part(table, old, new, 4)
           x1 == Step(table, old, new, 1)
           x2 == Step(table, old, new, 2)
           x3 == Step(table, old, new, 3)
           x4 == Step(table, old, new, 4)
           b1 == Same(old, new, 1)
           b2 == Same(old, new, 2)
           b3 == Same(old, new, 3)
           b4 == Same(old, new, 4)
<1>1. AlterColumn(table, old, new) = ((p1 \o p2) \o p3) \o p4
  BY AlterParts
<1>2. /\ Rest(table, old, new, 0) = p1 \o (p2 \o (p3 \o p4)) /\ Rest(table, old, new, 1) = p2 \o (p3 \o p4)
      /\ Rest(table, old, new, 2) = p3 \o p4 /\ Rest(table, old, new, 3) = p4
      /\ Rest(table, old, new, 4) = <<>>
  BY DEF Rest
<1>3. /\ p1 = (IF b1 THEN <<>> ELSE <<x1>>) /\ p2 = (IF b2 THEN <<>> ELSE <<x2>>)
      /\ p3 = (IF b3 THEN <<>> ELSE <<x3>>) /\ p4 = (IF b4 THEN <<>> ELSE <<x4>>)
  BY DEF Part
<1> HIDE DEF p1, p2, p3, p4, x1, x2, x3, x4, b1, b2, b3, b4
<1>4. PICK S : x1 \in S /\ x2 \in S /\ x3 \in S /\ x4 \in S
  <2> WITNESS {x1, x2, x3, x4}
  <2> QED
    OBVIOUS
<1>13. ((p1 \o p2) \o p3) \o p4 = p1 \o (p2 \o (p3 \o p4))
  <2>1. p1 \in Seq(S) /\ p2 \in Seq(S) /\ p3 \in Seq(S) /\ p4 \in Seq(S)
    BY <1>3, <1>4, EmptySeq, Peel
  <2> DEFINE front == p1 \o p2
             back == p3 \o p4
  <2>2. front \in Seq(S) /\ back \in Seq(S)
    BY <2>1, ConcatProperties
  <2>3. (p1 \o p2) \o back = p1 \o (p2 \o back)
    <3> HIDE DEF back
    <3>1. p1 \in Seq(S) /\ p2 \in Seq(S) /\ back \in Seq(S)
      BY <2>1, <2>2
    <3>2. QED
      BY <3>1, ConcatAssociative
  <2>4. (front \o p3) \o p4 = front \o (p3 \o p4)
    <3> HIDE DEF front
    <3>1. front \in Seq(S) /\ p3 \in Seq(S) /\ p4 \in Seq(S)
      BY <2>1, <2>2
    <3>2. QED
      BY <3>1, ConcatAssociative
  <2>5. QED
    BY <2>3, <2>4
<1>5. PICK none \in Seq(S) : none = <<>>
  BY EmptySeq
<1>6. p4 \in Seq(S) /\ p4 \o none \in Seq(S) /\ Peeled(b4, x4, p4 \o none, none)
  BY <1>3, <1>4, Peel
<1>7. p4 \o none = p4
  BY <1>5, <1>6, ConcatEmptySeq
<1>8. p3 \in Seq(S) /\ p3 \o p4 \in Seq(S) /\ Peeled(b3, x3, p3 \o p4, p4)
  BY <1>3, <1>4, <1>6, Peel
<1>9. PICK r2 \in Seq(S) : r2 = p3 \o p4
  BY <1>8
<1>10. p2 \in Seq(S) /\ p2 \o r2 \in Seq(S) /\ Peeled(b2, x2, p2 \o r2, r2)
  BY <1>3, <1>4, Peel
<1>11. PICK r1 \in Seq(S) : r1 = p2 \o r2
  BY <1>10
<1>12. p1 \in Seq(S) /\ p1 \o r1 \in Seq(S) /\ Peeled(b1, x1, p1 \o r1, r1)
  BY <1>3, <1>4, Peel
<1>14. Rest(table, old, new, 0) = AlterColumn(table, old, new) /\ Rest(table, old, new, 4) = <<>>
  BY <1>1, <1>2, <1>13
<1>15. Peeled(b1, x1, Rest(table, old, new, 0), Rest(table, old, new, 1))
  BY <1>2, <1>9, <1>11, <1>12
<1>16. Peeled(b2, x2, Rest(table, old, new, 1), Rest(table, old, new, 2))
  BY <1>2, <1>9, <1>10
<1>17. Peeled(b3, x3, Rest(table, old, new, 2), Rest(table, old, new, 3))
  BY <1>2, <1>8
<1>18. Peeled(b4, x4, Rest(table, old, new, 3), Rest(table, old, new, 4))
  BY <1>2, <1>5, <1>6, <1>7
<1>19. QED
  BY <1>14, <1>15, <1>16, <1>17, <1>18 DEF x1, x2, x3, x4, b1, b2, b3, b4

-----------------------------------------------------------------------------
(* What a statement on a column makes of a table. *)

\* Columns have names of their own.
Unique(o) == \A j \in DOMAIN o.columns, k \in DOMAIN o.columns : o.columns[j].name = o.columns[k].name => j = k
Taken(o) == {x.name : x \in Range(o.columns)}

\* The table with another column in the place of one.
Swapped(o, i, c) ==
  [kind |-> o.kind, columns |-> [k \in DOMAIN o.columns |-> IF k = i THEN c ELSE o.columns[k]], pk |-> o.pk,
   fks |-> o.fks, indexes |-> o.indexes, triggers |-> o.triggers, definition |-> o.definition]

\* The column of a name, and what replaces it.
LEMMA ColumnAt ==
  ASSUME NEW o, IsShaped(o), Unique(o), NEW i \in DOMAIN o.columns, NEW name, name = o.columns[i].name
  PROVE  /\ (CHOOSE x \in Range(o.columns) : x.name = name) = o.columns[i]
         /\ name \in Taken(o)
         /\ \A d : Replaced(o, name, d) = Swapped(o, i, d)
<1>1. \A x \in Range(o.columns) : x.name = name => x = o.columns[i]
  BY DEF Range, Unique
<1>2. o.columns[i] \in Range(o.columns)
  BY DEF Range
<1>3. (CHOOSE x \in Range(o.columns) : x.name = name) = o.columns[i]
  BY <1>1, <1>2
<1>4. name \in Taken(o)
  BY <1>2 DEF Taken
<1>5. ASSUME NEW d
      PROVE  Replaced(o, name, d) = Swapped(o, i, d)
  <2> DEFINE columns == [k \in DOMAIN o.columns |-> IF o.columns[k].name = name THEN d ELSE o.columns[k]]
  <2>1. columns = [k \in DOMAIN o.columns |-> IF k = i THEN d ELSE o.columns[k]]
    BY DEF Unique
  <2>2. Replaced(o, name, d) = [o EXCEPT !.columns = columns]
    BY DEF Replaced
  <2> HIDE DEF columns
  <2>3. [o EXCEPT !.columns = columns] = [kind |-> o.kind, columns |-> columns, pk |-> o.pk, fks |-> o.fks,
           indexes |-> o.indexes, triggers |-> o.triggers, definition |-> o.definition]
    BY DEF IsShaped
  <2>4. QED
    BY <2>1, <2>2, <2>3 DEF Swapped
<1>6. QED
  BY <1>3, <1>4, <1>5

\* The four kinds of statement.
LEMMA ExecColumnAt ==
  ASSUME NEW o, IsShaped(o), Unique(o), NEW i \in DOMAIN o.columns, NEW c, c = o.columns[i],
         NEW q, q.column = c.name
  PROVE  /\ q.do = "rename" => ExecColumn(o, q) =
              IF q.to \notin Taken(o)
              THEN {[Swapped(o, i, [c EXCEPT !.name = q.to]) EXCEPT
                       !.pk = {IF name = q.column THEN q.to ELSE name : name \in @}]} ELSE {}
         /\ q.do \in {"type", "cast"} => ExecColumn(o, q) =
              IF /\ Known(q.to) /\ ~Types[q.to[1]].serial
                 /\ <<c.type[1], Is(q.to)>> \in
                      (IF q.do = "type" \/ c.default # None THEN Assignable ELSE Castable)
              THEN {Swapped(o, i, [c EXCEPT !.type = <<Is(q.to), q.to[2]>>])} ELSE {}
         /\ q.do = "null" => ExecColumn(o, q) =
              IF ~(q.to /\ q.column \in o.pk) THEN {Swapped(o, i, [c EXCEPT !.null = q.to])} ELSE {}
         /\ q.do = "default" => ExecColumn(o, q) =
              IF ~c.identity THEN {Swapped(o, i, [c EXCEPT !.default = q.to])} ELSE {}
<1>1. /\ (CHOOSE x \in Range(o.columns) : x.name = q.column) = c
      /\ q.column \in {x.name : x \in Range(o.columns)}
      /\ \A d : Replaced(o, q.column, d) = Swapped(o, i, d)
  <2>1. PICK name : name = q.column
    OBVIOUS
  <2>2. QED
    BY <2>1, ColumnAt DEF Taken
<1>2. CASE q.do = "rename"
  BY <1>1, <1>2 DEF ExecColumn, Taken
<1>3. CASE q.do \in {"type", "cast"}
  BY <1>1, <1>3 DEF ExecColumn
<1>4. CASE q.do = "null"
  BY <1>1, <1>4 DEF ExecColumn
<1>5. CASE q.do = "default"
  BY <1>1, <1>5 DEF ExecColumn
<1>6. QED
  BY <1>2, <1>3, <1>4, <1>5

\* Without the column, none is done.
LEMMA NoColumn ==
  ASSUME NEW s, NEW table, NEW q, q.table = table, q.do \in {"rename", "type", "cast", "null", "default"},
         ~(IsTable(s, table) /\ q.column \in Taken(s.objects[table])), IsSchema(s)
  PROVE  Exec(s, q) = {}
<1>1. CASE ~IsTable(s, table)
  BY <1>1 DEF IsTable, Exec
<1>2. CASE IsTable(s, table)
  <2> DEFINE o == s.objects[table]
  <2>1. ExecColumn(o, q) = {}
    BY <1>2 DEF ExecColumn, Taken
  <2>2. Exec(s, q) = {Put(s, table, new) : new \in ExecColumn(o, q)}
    BY <1>2 DEF IsTable, Exec, Put
  <2>3. QED
    BY <2>1, <2>2
<1>3. QED
  BY <1>1, <1>2

\* With it, the table becomes what the statement makes of it.
LEMMA ExecOnColumn ==
  ASSUME NEW s, NEW table, NEW q, q.table = table, q.do \in {"rename", "type", "cast", "null", "default"},
         IsTable(s, table)
  PROVE  Exec(s, q) = {Put(s, table, p) : p \in ExecColumn(s.objects[table], q)}
  BY DEF IsTable, Exec, Put

\* A column, a key and a table after the first n statements of an alteration.
After(c, old, new, n) ==
  [name    |-> IF n >= 1 /\ old.name # new.name THEN new.name ELSE c.name,
   type    |-> IF n >= 2 /\ old.data_type # new.data_type
               THEN <<Is(new.data_type), new.data_type[2]>> ELSE c.type,
   null    |-> IF n >= 3 /\ old.is_nullable # new.is_nullable THEN new.is_nullable ELSE c.null,
   default |-> IF n >= 4 /\ old.default_value # new.default_value THEN new.default_value ELSE c.default,
   identity |-> c.identity]

KeyAfter(pk, old, new, n) ==
  IF n >= 1 /\ old.name # new.name THEN {IF name = old.name THEN new.name ELSE name : name \in pk} ELSE pk

UpTo(p, o, old, new, i, n) ==
  LET c == o.columns[i]
  IN  /\ IsShaped(p) /\ p.kind = o.kind /\ Unique(p)
      /\ DOMAIN p.columns = DOMAIN o.columns
      /\ \A k \in DOMAIN o.columns \ {i} : p.columns[k] = o.columns[k]
      /\ p.columns[i] = After(c, old, new, n)
      /\ p.pk = KeyAfter(o.pk, old, new, n)
      /\ n >= 2 /\ old.data_type # new.data_type => Known(new.data_type)
      /\ n >= 4 /\ old.default_value # new.default_value => ~c.identity

\* The column an alteration is of.
Alters(o, old, i) == IsObject(o) /\ i \in DOMAIN o.columns /\ o.columns[i].name = old.name

\* Nothing is done at first.
LEMMA UpToFirst ==
  ASSUME NEW o, NEW old, NEW new, NEW i, Alters(o, old, i)
  PROVE  UpTo(o, o, old, new, i, 0)
<1>1. IsShaped(o)
  BY DEF Alters, IsObject, IsShaped
<1>2. Unique(o)
  BY DEF Alters, IsObject, IsInjective, Names, Unique
<1>3. o.columns[i] = After(o.columns[i], old, new, 0)
  BY DEF Alters, IsObject, IsColumn, Range, After
<1>4. QED
  BY <1>1, <1>2, <1>3 DEF UpTo, KeyAfter

\* The first part, left out, does nothing.
LEMMA UpToSkips1 ==
  ASSUME NEW p, NEW o, NEW old, NEW new, NEW i, UpTo(p, o, old, new, i, 0), Same(old, new, 1)
  PROVE  UpTo(p, o, old, new, i, 1)
<1>1. After(o.columns[i], old, new, 1) = After(o.columns[i], old, new, 0)
  BY DEF After, Same
<1>2. KeyAfter(o.pk, old, new, 1) = KeyAfter(o.pk, old, new, 0)
  BY DEF KeyAfter, Same
<1>3. QED
  BY <1>1, <1>2 DEF UpTo, Same

\* Nor does the second.
LEMMA UpToSkips2 ==
  ASSUME NEW p, NEW o, NEW old, NEW new, NEW i, UpTo(p, o, old, new, i, 1), Same(old, new, 2)
  PROVE  UpTo(p, o, old, new, i, 2)
<1>1. After(o.columns[i], old, new, 2) = After(o.columns[i], old, new, 1)
  BY DEF After, Same
<1>2. KeyAfter(o.pk, old, new, 2) = KeyAfter(o.pk, old, new, 1)
  BY DEF KeyAfter, Same
<1>3. QED
  BY <1>1, <1>2 DEF UpTo, Same

\* Nor does the third.
LEMMA UpToSkips3 ==
  ASSUME NEW p, NEW o, NEW old, NEW new, NEW i, UpTo(p, o, old, new, i, 2), Same(old, new, 3)
  PROVE  UpTo(p, o, old, new, i, 3)
<1>1. After(o.columns[i], old, new, 3) = After(o.columns[i], old, new, 2)
  BY DEF After, Same
<1>2. KeyAfter(o.pk, old, new, 3) = KeyAfter(o.pk, old, new, 2)
  BY DEF KeyAfter, Same
<1>3. QED
  BY <1>1, <1>2 DEF UpTo, Same

\* Nor does the last.
LEMMA UpToSkips4 ==
  ASSUME NEW p, NEW o, NEW old, NEW new, NEW i, UpTo(p, o, old, new, i, 3), Same(old, new, 4)
  PROVE  UpTo(p, o, old, new, i, 4)
<1>1. After(o.columns[i], old, new, 4) = After(o.columns[i], old, new, 3)
  BY DEF After, Same
<1>2. KeyAfter(o.pk, old, new, 4) = KeyAfter(o.pk, old, new, 3)
  BY DEF KeyAfter, Same
<1>3. QED
  BY <1>1, <1>2 DEF UpTo, Same

\* What a swapped column leaves.
LEMMA SwapEffect ==
  ASSUME NEW p, IsShaped(p), NEW i \in DOMAIN p.columns, NEW c
  PROVE  LET r == Swapped(p, i, c)
         IN  /\ IsShaped(r) /\ r.kind = p.kind /\ r.pk = p.pk /\ DOMAIN r.columns = DOMAIN p.columns
             /\ r.columns[i] = c /\ \A k \in DOMAIN p.columns \ {i} : r.columns[k] = p.columns[k]
<1> DEFINE columns == [k \in DOMAIN p.columns |-> IF k = i THEN c ELSE p.columns[k]]
           r == Swapped(p, i, c)
<1>1. /\ DOMAIN columns = DOMAIN p.columns /\ columns[i] = c
      /\ \A k \in DOMAIN p.columns \ {i} : columns[k] = p.columns[k]
  OBVIOUS
<1>2. r = [kind |-> p.kind, columns |-> columns, pk |-> p.pk, fks |-> p.fks, indexes |-> p.indexes,
           triggers |-> p.triggers, definition |-> p.definition]
  BY DEF Swapped
<1> HIDE DEF columns, r
<1>3. IsShaped(r) /\ r.kind = p.kind /\ r.pk = p.pk /\ r.columns = columns
  BY <1>2 DEF IsShaped
<1>4. QED
  BY <1>1, <1>3 DEF r

\* The names taken are those of the columns.
LEMMA TakenNames ==
  ASSUME NEW o
  PROVE  Taken(o) = Range(Names(o.columns))
  BY DEF Taken, Range, Names

\* The alteration done or refused by the next statement.
Works(p, q, o, old, new, i, n) ==
  /\ \A r \in ExecColumn(p, q) : UpTo(r, o, old, new, i, n)
  /\ ExecColumn(p, q) = {} => ~CanAlter(o.columns[i], o.pk, Range(Names(o.columns)), old, new)

\* The column's name.
LEMMA RenameWorks ==
  ASSUME NEW o, NEW old, NEW new, NEW i, Alters(o, old, i), NEW p, UpTo(p, o, old, new, i, 0),
         NEW table, ~Same(old, new, 1)
  PROVE  Works(p, Step(table, old, new, 1), o, old, new, i, 1)
<1> DEFINE q == Step(table, old, new, 1)
           c == o.columns[i]
           d == [c EXCEPT !.name = new.name]
           pk == {IF name = old.name THEN new.name ELSE name : name \in o.pk}
           swapped == Swapped(p, i, d)
           r == [swapped EXCEPT !.pk = {IF name = q.column THEN q.to ELSE name : name \in @}]
<1>1. q.do = "rename" /\ q.column = old.name /\ q.to = new.name /\ old.name # new.name
  BY DEF Step, Same
<1>2. c = [name |-> c.name, type |-> c.type, null |-> c.null, default |-> c.default, identity |-> c.identity]
      /\ c.name = old.name
  BY DEF Alters, IsObject, IsColumn, Range
<1>3. /\ IsShaped(p) /\ p.kind = o.kind /\ Unique(p) /\ DOMAIN p.columns = DOMAIN o.columns
      /\ \A k \in DOMAIN o.columns \ {i} : p.columns[k] = o.columns[k]
      /\ p.columns[i] = c /\ p.pk = o.pk /\ i \in DOMAIN p.columns
  BY <1>2 DEF UpTo, After, KeyAfter, Alters
<1>4. Taken(p) = Range(Names(o.columns))
  <2>1. \A k \in DOMAIN o.columns : p.columns[k] = o.columns[k]
    BY <1>3
  <2>2. Range(p.columns) = Range(o.columns)
    BY <1>3, <2>1 DEF Range
  <2>3. Taken(o) = Range(Names(o.columns))
    BY TakenNames
  <2>4. QED
    BY <2>2, <2>3 DEF Taken
<1> HIDE DEF q
<1>5. ExecColumn(p, q) = IF new.name \notin Taken(p) THEN {r} ELSE {}
  <2>1. q.column = c.name
    BY <1>1, <1>2
  <2>2. q.do = "rename" => ExecColumn(p, q) =
              IF q.to \notin Taken(p)
              THEN {[Swapped(p, i, [c EXCEPT !.name = q.to]) EXCEPT
                       !.pk = {IF name = q.column THEN q.to ELSE name : name \in @}]} ELSE {}
    BY <1>3, <2>1, ExecColumnAt
  <2>3. QED
    BY <1>1, <2>2
<1>6. d = After(c, old, new, 1)
  BY <1>1, <1>2 DEF After
<1>7. /\ IsShaped(swapped) /\ swapped.kind = o.kind /\ swapped.pk = o.pk
      /\ DOMAIN swapped.columns = DOMAIN o.columns /\ swapped.columns[i] = d
      /\ \A k \in DOMAIN o.columns \ {i} : swapped.columns[k] = o.columns[k]
  <2> HIDE DEF d
  <2>1. QED
    BY <1>3, SwapEffect
<1> HIDE DEF swapped, d
<1>8. IsShaped(r) /\ r.kind = o.kind /\ r.columns = swapped.columns /\ r.pk = pk
  BY <1>1, <1>7 DEF IsShaped
<1> HIDE DEF r
<1>9. ASSUME new.name \notin Taken(p)
      PROVE  UpTo(r, o, old, new, i, 1)
  <2>1. pk = KeyAfter(o.pk, old, new, 1)
    BY <1>1 DEF KeyAfter
  <2>2. Unique(r)
    <3>1. \A k \in DOMAIN o.columns \ {i} : r.columns[k].name = o.columns[k].name /\ o.columns[k].name # new.name
      BY <1>4, <1>7, <1>8, <1>9 DEF Range, Names
    <3>2. r.columns[i].name = new.name
      BY <1>1, <1>6, <1>7, <1>8 DEF After
    <3>3. \A j \in DOMAIN o.columns \ {i}, k \in DOMAIN o.columns \ {i} :
            o.columns[j].name = o.columns[k].name => j = k
      BY <1>3 DEF Unique
    <3>4. QED
      BY <1>7, <1>8, <3>1, <3>2, <3>3 DEF Unique
  <2>3. QED
    BY <1>6, <1>7, <1>8, <2>1, <2>2 DEF UpTo
<1>10. new.name \in Range(Names(o.columns)) => ~CanAlter(c, o.pk, Range(Names(o.columns)), old, new)
  BY <1>1 DEF CanAlter
<1>11. QED
  BY <1>4, <1>5, <1>9, <1>10 DEF Works, q

\* A column that keeps its name keeps the names apart.
LEMMA SwapKeepsNames ==
  ASSUME NEW p, IsShaped(p), Unique(p), NEW i \in DOMAIN p.columns, NEW d, d.name = p.columns[i].name
  PROVE  LET r == Swapped(p, i, d)
         IN  /\ IsShaped(r) /\ r.kind = p.kind /\ r.pk = p.pk /\ DOMAIN r.columns = DOMAIN p.columns
             /\ r.columns[i] = d /\ \A k \in DOMAIN p.columns \ {i} : r.columns[k] = p.columns[k]
             /\ Unique(r)
<1> DEFINE r == Swapped(p, i, d)
<1>1. /\ IsShaped(r) /\ r.kind = p.kind /\ r.pk = p.pk /\ DOMAIN r.columns = DOMAIN p.columns
      /\ r.columns[i] = d /\ \A k \in DOMAIN p.columns \ {i} : r.columns[k] = p.columns[k]
  BY SwapEffect
<1> HIDE DEF r
<1>2. \A k \in DOMAIN p.columns : r.columns[k].name = p.columns[k].name
  BY <1>1
<1>3. Unique(r)
  BY <1>1, <1>2 DEF Unique
<1>4. QED
  BY <1>1, <1>3 DEF r

\* The column's type.
LEMMA RetypeWorks ==
  ASSUME NEW o, NEW old, NEW new, NEW i, Alters(o, old, i), NEW p, UpTo(p, o, old, new, i, 1),
         NEW table, ~Same(old, new, 2)
  PROVE  Works(p, Step(table, old, new, 2), o, old, new, i, 2)
<1> DEFINE q == Step(table, old, new, 2)
           c == o.columns[i]
           b == p.columns[i]
           d == [b EXCEPT !.type = <<Is(new.data_type), new.data_type[2]>>]
           can == /\ Known(new.data_type) /\ ~Types[new.data_type[1]].serial
                  /\ <<c.type[1], Is(new.data_type)>> \in
                       (IF q.do = "type" \/ c.default # None THEN Assignable ELSE Castable)
           r == Swapped(p, i, d)
<1>1. /\ q.do = IF ImplicitCast(old.data_type[1], new.data_type[1]) THEN "type" ELSE "cast"
      /\ q.column = new.name /\ q.to = new.data_type /\ old.data_type # new.data_type
  BY DEF Step, Same, BaseType
<1>2. /\ c = [name |-> c.name, type |-> c.type, null |-> c.null, default |-> c.default, identity |-> c.identity]
      /\ c.name = old.name /\ c.type[1] \in DOMAIN Types
  BY DEF Alters, IsObject, IsColumn, Range, Known
<1>3. /\ IsShaped(p) /\ p.kind = o.kind /\ Unique(p) /\ DOMAIN p.columns = DOMAIN o.columns
      /\ \A k \in DOMAIN o.columns \ {i} : p.columns[k] = o.columns[k]
      /\ b = After(c, old, new, 1) /\ p.pk = KeyAfter(o.pk, old, new, 1) /\ i \in DOMAIN p.columns
  BY DEF UpTo, Alters
<1>4. b.name = new.name /\ b.type = c.type /\ b.default = c.default
  BY <1>2, <1>3 DEF After
<1>5. d = After(c, old, new, 2) /\ d.name = b.name
  BY <1>1, <1>3 DEF After
<1>6. KeyAfter(o.pk, old, new, 2) = KeyAfter(o.pk, old, new, 1)
  BY DEF KeyAfter
<1> HIDE DEF q, b
<1>7. ExecColumn(p, q) = IF can THEN {r} ELSE {}
  <2>1. q.column = b.name /\ b = p.columns[i]
    BY <1>1, <1>4 DEF b
  <2>2. q.do \in {"type", "cast"} => ExecColumn(p, q) =
              IF /\ Known(q.to) /\ ~Types[q.to[1]].serial
                 /\ <<b.type[1], Is(q.to)>> \in
                      (IF q.do = "type" \/ b.default # None THEN Assignable ELSE Castable)
              THEN {Swapped(p, i, [b EXCEPT !.type = <<Is(q.to), q.to[2]>>])} ELSE {}
    BY <1>3, <2>1, ExecColumnAt
  <2>3. QED
    BY <1>1, <1>4, <2>2
<1>8. can => UpTo(r, o, old, new, i, 2)
  <2> HIDE DEF d
  <2>1. /\ IsShaped(r) /\ r.kind = p.kind /\ r.pk = p.pk /\ DOMAIN r.columns = DOMAIN p.columns
        /\ r.columns[i] = d /\ \A k \in DOMAIN p.columns \ {i} : r.columns[k] = p.columns[k]
        /\ Unique(r)
    BY <1>3, <1>5, SwapKeepsNames DEF b
  <2> HIDE DEF r
  <2>2. QED
    BY <1>1, <1>3, <1>5, <1>6, <2>1 DEF UpTo
<1>9. ~can => ~CanAlter(c, o.pk, Range(Names(o.columns)), old, new)
  <2> SUFFICES ASSUME CanAlter(c, o.pk, Range(Names(o.columns)), old, new)
               PROVE  can
    OBVIOUS
  <2>1. /\ Types[c.type[1]].shown = old.data_type /\ Known(new.data_type) /\ ~Types[new.data_type[1]].serial
        /\ <<c.type[1], Is(new.data_type)>> \in (IF c.default = None THEN Castable ELSE Assignable)
    BY <1>1 DEF CanAlter
  <2>2. CASE c.default # None \/ q.do = "cast"
    BY <1>1, <2>1, <2>2
  <2>3. CASE c.default = None /\ q.do = "type"
    <3>1. ImplicitCast(Types[c.type[1]].shown[1], new.data_type[1])
      BY <1>1, <2>1, <2>3
    <3>2. <<c.type[1], Types[new.data_type[1]].is>> \in Assignable
      BY <1>2, <2>1, <2>3, <3>1, CastsAssumption DEF Known, Is
    <3>3. QED
      BY <2>1, <2>3, <3>2 DEF Is
  <2>4. QED
    BY <1>1, <2>2, <2>3
<1>10. QED
  BY <1>7, <1>8, <1>9 DEF Works, q

\* Whether the column may be null.
LEMMA RenullWorks ==
  ASSUME NEW o, NEW old, NEW new, NEW i, Alters(o, old, i), NEW p, UpTo(p, o, old, new, i, 2),
         NEW table, ~Same(old, new, 3), old.is_nullable \in BOOLEAN, new.is_nullable \in BOOLEAN
  PROVE  Works(p, Step(table, old, new, 3), o, old, new, i, 3)
<1> DEFINE q == Step(table, old, new, 3)
           c == o.columns[i]
           b == p.columns[i]
           d == [b EXCEPT !.null = new.is_nullable]
           can == ~(new.is_nullable /\ new.name \in p.pk)
           r == Swapped(p, i, d)
<1>1. q.do = "null" /\ q.column = new.name /\ q.to = new.is_nullable /\ old.is_nullable # new.is_nullable
  BY DEF Step, Same
<1>2. /\ c = [name |-> c.name, type |-> c.type, null |-> c.null, default |-> c.default, identity |-> c.identity]
      /\ c.name = old.name
  BY DEF Alters, IsObject, IsColumn, Range
<1>3. /\ IsShaped(p) /\ p.kind = o.kind /\ Unique(p) /\ DOMAIN p.columns = DOMAIN o.columns
      /\ \A k \in DOMAIN o.columns \ {i} : p.columns[k] = o.columns[k]
      /\ b = After(c, old, new, 2) /\ p.pk = KeyAfter(o.pk, old, new, 2) /\ i \in DOMAIN p.columns
      /\ old.data_type # new.data_type => Known(new.data_type)
  BY DEF UpTo, Alters
<1>4. b.name = new.name
  BY <1>2, <1>3 DEF After
<1>5. d = After(c, old, new, 3) /\ d.name = b.name
  BY <1>1, <1>3 DEF After
<1>6. KeyAfter(o.pk, old, new, 3) = KeyAfter(o.pk, old, new, 2)
  BY DEF KeyAfter
<1> HIDE DEF q, b
<1>7. ExecColumn(p, q) = IF can THEN {r} ELSE {}
  <2>1. q.column = b.name /\ b = p.columns[i]
    BY <1>1, <1>4 DEF b
  <2>2. q.do = "null" => ExecColumn(p, q) =
              IF ~(q.to /\ q.column \in p.pk) THEN {Swapped(p, i, [b EXCEPT !.null = q.to])} ELSE {}
    BY <1>3, <2>1, ExecColumnAt
  <2>3. QED
    BY <1>1, <2>2
<1>8. can => UpTo(r, o, old, new, i, 3)
  <2> HIDE DEF d
  <2>1. /\ IsShaped(r) /\ r.kind = p.kind /\ r.pk = p.pk /\ DOMAIN r.columns = DOMAIN p.columns
        /\ r.columns[i] = d /\ \A k \in DOMAIN p.columns \ {i} : r.columns[k] = p.columns[k]
        /\ Unique(r)
    BY <1>3, <1>5, SwapKeepsNames DEF b
  <2> HIDE DEF r
  <2>2. QED
    BY <1>1, <1>3, <1>5, <1>6, <2>1 DEF UpTo
<1>9. ~can => ~CanAlter(c, o.pk, Range(Names(o.columns)), old, new)
  <2> SUFFICES ASSUME ~can
               PROVE  c.name \in o.pk /\ ~old.is_nullable /\ new.is_nullable
    BY DEF CanAlter
  <2>1. ~old.is_nullable /\ new.is_nullable /\ new.name \in p.pk
    BY <1>1
  <2>2. CASE old.name = new.name
    BY <1>2, <1>3, <2>1, <2>2 DEF KeyAfter
  <2>3. CASE old.name # new.name /\ c.name \notin o.pk
    <3>1. new.name \in o.pk
      BY <1>2, <1>3, <2>1, <2>3 DEF KeyAfter
    <3>2. PICK k \in DOMAIN o.columns : o.columns[k].name = new.name
      BY <3>1 DEF Alters, IsObject, Range, Names
    <3>3. k # i
      BY <1>2, <2>3, <3>2
    <3>4. p.columns[k].name = p.columns[i].name
      BY <1>3, <1>4, <3>2, <3>3 DEF b
    <3>5. QED
      BY <1>3, <3>3, <3>4 DEF Unique
  <2>4. QED
    BY <2>1, <2>2, <2>3
<1>10. QED
  BY <1>7, <1>8, <1>9 DEF Works, q

\* Its default.
LEMMA RedefaultWorks ==
  ASSUME NEW o, NEW old, NEW new, NEW i, Alters(o, old, i), NEW p, UpTo(p, o, old, new, i, 3),
         NEW table, ~Same(old, new, 4)
  PROVE  Works(p, Step(table, old, new, 4), o, old, new, i, 4)
<1> DEFINE q == Step(table, old, new, 4)
           c == o.columns[i]
           b == p.columns[i]
           d == [b EXCEPT !.default = new.default_value]
           r == Swapped(p, i, d)
<1>1. q.do = "default" /\ q.column = new.name /\ q.to = new.default_value /\ old.default_value # new.default_value
  BY DEF Step, Same
<1>2. /\ c = [name |-> c.name, type |-> c.type, null |-> c.null, default |-> c.default, identity |-> c.identity]
      /\ c.name = old.name
  BY DEF Alters, IsObject, IsColumn, Range
<1>3. /\ IsShaped(p) /\ p.kind = o.kind /\ Unique(p) /\ DOMAIN p.columns = DOMAIN o.columns
      /\ \A k \in DOMAIN o.columns \ {i} : p.columns[k] = o.columns[k]
      /\ b = After(c, old, new, 3) /\ p.pk = KeyAfter(o.pk, old, new, 3) /\ i \in DOMAIN p.columns
      /\ old.data_type # new.data_type => Known(new.data_type)
  BY DEF UpTo, Alters
<1>4. b.name = new.name /\ b.identity = c.identity
  BY <1>2, <1>3 DEF After
<1>5. d = After(c, old, new, 4) /\ d.name = b.name
  BY <1>1, <1>3 DEF After
<1>6. KeyAfter(o.pk, old, new, 4) = KeyAfter(o.pk, old, new, 3)
  BY DEF KeyAfter
<1> HIDE DEF q, b
<1>7. ExecColumn(p, q) = IF ~c.identity THEN {r} ELSE {}
  <2>1. q.column = b.name /\ b = p.columns[i]
    BY <1>1, <1>4 DEF b
  <2>2. q.do = "default" => ExecColumn(p, q) =
              IF ~b.identity THEN {Swapped(p, i, [b EXCEPT !.default = q.to])} ELSE {}
    BY <1>3, <2>1, ExecColumnAt
  <2>3. QED
    BY <1>1, <1>4, <2>2
<1>8. ~c.identity => UpTo(r, o, old, new, i, 4)
  <2> HIDE DEF d
  <2>1. /\ IsShaped(r) /\ r.kind = p.kind /\ r.pk = p.pk /\ DOMAIN r.columns = DOMAIN p.columns
        /\ r.columns[i] = d /\ \A k \in DOMAIN p.columns \ {i} : r.columns[k] = p.columns[k]
        /\ Unique(r)
    BY <1>3, <1>5, SwapKeepsNames DEF b
  <2> HIDE DEF r
  <2>2. QED
    BY <1>3, <1>5, <1>6, <2>1 DEF UpTo
<1>9. c.identity => ~CanAlter(c, o.pk, Range(Names(o.columns)), old, new)
  BY <1>1 DEF CanAlter
<1>10. QED
  BY <1>7, <1>8, <1>9 DEF Works, q

\* All done, the column reads as altered and the others as they were.
AlteredIn(columns, old, new) ==
  [k \in DOMAIN columns |-> IF columns[k].name = old.name THEN Altered(columns[k], old, new) ELSE columns[k]]

\* So it reads.
LEMMA ReadAltered ==
  ASSUME NEW o, NEW old, NEW new, NEW i, Alters(o, old, i), NEW p, UpTo(p, o, old, new, i, 4)
  PROVE  TableColumns(p) = AlteredIn(TableColumns(o), old, new)
<1> DEFINE columns == TableColumns(o)
           K == DOMAIN o.columns
           c == o.columns[i]
           b == p.columns[i]
<1>1. DOMAIN columns = K /\ \A k \in K : columns[k] = TableColumn(o, o.columns[k])
  BY DEF TableColumns
<1>2. \A k \in K : columns[k].name = o.columns[k].name
  <2>1. \A x : TableColumn(o, x).name = x.name
    BY DEF TableColumn
  <2> HIDE DEF columns, K
  <2>2. QED
    BY <1>1, <2>1
<1>3. /\ i \in K /\ c.name = old.name /\ c.type[1] \in DOMAIN Types /\ o.pk \subseteq {o.columns[k].name : k \in K}
      /\ \A j \in K, k \in K : o.columns[j].name = o.columns[k].name => j = k
  <2>1. i \in K /\ c.name = old.name
    BY DEF Alters
  <2>2. c.type[1] \in DOMAIN Types
    BY <2>1 DEF Alters, IsObject, IsColumn, Known, Range
  <2>3. o.pk \subseteq {o.columns[k].name : k \in K}
    BY DEF Alters, IsObject, Range, Names
  <2>4. \A j \in K, k \in K : o.columns[j].name = o.columns[k].name => j = k
    BY DEF Alters, IsObject, IsInjective, Names
  <2>5. QED
    BY <2>1, <2>2, <2>3, <2>4
<1>4. /\ Unique(p) /\ DOMAIN p.columns = K /\ \A k \in K \ {i} : p.columns[k] = o.columns[k]
      /\ b = After(c, old, new, 4) /\ p.pk = KeyAfter(o.pk, old, new, 4)
      /\ old.data_type # new.data_type => Known(new.data_type)
      /\ old.default_value # new.default_value => ~c.identity
  BY DEF UpTo
<1>5. b.name = new.name
  BY <1>3, <1>4 DEF After
<1> HIDE DEF columns, K
<1>6. ASSUME NEW k \in K \ {i}
      PROVE  TableColumn(p, p.columns[k]) = columns[k] /\ columns[k].name # old.name
  <2> DEFINE name == o.columns[k].name
  <2>1. name # old.name /\ name # new.name
    BY <1>3, <1>4, <1>5, <1>6 DEF Unique
  <2>2. (name \in p.pk) = (name \in o.pk)
    BY <1>4, <2>1 DEF KeyAfter
  <2>3. TableColumn(p, o.columns[k]) = TableColumn(o, o.columns[k])
    BY <2>2 DEF TableColumn
  <2>4. QED
    BY <1>1, <1>2, <1>4, <2>1, <2>3
<1>7. TableColumn(p, b) = Altered(columns[i], old, new)
  <2> DEFINE was == columns[i]
  <2>1. /\ was.name = c.name /\ was.data_type = Types[c.type[1]].shown /\ was.is_pk = (c.name \in o.pk)
        /\ was.is_nullable = c.null
        /\ was.is_auto_increment = (c.identity \/ c.default = "nextval")
        /\ was.default_value = DefaultValue(c.default, c.identity \/ c.default = "nextval")
    BY <1>1, <1>3 DEF TableColumn
  <2>2. /\ b.type = IF old.data_type = new.data_type THEN c.type ELSE <<Is(new.data_type), new.data_type[2]>>
        /\ b.null = IF old.is_nullable = new.is_nullable THEN c.null ELSE new.is_nullable
        /\ b.default = IF old.default_value = new.default_value THEN c.default ELSE new.default_value
        /\ b.identity = c.identity
    BY <1>4 DEF After
  <2>3. Types[b.type[1]].shown =
          IF old.data_type = new.data_type THEN was.data_type ELSE Types[new.data_type[1]].shown
    BY <1>4, <2>1, <2>2, TypesAssumption DEF Known, Is
  <2>4. (b.name \in p.pk) = was.is_pk
    <3>1. CASE old.name = new.name
      BY <1>3, <1>4, <1>5, <2>1, <3>1 DEF KeyAfter
    <3>2. CASE old.name # new.name
      <4>1. new.name \notin o.pk
        <5>1. \A k \in K : o.columns[k].name # new.name
          BY <1>3, <1>4, <1>5, <3>2 DEF Unique
        <5>2. QED
          BY <1>3, <5>1
      <4>2. new.name \in p.pk <=> old.name \in o.pk
        BY <1>4, <3>2, <4>1 DEF KeyAfter
      <4>3. QED
        BY <1>3, <1>5, <2>1, <4>2
    <3>3. QED
      BY <3>1, <3>2
  <2>5. CASE old.default_value = new.default_value
    <3>1. b.default = c.default
      BY <2>2, <2>5
    <3> HIDE DEF was, b
    <3>2. TableColumn(p, b) =
            [name |-> new.name, data_type |-> Types[b.type[1]].shown, is_pk |-> was.is_pk, is_nullable |-> b.null,
             is_auto_increment |-> was.is_auto_increment, default_value |-> was.default_value]
      BY <1>5, <2>1, <2>2, <2>4, <3>1 DEF TableColumn
    <3>3. QED
      BY <2>1, <2>2, <2>3, <2>5, <3>2 DEF Altered, was
  <2>6. CASE old.default_value # new.default_value
    <3> DEFINE auto == new.default_value = "nextval"
    <3>1. b.default = new.default_value /\ ~b.identity
      BY <1>4, <2>2, <2>6
    <3> HIDE DEF was, b
    <3>2. (b.identity \/ b.default = "nextval") = auto
      BY <3>1
    <3>3. TableColumn(p, b) =
            [name |-> new.name, data_type |-> Types[b.type[1]].shown, is_pk |-> was.is_pk, is_nullable |-> b.null,
             is_auto_increment |-> auto, default_value |-> DefaultValue(new.default_value, auto)]
      BY <1>5, <2>4, <3>1, <3>2 DEF TableColumn
    <3>4. QED
      BY <2>1, <2>2, <2>3, <2>6, <3>3 DEF Altered, was
  <2>7. QED
    BY <2>5, <2>6
<1>8. \A k \in K : TableColumn(p, p.columns[k]) = IF columns[k].name = old.name
                                                  THEN Altered(columns[k], old, new) ELSE columns[k]
  BY <1>2, <1>3, <1>6, <1>7
<1>9. TableColumns(p) = [k \in K |-> TableColumn(p, p.columns[k])]
  BY <1>4 DEF TableColumns
<1>10. QED
  BY <1>1, <1>8, <1>9 DEF columns, AlteredIn

-----------------------------------------------------------------------------
(* An alteration, statement by statement. *)

\* The schema after the first n of an alteration of a table's column, and what is to run.
Stage(made, s, table, old, new, n) ==
  /\ IsTable(s, table) /\ IsSchema(made) /\ DOMAIN made.objects = DOMAIN s.objects
  /\ \A t \in DOMAIN s.objects \ {table} : made.objects[t] = s.objects[t]
  /\ \E i : Alters(s.objects[table], old, i) /\ UpTo(made.objects[table], s.objects[table], old, new, i, n)

Stands(made, s, table, old, new, todo, n) ==
  todo = Rest(table, old, new, n) /\ Stage(made, s, table, old, new, n)

\* Statement m comes next, n are done.
Turn(made, s, table, old, new, todo, n, m) ==
  /\ todo # <<>> /\ Head(todo) = Step(table, old, new, m) /\ Tail(todo) = Rest(table, old, new, m)
  /\ ~Same(old, new, m)
  /\ Stage(made, s, table, old, new, n)

Comes(made, s, table, old, new, todo) ==
  \/ todo = <<>> /\ Stage(made, s, table, old, new, 4)
  \/ Turn(made, s, table, old, new, todo, 0, 1)
  \/ Turn(made, s, table, old, new, todo, 1, 2)
  \/ Turn(made, s, table, old, new, todo, 2, 3)
  \/ Turn(made, s, table, old, new, todo, 3, 4)

\* What is left out is skipped.
LEMMA ComesNext ==
  ASSUME NEW made, NEW s, NEW table, NEW old, NEW new, NEW todo,
         \/ Stands(made, s, table, old, new, todo, 0) \/ Stands(made, s, table, old, new, todo, 1)
         \/ Stands(made, s, table, old, new, todo, 2) \/ Stands(made, s, table, old, new, todo, 3)
         \/ Stands(made, s, table, old, new, todo, 4)
  PROVE  Comes(made, s, table, old, new, todo)
<1>1. Stands(made, s, table, old, new, todo, 4) => Comes(made, s, table, old, new, todo)
  BY RestEffect DEF Stands, Comes
<1>2. Stands(made, s, table, old, new, todo, 3) => Comes(made, s, table, old, new, todo)
  <2> SUFFICES ASSUME Stands(made, s, table, old, new, todo, 3)
               PROVE  Comes(made, s, table, old, new, todo)
    OBVIOUS
  <2>1. Peeled(Same(old, new, 4), Step(table, old, new, 4), todo, Rest(table, old, new, 4))
    BY RestEffect DEF Stands
  <2>2. CASE Same(old, new, 4)
    <3>1. todo = Rest(table, old, new, 4)
      BY <2>1, <2>2 DEF Peeled
    <3>2. Stage(made, s, table, old, new, 4)
      BY <2>2, UpToSkips4 DEF Stands, Stage
    <3>3. QED
      BY <1>1, <3>1, <3>2 DEF Stands
  <2>3. CASE ~Same(old, new, 4)
    <3>1. todo # <<>> /\ Head(todo) = Step(table, old, new, 4) /\ Tail(todo) = Rest(table, old, new, 4)
      BY <2>1, <2>3 DEF Peeled
    <3>2. QED
      BY <2>3, <3>1 DEF Stands, Turn, Comes
  <2>4. QED
    BY <2>2, <2>3
<1>3. Stands(made, s, table, old, new, todo, 2) => Comes(made, s, table, old, new, todo)
  <2> SUFFICES ASSUME Stands(made, s, table, old, new, todo, 2)
               PROVE  Comes(made, s, table, old, new, todo)
    OBVIOUS
  <2>1. Peeled(Same(old, new, 3), Step(table, old, new, 3), todo, Rest(table, old, new, 3))
    BY RestEffect DEF Stands
  <2>2. CASE Same(old, new, 3)
    <3>1. todo = Rest(table, old, new, 3)
      BY <2>1, <2>2 DEF Peeled
    <3>2. Stage(made, s, table, old, new, 3)
      BY <2>2, UpToSkips3 DEF Stands, Stage
    <3>3. QED
      BY <1>2, <3>1, <3>2 DEF Stands
  <2>3. CASE ~Same(old, new, 3)
    <3>1. todo # <<>> /\ Head(todo) = Step(table, old, new, 3) /\ Tail(todo) = Rest(table, old, new, 3)
      BY <2>1, <2>3 DEF Peeled
    <3>2. QED
      BY <2>3, <3>1 DEF Stands, Turn, Comes
  <2>4. QED
    BY <2>2, <2>3
<1>4. Stands(made, s, table, old, new, todo, 1) => Comes(made, s, table, old, new, todo)
  <2> SUFFICES ASSUME Stands(made, s, table, old, new, todo, 1)
               PROVE  Comes(made, s, table, old, new, todo)
    OBVIOUS
  <2>1. Peeled(Same(old, new, 2), Step(table, old, new, 2), todo, Rest(table, old, new, 2))
    BY RestEffect DEF Stands
  <2>2. CASE Same(old, new, 2)
    <3>1. todo = Rest(table, old, new, 2)
      BY <2>1, <2>2 DEF Peeled
    <3>2. Stage(made, s, table, old, new, 2)
      BY <2>2, UpToSkips2 DEF Stands, Stage
    <3>3. QED
      BY <1>3, <3>1, <3>2 DEF Stands
  <2>3. CASE ~Same(old, new, 2)
    <3>1. todo # <<>> /\ Head(todo) = Step(table, old, new, 2) /\ Tail(todo) = Rest(table, old, new, 2)
      BY <2>1, <2>3 DEF Peeled
    <3>2. QED
      BY <2>3, <3>1 DEF Stands, Turn, Comes
  <2>4. QED
    BY <2>2, <2>3
<1>5. Stands(made, s, table, old, new, todo, 0) => Comes(made, s, table, old, new, todo)
  <2> SUFFICES ASSUME Stands(made, s, table, old, new, todo, 0)
               PROVE  Comes(made, s, table, old, new, todo)
    OBVIOUS
  <2>1. Peeled(Same(old, new, 1), Step(table, old, new, 1), todo, Rest(table, old, new, 1))
    BY RestEffect DEF Stands
  <2>2. CASE Same(old, new, 1)
    <3>1. todo = Rest(table, old, new, 1)
      BY <2>1, <2>2 DEF Peeled
    <3>2. Stage(made, s, table, old, new, 1)
      BY <2>2, UpToSkips1 DEF Stands, Stage
    <3>3. QED
      BY <1>4, <3>1, <3>2 DEF Stands
  <2>3. CASE ~Same(old, new, 1)
    <3>1. todo # <<>> /\ Head(todo) = Step(table, old, new, 1) /\ Tail(todo) = Rest(table, old, new, 1)
      BY <2>1, <2>3 DEF Peeled
    <3>2. QED
      BY <2>3, <3>1 DEF Stands, Turn, Comes
  <2>4. QED
    BY <2>2, <2>3
<1>6. QED
  BY <1>1, <1>2, <1>3, <1>4, <1>5

\* The alteration the server could make.
CanIn(s, table, old, new) ==
  /\ table \in DOMAIN s.objects /\ s.objects[table].kind = "table"
  /\ LET o == s.objects[table]
     IN  \E c \in Range(o.columns) : c.name = old.name /\ CanAlter(c, o.pk, Range(Names(o.columns)), old, new)

\* A statement that works on the table works on the schema.
LEMMA WorksIn ==
  ASSUME NEW made, NEW s, NEW table, NEW old, NEW new, NEW n, NEW m, Stage(made, s, table, old, new, n),
         NEW q, q.table = table, q.do \in {"rename", "type", "cast", "null", "default"},
         \A i, p : Alters(s.objects[table], old, i) /\ UpTo(p, s.objects[table], old, new, i, n)
                     => Works(p, q, s.objects[table], old, new, i, m)
  PROVE  /\ \A r \in Exec(made, q) : Stage(r, s, table, old, new, m)
         /\ Exec(made, q) = {} => ~CanIn(s, table, old, new)
<1> DEFINE o == s.objects[table]
           p == made.objects[table]
<1>1. PICK i : Alters(o, old, i) /\ UpTo(p, o, old, new, i, n)
  BY DEF Stage
<1>2. Works(p, q, o, old, new, i, m)
  BY <1>1
<1>3. IsTable(made, table)
  BY <1>1 DEF Stage, IsTable, UpTo
<1>4. Exec(made, q) = {Put(made, table, r) : r \in ExecColumn(p, q)}
  BY <1>3, ExecOnColumn
<1>5. ASSUME NEW r \in ExecColumn(p, q)
      PROVE  Stage(Put(made, table, r), s, table, old, new, m)
  <2> DEFINE next == Put(made, table, r)
  <2>1. /\ IsSchema(next) /\ DOMAIN next.objects = DOMAIN made.objects \cup {table} /\ next.objects[table] = r
        /\ \A t \in DOMAIN made.objects \ {table} : next.objects[t] = made.objects[t]
    BY <1>3, PutEffect DEF IsTable
  <2>2. UpTo(r, o, old, new, i, m)
    BY <1>2, <1>5 DEF Works
  <2> HIDE DEF next
  <2>3. Stage(next, s, table, old, new, m)
    BY <1>1, <1>3, <2>1, <2>2 DEF Stage, IsTable
  <2>4. QED
    BY <2>3 DEF next
<1>6. ASSUME Exec(made, q) = {}
      PROVE  ~CanIn(s, table, old, new)
  <2>1. ExecColumn(p, q) = {}
    BY <1>4, <1>6
  <2>2. ~CanAlter(o.columns[i], o.pk, Range(Names(o.columns)), old, new)
    BY <1>2, <2>1 DEF Works
  <2>3. \A c \in Range(o.columns) : c.name = old.name => c = o.columns[i]
    <3>1. Unique(o)
      BY <1>1 DEF Alters, IsObject, IsInjective, Names, Unique
    <3>2. QED
      BY <1>1, <3>1 DEF Alters, Unique, Range
  <2>4. QED
    BY <2>2, <2>3 DEF CanIn
<1>7. QED
  BY <1>4, <1>5, <1>6

\* Every statement of an alteration is one of the table's.
LEMMA StepIs ==
  ASSUME NEW table, NEW old, NEW new, NEW n \in {1, 2, 3, 4}
  PROVE  /\ Step(table, old, new, n).table = table
         /\ Step(table, old, new, n).do \in {"rename", "type", "cast", "null", "default"}
         /\ Step(table, old, new, n).column = IF n = 1 THEN old.name ELSE new.name
<1>1. CASE n = 1
  BY <1>1 DEF Step
<1>2. CASE n = 2
  BY <1>2 DEF Step
<1>3. CASE n = 3
  BY <1>3 DEF Step
<1>4. CASE n = 4
  BY <1>4 DEF Step
<1>5. QED
  BY <1>1, <1>2, <1>3, <1>4

\* The statement whose turn it is takes the alteration one further, or is refused for a reason.
LEMMA TurnWorks ==
  ASSUME NEW made, NEW s, NEW table, NEW old, NEW new, NEW n, NEW m,
         old.is_nullable \in BOOLEAN, new.is_nullable \in BOOLEAN,
         <<n, m>> \in {<<0, 1>>, <<1, 2>>, <<2, 3>>, <<3, 4>>},
         Stage(made, s, table, old, new, n), ~Same(old, new, m)
  PROVE  LET q == Step(table, old, new, m)
         IN  /\ \A r \in Exec(made, q) : Stage(r, s, table, old, new, m)
             /\ Exec(made, q) = {} => ~CanIn(s, table, old, new)
<1> DEFINE q == Step(table, old, new, m)
           o == s.objects[table]
<1>1. m \in {1, 2, 3, 4}
  OBVIOUS
<1>2. q.table = table /\ q.do \in {"rename", "type", "cast", "null", "default"}
  BY <1>1, StepIs
<1>3. ASSUME NEW i, NEW p, Alters(o, old, i), UpTo(p, o, old, new, i, n)
      PROVE  Works(p, q, o, old, new, i, m)
  <2>1. CASE n = 0 /\ m = 1
    BY <1>3, <2>1, RenameWorks
  <2>2. CASE n = 1 /\ m = 2
    BY <1>3, <2>2, RetypeWorks
  <2>3. CASE n = 2 /\ m = 3
    BY <1>3, <2>3, RenullWorks
  <2>4. CASE n = 3 /\ m = 4
    BY <1>3, <2>4, RedefaultWorks
  <2>5. QED
    BY <2>1, <2>2, <2>3, <2>4
<1> HIDE DEF q
<1>4. QED
  BY <1>2, <1>3, WorksIn DEF q

\* An alteration under way.
Altering(made, s, table, old, new, todo) ==
  \/ Stands(made, s, table, old, new, todo, 1) \/ Stands(made, s, table, old, new, todo, 2)
  \/ Stands(made, s, table, old, new, todo, 3) \/ Stands(made, s, table, old, new, todo, 4)

\* The host runs its next statement.
LEMMA AlterGoesOn ==
  ASSUME NEW made, NEW s, NEW table, NEW old, NEW new, NEW todo,
         Comes(made, s, table, old, new, todo), todo # <<>>,
         old.is_nullable \in BOOLEAN, new.is_nullable \in BOOLEAN
  PROVE  /\ \A r \in Exec(made, Head(todo)) : Altering(r, s, table, old, new, Tail(todo))
         /\ Exec(made, Head(todo)) = {} => ~CanIn(s, table, old, new)
<1>1. PICK n, m : /\ Turn(made, s, table, old, new, todo, n, m)
                  /\ <<n, m>> \in {<<0, 1>>, <<1, 2>>, <<2, 3>>, <<3, 4>>}
  BY DEF Comes
<1>2. /\ Head(todo) = Step(table, old, new, m) /\ Tail(todo) = Rest(table, old, new, m)
      /\ ~Same(old, new, m) /\ Stage(made, s, table, old, new, n)
  BY <1>1 DEF Turn
<1>3. /\ \A r \in Exec(made, Head(todo)) : Stage(r, s, table, old, new, m)
      /\ Exec(made, Head(todo)) = {} => ~CanIn(s, table, old, new)
  BY <1>1, <1>2, TurnWorks
<1>4. m \in {1, 2, 3, 4}
  BY <1>1
<1>5. ASSUME NEW r \in Exec(made, Head(todo))
      PROVE  Altering(r, s, table, old, new, Tail(todo))
  <2>1. Stands(r, s, table, old, new, Tail(todo), m)
    BY <1>2, <1>3, <1>5 DEF Stands
  <2>2. QED
    BY <1>4, <2>1 DEF Altering
<1>6. QED
  BY <1>3, <1>5

\* The first statement looks for the column as it was named.
LEMMA FirstLooks ==
  ASSUME NEW table, NEW old, NEW new, NEW todo, todo = AlterColumn(table, old, new), todo # <<>>
  PROVE  LET q == Head(todo)
         IN  q.table = table /\ q.do \in {"rename", "type", "cast", "null", "default"} /\ q.column = old.name
<1>1. todo = Rest(table, old, new, 0) /\ Rest(table, old, new, 4) = <<>>
  BY RestEffect
<1>2. ASSUME NEW m \in {1, 2, 3, 4}, Head(todo) = Step(table, old, new, m), m = 1 \/ Same(old, new, 1)
      PROVE  LET q == Head(todo)
             IN  q.table = table /\ q.do \in {"rename", "type", "cast", "null", "default"} /\ q.column = old.name
  BY <1>2, StepIs DEF Same
<1>3. CASE ~Same(old, new, 1)
  BY <1>1, <1>2, <1>3, RestEffect DEF Peeled
<1>4. CASE Same(old, new, 1) /\ ~Same(old, new, 2)
  <2>1. todo = Rest(table, old, new, 1)
    BY <1>1, <1>4, RestEffect DEF Peeled
  <2>2. Head(todo) = Step(table, old, new, 2)
    BY <1>4, <2>1, RestEffect DEF Peeled
  <2>3. QED
    BY <1>2, <1>4, <2>2
<1>5. CASE Same(old, new, 1) /\ Same(old, new, 2)
  <2>1. todo = Rest(table, old, new, 2)
    BY <1>1, <1>5, RestEffect DEF Peeled
  <2>2. CASE ~Same(old, new, 3)
    <3>1. Head(todo) = Step(table, old, new, 3)
      BY <2>1, <2>2, RestEffect DEF Peeled
    <3>2. QED
      BY <1>2, <1>5, <3>1
  <2>3. CASE Same(old, new, 3)
    <3>1. todo = Rest(table, old, new, 3)
      BY <2>1, <2>3, RestEffect DEF Peeled
    <3>2. Head(todo) = Step(table, old, new, 4)
      BY <1>1, <3>1, RestEffect DEF Peeled
    <3>3. QED
      BY <1>2, <1>5, <3>2
  <2>4. QED
    BY <2>2, <2>3
<1>6. QED
  BY <1>3, <1>4, <1>5

\* What an alteration begins with.
LEMMA AlterBegins ==
  ASSUME NEW s, IsSchema(s), NEW table, table \in DOMAIN s.objects => IsObject(s.objects[table]),
         NEW old, NEW new, NEW todo, todo = AlterColumn(table, old, new), todo # <<>>,
         old.is_nullable \in BOOLEAN, new.is_nullable \in BOOLEAN
  PROVE  /\ \A r \in Exec(s, Head(todo)) : Altering(r, s, table, old, new, Tail(todo))
         /\ Exec(s, Head(todo)) = {} => ~CanIn(s, table, old, new)
<1> DEFINE o == s.objects[table]
<1>1. CASE IsTable(s, table) /\ old.name \in Taken(o)
  <2>1. PICK i : Alters(o, old, i)
    BY <1>1 DEF IsTable, Taken, Range, Alters
  <2>2. Stage(s, s, table, old, new, 0)
    BY <1>1, <2>1, UpToFirst DEF Stage
  <2>3. Stands(s, s, table, old, new, todo, 0)
    BY <2>2, RestEffect DEF Stands
  <2>4. QED
    BY <2>3, ComesNext, AlterGoesOn
<1>2. CASE ~(IsTable(s, table) /\ old.name \in Taken(o))
  <2>1. PICK q : q = Head(todo)
    OBVIOUS
  <2>2. q.table = table /\ q.do \in {"rename", "type", "cast", "null", "default"} /\ q.column = old.name
    BY <2>1, FirstLooks
  <2>3. Exec(s, q) = {}
    BY <1>2, <2>2, NoColumn
  <2>4. ~CanIn(s, table, old, new)
    BY <1>2 DEF CanIn, IsTable, Taken, Range
  <2>5. QED
    BY <2>1, <2>3, <2>4
<1>3. QED
  BY <1>1, <1>2

\* When all has run, the column reads as altered, and all else as it did.
LEMMA AlterEnds ==
  ASSUME NEW made, NEW s, NEW table, NEW old, NEW new, NEW todo,
         Altering(made, s, table, old, new, todo), todo = <<>>
  PROVE  Left(made, s, table, AlteredIn(ColumnsOf(s, table), old, new))
<1> DEFINE o == s.objects[table]
           p == made.objects[table]
<1>1. Stage(made, s, table, old, new, 4)
  <2>1. Comes(made, s, table, old, new, todo)
    BY ComesNext DEF Altering
  <2>2. QED
    BY <2>1 DEF Comes, Turn
<1>2. PICK i : Alters(o, old, i) /\ UpTo(p, o, old, new, i, 4)
  BY <1>1 DEF Stage
<1>3. ColumnsOf(s, table) = TableColumns(o)
  BY <1>1, TableRead DEF Stage
<1>4. ColumnsOf(made, table) = TableColumns(p)
  <2>1. IsTable(made, table)
    BY <1>1, <1>2 DEF Stage, IsTable, UpTo
  <2>2. QED
    BY <2>1, TableRead
<1>5. TableColumns(p) = AlteredIn(TableColumns(o), old, new)
  BY <1>2, ReadAltered
<1>6. QED
  BY <1>1, <1>3, <1>4, <1>5 DEF Left, Stage

-----------------------------------------------------------------------------
(* The theorem of the builders. *)

\* What is asked of a table: the columns wanted, and whether the server could make them.
Makes(q, s, table, wanted, can) ==
  /\ \A made \in Exec(s, q) : Left(made, s, table, wanted)
  /\ Exec(s, q) = {} => ~can

\* All builders but one have the host run one statement.
LEMMA OneStatement ==
  ASSUME From \in Schema, req.op \in Builders, req.op # "get_alter_column_sql", AskedCoherently
  PROVE  \E q : Built(req.op, req.name, req.arg) = <<q>> /\ Makes(q, From, req.name, Wanted, Can)
<1>1. PICK s, table, arg : s = From /\ table = req.name /\ arg = req.arg
  OBVIOUS
<1>2. IsSchema(s) /\ (table \in DOMAIN s.objects => IsObject(s.objects[table]) /\ IsShaped(s.objects[table]))
  BY <1>1, SchemaAssumption DEF IsSchema, IsObject, IsShaped
<1>3. CASE req.op = "get_create_table_sql"
  <2>1. /\ \A c \in Range(arg) : Coherent(c)
        /\ Built(req.op, req.name, req.arg) = CreateTable(table, arg)
        /\ Wanted = [k \in DOMAIN arg |-> Expected(arg[k], arg[k].is_pk)]
        /\ Can = (/\ table \notin DOMAIN s.objects /\ IsInjective(Names(arg))
                  /\ \A c \in Range(arg) : Known(c.data_type))
    BY <1>1, <1>3 DEF AskedCoherently, Built, Wanted, Can
  <2>2. PICK q : CreateTable(table, arg) = <<q>>
    BY DEF CreateTable
  <2>3. q = CreateTable(table, arg)[1]
    BY <2>2
  <2>4. Makes(q, s, table, Wanted, Can)
    BY <1>2, <2>1, <2>3, CreateRight DEF Makes
  <2>5. QED
    BY <1>1, <2>1, <2>2, <2>4
<1>4. CASE req.op = "get_add_column_sql"
  <2>1. /\ Coherent(arg)
        /\ Built(req.op, req.name, req.arg) = AddColumn(table, arg)
        /\ Wanted = Append(ColumnsOf(s, table), Expected(arg, FALSE))
        /\ Can = (/\ table \in DOMAIN s.objects /\ s.objects[table].kind = "table" /\ Known(arg.data_type)
                  /\ arg.name \notin Range(Names(s.objects[table].columns)))
    BY <1>1, <1>4 DEF AskedCoherently, Built, Wanted, Can
  <2>2. PICK q : AddColumn(table, arg) = <<q>>
    BY DEF AddColumn
  <2>3. q = AddColumn(table, arg)[1]
    BY <2>2
  <2>4. Makes(q, s, table, Wanted, Can)
    BY <1>2, <2>1, <2>3, AddRight DEF Makes
  <2>5. QED
    BY <1>1, <2>1, <2>2, <2>4
<1>5. CASE req.op \in {"get_create_index_sql", "get_create_foreign_key_sql"}
  <2>1. /\ Built(req.op, req.name, req.arg) \in {CreateIndex(table, arg), CreateForeignKey(table, arg)}
        /\ Wanted = ColumnsOf(s, table)
        /\ Can = (table \in DOMAIN s.objects /\ s.objects[table].kind = "table")
    BY <1>1, <1>5 DEF Built, Wanted, Can
  <2>2. PICK q : Built(req.op, req.name, req.arg) = <<q>>
    BY <2>1 DEF CreateIndex, CreateForeignKey
  <2>3. q \in {CreateIndex(table, arg)[1], CreateForeignKey(table, arg)[1]}
    BY <2>1, <2>2
  <2>4. Makes(q, s, table, Wanted, Can)
    BY <1>2, <2>1, <2>3, IndexRight DEF Makes
  <2>5. QED
    BY <1>1, <2>2, <2>4
<1>6. QED
  BY <1>3, <1>4, <1>5 DEF Builders

\* Where the host is with the statements built for it, when nothing else changes the schema.
Asked == req.op \in Builders /\ Quiet /\ AskedCoherently

DdlRuns ==
  Asked /\ req.pc = "running" =>
    \/ schema = From /\ req.todo = Built(req.op, req.name, req.arg) /\ req.todo # <<>>
    \/ req.op # "get_alter_column_sql" /\ req.todo = <<>> /\ Left(schema, From, req.name, Wanted)
    \/ /\ req.op = "get_alter_column_sql"
       /\ Altering(schema, From, req.name, req.arg.old, req.arg.new, req.todo)

\* What is asked stays the same while the request does.
LEMMA AskedStays ==
  ASSUME past' = past, SameAsked
  PROVE  /\ Asked' = Asked /\ From' = From /\ Wanted' = Wanted /\ Can' = Can
         /\ Built(req'.op, req'.name, req'.arg) = Built(req.op, req.name, req.arg)
<1>1. From' = From /\ Quiet' = Quiet
  BY DEF From, Quiet
<1>2. AskedCoherently' = AskedCoherently
  BY DEF SameAsked, AskedCoherently
<1>3. Asked' = Asked
  BY <1>1, <1>2 DEF SameAsked, Asked
<1>4. Wanted' = Wanted
  BY <1>1 DEF SameAsked, Wanted
<1>5. Can' = Can
  BY <1>1 DEF SameAsked, Can
<1>6. QED
  BY <1>1, <1>3, <1>4, <1>5 DEF SameAsked

\* What a running alteration wants and can.
LEMMA AlterWants ==
  ASSUME req.op = "get_alter_column_sql"
  PROVE  /\ Wanted = AlteredIn(ColumnsOf(From, req.name), req.arg.old, req.arg.new)
         /\ Can <=> CanIn(From, req.name, req.arg.old, req.arg.new)
         /\ Built(req.op, req.name, req.arg) = AlterColumn(req.name, req.arg.old, req.arg.new)
  BY DEF Wanted, AlteredIn, Can, CanIn, Built

\* A statement run leaves things where they should be, or is refused for a reason.
LEMMA HostRunsRight ==
  ASSUME IsRequest(req), Lived, DdlRuns, HostRuns, Asked
  PROVE  DdlRuns' /\ (req'.pc = "refused" => ~Can)
<1> DEFINE todo == req.todo
           q == Head(todo)
<1>1. From \in Schema
  BY DEF Asked, Quiet, From, Lived
<1>2. PICK s, table : s = From /\ table = req.name
  OBVIOUS
<1>3. IsSchema(s) /\ (table \in DOMAIN s.objects => IsObject(s.objects[table]))
  BY <1>1, <1>2, SchemaAssumption DEF IsSchema
<1>4. /\ req.pc = "running" /\ todo # <<>> /\ past' = past /\ SameAsked
      /\ \/ schema' \in Exec(schema, q) /\ req'.pc = "running" /\ req'.todo = Tail(todo)
         \/ Exec(schema, q) = {} /\ req'.pc = "refused"
         \/ req'.pc = "error"
  BY DEF HostRuns, SameAsked, IsRequest
<1>5. CASE req.op # "get_alter_column_sql"
  <2>1. schema = From /\ todo = Built(req.op, req.name, req.arg)
    BY <1>4, <1>5 DEF DdlRuns
  <2>2. PICK x : Built(req.op, req.name, req.arg) = <<x>> /\ Makes(x, From, req.name, Wanted, Can)
    BY <1>1, <1>5, OneStatement DEF Asked
  <2>3. q = x /\ Tail(todo) = <<>>
    BY <2>1, <2>2
  <2>4. CASE schema' \in Exec(schema, q) /\ req'.pc = "running" /\ req'.todo = Tail(todo)
    <3>1. Left(schema', From, req.name, Wanted)
      BY <2>1, <2>2, <2>3, <2>4 DEF Makes
    <3>2. /\ From' = From /\ Wanted' = Wanted /\ req'.name = req.name /\ req'.op = req.op
      BY <1>4, AskedStays DEF SameAsked
    <3>3. DdlRuns'
      BY <1>5, <2>3, <2>4, <3>1, <3>2 DEF DdlRuns
    <3>4. QED
      BY <2>4, <3>3
  <2>5. CASE Exec(schema, q) = {} /\ req'.pc = "refused"
    BY <2>1, <2>2, <2>3, <2>5 DEF Makes, DdlRuns
  <2>6. CASE req'.pc = "error"
    BY <2>6 DEF DdlRuns
  <2>7. QED
    BY <1>4, <2>4, <2>5, <2>6
<1>6. CASE req.op = "get_alter_column_sql"
  <2>1. PICK old, new : old = req.arg.old /\ new = req.arg.new
    OBVIOUS
  <2>2. old.is_nullable \in BOOLEAN /\ new.is_nullable \in BOOLEAN
    BY <1>6, <2>1 DEF Asked, AskedCoherently
  <2>3. /\ \A r \in Exec(schema, q) : Altering(r, s, table, old, new, Tail(todo))
        /\ Exec(schema, q) = {} => ~CanIn(s, table, old, new)
    <3>1. CASE schema = From /\ todo = Built(req.op, req.name, req.arg)
      <4>1. todo = AlterColumn(table, old, new)
        BY <1>2, <1>6, <2>1, <3>1, AlterWants
      <4>2. QED
        BY <1>2, <1>3, <1>4, <2>2, <3>1, <4>1, AlterBegins
    <3>2. CASE Altering(schema, From, req.name, req.arg.old, req.arg.new, todo)
      <4>1. Comes(schema, s, table, old, new, todo)
        BY <1>2, <2>1, <3>2, ComesNext DEF Altering
      <4>2. QED
        BY <1>4, <2>2, <4>1, AlterGoesOn
    <3>3. QED
      BY <1>4, <1>6, <3>1, <3>2 DEF DdlRuns
  <2>4. CASE schema' \in Exec(schema, q) /\ req'.pc = "running" /\ req'.todo = Tail(todo)
    <3>1. Altering(schema', s, table, old, new, req'.todo)
      BY <2>3, <2>4
    <3>2. From' = From /\ req'.name = req.name /\ req'.op = req.op /\ req'.arg = req.arg
      BY <1>4, AskedStays DEF SameAsked
    <3>3. DdlRuns'
      BY <1>2, <1>6, <2>1, <3>1, <3>2 DEF DdlRuns
    <3>4. QED
      BY <2>4, <3>3
  <2>5. CASE Exec(schema, q) = {} /\ req'.pc = "refused"
    <3>1. ~Can
      BY <1>2, <1>6, <2>1, <2>3, <2>5, AlterWants
    <3>2. QED
      BY <2>5, <3>1 DEF DdlRuns
  <2>6. CASE req'.pc = "error"
    BY <2>6 DEF DdlRuns
  <2>7. QED
    BY <1>4, <2>4, <2>5, <2>6
<1>7. QED
  BY <1>5, <1>6

\* All run, the table is as wanted.
LEMMA RunsRight ==
  ASSUME DdlRuns, Asked, req.pc = "running", req.todo = <<>>
  PROVE  Left(schema, From, req.name, Wanted)
<1>1. CASE req.op # "get_alter_column_sql"
  BY <1>1 DEF DdlRuns
<1>2. CASE req.op = "get_alter_column_sql"
  <2>1. PICK s, table, old, new : s = From /\ table = req.name /\ old = req.arg.old /\ new = req.arg.new
    OBVIOUS
  <2>2. Altering(schema, s, table, old, new, req.todo)
    BY <1>2, <2>1 DEF DdlRuns
  <2>3. Left(schema, s, table, AlteredIn(ColumnsOf(s, table), old, new))
    BY <2>2, AlterEnds
  <2>4. QED
    BY <1>2, <2>1, <2>3, AlterWants
<1>3. QED
  BY <1>1, <1>2

\* The host's request as long as it has statements to run.
Builds == IsRequest(req) /\ Lived /\ DdlRuns /\ (Asked /\ req.pc = "refused" => ~Can)

\* Every step keeps it.
LEMMA BuildsInductive ==
  ASSUME Builds, [Next]_vars
  PROVE  Builds'
<1>1. CASE Next
  <2>1. IsRequest(req') /\ Lived'
    BY <1>1, StepKinds, LivedKept DEF Builds
  <2>2. CASE HostRuns
    <3>1. past' = past /\ SameAsked
      BY <2>2 DEF HostRuns, SameAsked, Builds, IsRequest
    <3>2. Asked' = Asked /\ Can' = Can
      BY <3>1, AskedStays
    <3>3. CASE Asked
      BY <2>1, <2>2, <3>2, <3>3, HostRunsRight DEF Builds
    <3>4. CASE ~Asked
      BY <2>1, <3>2, <3>4 DEF Builds, DdlRuns
    <3>5. QED
      BY <3>3, <3>4
  <2>3. CASE Build
    <3>1. /\ past' = past /\ SameAsked /\ schema' = schema /\ req.pc = "first" /\ req'.pc \in {"running", "error"}
          /\ req'.pc = "running" => /\ req'.todo = Built(req.op, req.name, req.arg) /\ req'.todo # <<>>
      BY <2>3, ErrsEffect DEF Build, SameAsked, Builds, IsRequest
    <3>2. Asked' = Asked /\ From' = From
            /\ Built(req'.op, req'.name, req'.arg) = Built(req.op, req.name, req.arg)
      BY <3>1, AskedStays
    <3>3. Asked => schema = From
      BY <3>1, Now DEF Builds, Asked, Quiet, From, Open
    <3>4. DdlRuns'
      BY <3>1, <3>2, <3>3 DEF DdlRuns
    <3>5. QED
      BY <2>1, <3>1, <3>4 DEF Builds
  <2>4. CASE OthersChange
    <3>1. ~Quiet'
      <4>1. PICK x \in Schema : past' = Append(past, x)
        BY <2>4 DEF OthersChange
      <4>2. past \in Seq(Schema) /\ past # <<>>
        BY <2>4, MomentsStay DEF Builds, Lived
      <4>3. QED
        BY <4>1, <4>2 DEF Quiet
    <3>2. QED
      BY <2>1, <3>1 DEF Builds, DdlRuns, Asked
  <2>5. CASE req'.pc \notin {"running", "refused"}
    BY <2>1, <2>5 DEF Builds, DdlRuns
  <2>6. QED
    <3>1. CASE Ask
      BY <2>5, <3>1 DEF Ask, Builds, IsRequest
    <3>2. CASE ReadOnce \/ ReadRoutineDefinition \/ ReadRoutines \/ DropRoutine \/ Change \/ QueryFails
      BY <2>5, <3>2, RepliesEffect, ErrsEffect
         DEF ReadOnce, ReadRoutineDefinition, ReadRoutines, DropRoutine, Change, QueryFails, Builds
    <3>3. CASE Reads \/ Decides \/ Tells
      BY <2>5, <3>3, GoesEffect, RepliesEffect, ErrsEffect
         DEF Reads, Decides, Tells, ReadTables, ReadColumns, ReadReturnValue, ReadVersion, EnsureBaseTable,
             LookUpRoutine, ReadForeignKeys, ReadTableColumns, ReadParameters, Builds
    <3>4. QED
      BY <1>1, <2>2, <2>3, <2>4, <3>1, <3>2, <3>3 DEF Next, Reads, Decides, Tells
<1>2. CASE UNCHANGED vars
  <2>1. past' = past /\ SameAsked /\ req' = req /\ schema' = schema
    BY <1>2 DEF vars, SameAsked
  <2>2. IsRequest(req') /\ Lived'
    BY <2>1 DEF Builds, Lived
  <2>3. DdlRuns'
    BY <2>1, AskedStays DEF Builds, DdlRuns
  <2>4. QED
    BY <2>1, <2>2, <2>3, AskedStays DEF Builds
<1>3. QED
  BY <1>1, <1>2

\* For any schemas, types and definitions: the statements built, run in their order, leave a
\* table whose columns read as defined, and the server refuses none it could have taken.
THEOREM BuildersMakeWhatWasAsked == Spec => []DdlRight
<1>1. Init => Builds
  BY DEF Init, Builds, IsRequest, Lived, DdlRuns, Open
<1>2. Builds /\ [Next]_vars => Builds'
  BY BuildsInductive
<1>3. Builds => DdlRight
  BY RunsRight DEF Builds, DdlRight, Asked, Left
<1>4. QED
  BY <1>1, <1>2, <1>3, PTL DEF Spec
=============================================================================
