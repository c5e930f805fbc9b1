------------------------------ MODULE Binding ------------------------------
(***************************************************************************)
(* binding.rs: from a JSON value of the grid to a fragment of SQL and a    *)
(* parameter, for SET and VALUES (bind_pg_value) and for the predicate     *)
(* that names a row (bind_pk_value, build_pk_map_predicate).               *)
(*                                                                         *)
(* A JSON value is its sort and its text.  What the cascade asks of a text *)
(* is given with it: the patterns it matches (Looks).  A bound value is    *)
(* the placeholder it was given (0: none, it is inlined), the SQL type its *)
(* expression has, its text, and the parameter to send, <<>> if there is   *)
(* none.                                                                   *)
(***************************************************************************)
EXTENDS Integers, Sequences

CONSTANTS
  Looks,     \* per text, the patterns it matches: "array", an array literal can be made
             \* of it; "empty", it has no element; "numbers", they are numbers, or NULL
  Unsafe,    \* texts of integers beyond JS_MAX_SAFE_INTEGER
  KeyOrder   \* the columns, in the alphabetical order of their names

NoType == "unknown"   \* the column types could not be loaded
Null == <<"null", "nothing">>

Placed(idx, as, text) == [at |-> idx, as |-> as, text |-> text, param |-> <<text>>]
Inlined(as, text) == [at |-> 0, as |-> as, text |-> text, param |-> <<>>]
Keyword(as) == Inlined(as, "nothing")
Refused == Keyword("refused")
Has(text, look) == look \in Looks[text]

-----------------------------------------------------------------------------
(* Strings. *)

IntegerTypes == {"smallint", "integer", "bigint"}
DecimalTypes == {"numeric"}
FloatTypes == {"real", "float8"}
NumericTypes == IntegerTypes \cup DecimalTypes \cup FloatTypes
TemporalTypes == {"timestamp", "timestamptz", "date", "time", "timetz", "interval"}
VectorTypes == {"vector", "halfvec", "sparsevec"}

\* bind_pg_numeric_string, of a numeric column.
NumericString(text, type, idx) ==
  CASE type \in IntegerTypes -> IF Has(text, "integer") THEN Placed(idx, "bigint", text) ELSE Refused
    [] type \in DecimalTypes -> IF Has(text, "decimal") THEN Placed(idx, "numeric", text) ELSE Refused
    [] type \in FloatTypes   -> IF Has(text, "float") THEN Placed(idx, "float8", text) ELSE Refused
    [] OTHER                 -> Refused

\* bind_pg_vector_string: inlined, for pgvector reads no other literal.
VectorString(text, type) == IF Has(text, "vector") THEN Inlined(type, text) ELSE Refused

\* json_array_to_pg_literal: no element gives a quoted literal, which has no type of its
\* own; numbers give an array of numbers, anything else, NULLs alone too, an array of
\* texts or booleans; an element that is an object is refused.
EmptyLiteral == "{}"
ArrayLiteral(text) ==
  IF ~Has(text, "array") THEN Refused
  ELSE IF Has(text, "empty") THEN Inlined("literal", EmptyLiteral)
  ELSE Inlined(IF Has(text, "numbers") THEN "numbers" ELSE "array", text)

\* Mutant of BindString: an enum column is asked about after the shapes of texts.
EnumAfterShapes(text, idx, o) ==
  IF o.default /\ Has(text, "sentinel") THEN Keyword("DEFAULT")
  ELSE IF Has(text, "blob") THEN Placed(idx, "bytea", text)
  ELSE IF o.type = "boolean" THEN (IF Has(text, "boolean") THEN Placed(idx, "boolean", text) ELSE Refused)
  ELSE IF o.type \in NumericTypes THEN NumericString(text, o.type, idx)
  ELSE IF o.type \in TemporalTypes THEN Placed(idx, o.type, text)
  ELSE IF Has(text, "uuid") THEN Placed(idx, "uuid", text)
  ELSE IF Has(text, "array") THEN ArrayLiteral(text)
  ELSE Placed(idx, "text", text)

\* bind_pg_string: the cascade, in its order.
BindString(text, idx, o) ==
  IF o.default /\ Has(text, "sentinel") THEN Keyword("DEFAULT")
  ELSE IF o.type \in VectorTypes THEN VectorString(text, o.type)
  ELSE IF Has(text, "blob") THEN Placed(idx, "bytea", text)
  ELSE IF o.enum THEN Placed(idx, "enum", text)
  ELSE IF o.type = "boolean" THEN (IF Has(text, "boolean") THEN Placed(idx, "boolean", text) ELSE Refused)
  ELSE IF o.type \in NumericTypes THEN NumericString(text, o.type, idx)
  ELSE IF o.type \in TemporalTypes THEN Placed(idx, o.type, text)
  ELSE IF Has(text, "function") THEN Inlined("function", text)
  ELSE IF Has(text, "wkt") THEN Placed(idx, "geometry", text)
  ELSE IF Has(text, "uuid") THEN Placed(idx, "uuid", text)
  ELSE IF Has(text, "array") THEN ArrayLiteral(text)
  ELSE Placed(idx, "text", text)

\* bind_pg_number.
BindNumber(text, idx) ==
  IF Has(text, "integer") THEN Placed(idx, "bigint", text) ELSE Placed(idx, "float8", text)

\* bind_pg_hstore.
BindHstore(json, idx, oid) ==
  CASE json[1] = "null" -> Keyword("NULL")
    [] json[1] \in {"object", "string"} /\ oid /\ Has(json[2], "object") -> Placed(idx, "hstore", json[2])
    [] OTHER -> Refused

\* bind_pg_value.
BindValue(json, idx, o) ==
  CASE o.type = "hstore" -> BindHstore(json, idx, o.oid)
    [] o.type = "jsonb" /\ json[1] \notin {"string", "null"} -> Placed(idx, "jsonb", json[2])
    [] OTHER ->
         CASE json[1] = "number" -> BindNumber(json[2], idx)
           [] json[1] = "string" -> BindString(json[2], idx, o)
           [] json[1] = "bool"   -> Placed(idx, "boolean", json[2])
           [] json[1] = "null"   -> Keyword("NULL")
           [] json[1] = "array"  -> ArrayLiteral(json[2])
           [] OTHER              -> Refused

-----------------------------------------------------------------------------
(* Predicates. *)

\* The strings of bind_pk_value: by the column's type, and by the text's shape
\* only where the type says so or is not known.
PkString(text, idx, type) ==
  IF type \in {"uuid", NoType} /\ Has(text, "uuid") THEN Placed(idx, "uuid", text)
  ELSE IF type \in NumericTypes THEN NumericString(text, type, idx)
  ELSE IF type \in TemporalTypes THEN Placed(idx, type, text)
  ELSE IF type \in IntegerTypes \cup {NoType} /\ text \in Unsafe THEN Placed(idx, "bigint", text)
  ELSE Placed(idx, "text", text)

\* bind_pk_value: a real column is compared at its own precision.
PkValue(json, idx, type) ==
  LET real(bound) == IF type = "real" /\ bound # Refused THEN [bound EXCEPT !.as = "real"] ELSE bound
  IN  CASE json[1] = "number" -> real(BindNumber(json[2], idx))
        [] json[1] = "string" -> real(PkString(json[2], idx, type))
        [] json[1] = "bool"   -> Placed(idx, "boolean", json[2])
        [] json[1] = "null"   -> Keyword("isnull")
        [] OTHER              -> Refused

\* Fragments are bound one after the other; one that sends a parameter moves the
\* next placeholder on.  [frags, params, next], frags per column.
NoFragments(idx) == [frags |-> <<>>, params |-> <<>>, next |-> idx]

\* Mutant of Add: a NULL takes a placeholder with it.
AddCountsNull(s, c, bound) ==
  [frags |-> [d \in DOMAIN s.frags \cup {c} |-> IF d = c THEN bound ELSE s.frags[d]],
   params |-> s.params \o bound.param, next |-> s.next + 1]

Add(s, c, bound) ==
  [frags |-> [d \in DOMAIN s.frags \cup {c} |-> IF d = c THEN bound ELSE s.frags[d]],
   params |-> s.params \o bound.param, next |-> s.next + Len(bound.param)]

\* The columns cols, in the order of their names, from placeholder idx on: bound[c][i]
\* is what c's value is bound to at placeholder i.
Fragments(cols, bound, idx) ==
  LET upto[n \in 0 .. Len(KeyOrder)] ==
        IF n = 0 THEN NoFragments(idx)
        ELSE IF KeyOrder[n] \notin cols THEN upto[n - 1]
        ELSE Add(upto[n - 1], KeyOrder[n], bound[KeyOrder[n]][upto[n - 1].next])
  IN  upto[Len(KeyOrder)]

\* Mutant of PkPredicate: every column takes the first placeholder.
PkOnePlaceholder(pk, types, idx) ==
  Fragments(DOMAIN pk, [c \in DOMAIN pk |-> [i \in Nat |-> PkValue(pk[c], idx, types[c])]], idx)

\* build_pk_map_predicate: pk gives each column its JSON, types its type.
PkPredicate(pk, types, idx) ==
  Fragments(DOMAIN pk, [c \in DOMAIN pk |-> [i \in Nat |-> PkValue(pk[c], i, types[c])]], idx)
=============================================================================
