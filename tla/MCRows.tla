------------------------------- MODULE MCRows -------------------------------
(* Rows on tables of two columns, one for each way a type can be a key or a cell. *)
EXTENDS Rows, TLC

Table(a, b, keyed, keys) == [types |-> [c \in {"a", "b"} |-> IF c = "a" THEN a ELSE b],
                             keyed |-> keyed, keys |-> keys]
MCSchema ==
  {Table("bigint", cell, TRUE, {"a"}) : cell \in {"text", "mood", "bytea", "hstore", "integer[]"}}
    \cup {Table("timestamp", "numeric", TRUE, {"a"}), Table("mood", "jsonb", TRUE, {"a"}),
          Table("real", "jsonb", TRUE, {"a"}), Table("bigint", "bigint", TRUE, {"a", "b"}),
          Table("boolean", "text", FALSE, {"a", "b"}), Table("numeric", "timestamptz", FALSE, {"a", "b"}),
          Table("date", "uuid", FALSE, {"a", "b"})}
MCSymmetry == Permutations(Id)

MCKeyOrder == <<"a", "b">>
MCUnsafe == {"9007199254740993"}
MCNoText == {"infinity"}
MCTyped == {"__USE_DEFAULT__", "1"}

\* A timestamp is shown without its fraction, a timestamptz without its offset in a
\* session two hours east, a long value of bytes by its first part, a JSON string
\* without its quotes, an array without its lower bounds.
MCShownText(v) ==
  CASE v = "noon.5" -> "noon"
    [] v = "12+0"   -> "12"
    [] v = "10+0"   -> "10"
    [] v = "short"  -> "BLOB:short"
    [] v = "long"   -> "BLOB:lon"
    [] v = "'[1]'"  -> "[1]"
    [] v = "[0:0]={1}" -> "{1}"
    [] OTHER        -> v

Values(type) ==
  CASE type = "bigint"      -> {"1", "9007199254740993"}
    [] type = "numeric"     -> {"89.9", "1"}
    [] type = "real"        -> {"1", "89.9"}
    [] type = "timestamp"   -> {"noon", "noon.5"}
    [] type = "timestamptz" -> {"12+0", "10+0"}
    [] type = "date"        -> {"today", "infinity"}
    [] type = "text"        -> {"plain", "A0", "[1]"}
    [] type = "uuid"        -> {"a0", "b0"}
    [] type = "boolean"     -> {"t", "f"}
    [] type = "mood"        -> {"ok", "[1]", "f()"}
    [] type = "bytea"       -> {"short", "long"}
    [] type = "hstore"      -> {"k=>1"}
    [] type = "jsonb"       -> {"{}", "[]", "1", "'[1]'", "null"}
    [] type = "integer[]"   -> {"{1}", "{}", "{NULL}", "[0:0]={1}"}
    [] OTHER                -> {}
MCJsonSort(v) ==
  CASE v = "{}"    -> "object"
    [] v = "[]"    -> "array"
    [] v = "1"     -> "number"
    [] v = "'[1]'" -> "string"
    [] v = "null"  -> "null"
MCStored(type) == Values(type) \cup {NULL}

Literal(type) ==
  CASE type = "text"        -> [text \in {"plain", "A0", "[1]", "1", "today", "t", "f", "BLOB:short"} |-> text]
    [] type = "uuid"        -> [text \in {"a0", "b0", "A0"} |-> IF text = "A0" THEN "a0" ELSE text]
    [] type = "timestamp"   -> [text \in {"noon"} |-> text]
    [] type = "timestamptz" -> [text \in {"12"} |-> "10+0"]
    [] type = "boolean"     -> [text \in {"t", "f", "1"} |-> IF text = "1" THEN "t" ELSE text]
    [] type = "bytea"       -> [text \in {"BLOB:short", "BLOB:lon"} |-> IF text = "BLOB:short" THEN "short" ELSE "lon"]
    [] type = "numbers"     -> [text \in {"[1]"} |-> "{1}"]
    [] type = "function"    -> [text \in {"f()"} |-> "ok"]
    [] type \in {"mood", "date", "jsonb", "hstore", "integer[]"} \cup NumericTypes
                            -> [text \in Values(type) |-> text]
    [] OTHER                -> <<>>
MCReading(type, text) == IF text \in DOMAIN Literal(type) THEN {Literal(type)[text]} ELSE {}

MCLooks ==
  [text \in {"1", "9007199254740993", "89.9", "noon", "noon.5", "10", "12", "today", "plain", "A0", "[1]",
             "a0", "b0", "t", "f", "ok", "BLOB:short", "BLOB:lon", "{}", "{1}", "{NULL}", "[]", "k=>1", "f()",
             "__USE_DEFAULT__", NULL, Null[2]} |->
     CASE text = "1"                -> {"integer", "decimal", "float", "dyadic", "boolean"}
       [] text = "9007199254740993" -> {"integer", "decimal", "float"}
       [] text = "89.9"             -> {"decimal", "float"}
       [] text \in {"10", "12"}     -> {"integer", "decimal", "float", "dyadic"}
       [] text \in {"t", "f"}       -> {"boolean"}
       [] text \in {"A0", "a0", "b0"} -> {"uuid"}
       [] text \in {"[1]", "{1}"}   -> {"array", "numbers"}
       [] text \in {"[]", "{}"}     -> {"array", "empty"}
       [] text = "{NULL}"           -> {"array"}
       [] text = "k=>1"             -> {"object"}
       [] text = "f()"              -> {"function"}
       [] text \in {"BLOB:short", "BLOB:lon"} -> {"blob"}
       [] text = "__USE_DEFAULT__"  -> {"sentinel"}
       [] OTHER                     -> {}]
=============================================================================
