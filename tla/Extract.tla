------------------------------ MODULE Extract ------------------------------
(***************************************************************************)
(* extract.rs: a column of a row, as PostgreSQL sends it in binary, to the *)
(* JSON the grid shows: the containers (array, range, multirange,          *)
(* composite, domain), whose decoders share one advancing buffer, and the  *)
(* scalars whose text the plugin puts together itself.                     *)
(*                                                                         *)
(* A buffer is a sequence of bytes.  A type is its kind and the name or    *)
(* the types it is made of.  The JSON of a leaf is its sort, its type and  *)
(* the bytes it renders: the rendering of one leaf is left out, whether it *)
(* can be rendered at all is not.                                          *)
(***************************************************************************)
EXTENDS Scalars

CONSTANTS
  Types,     \* the types of the database
  Nesting,   \* how deep they are nested in each other
  Depth,     \* how deep each one is
  Value,     \* the values of the database, and those inside them: <<type, value>>
  Query,     \* the tsqueries among them
  Wire       \* the bytes PostgreSQL sends of each

VARIABLES
  column,    \* the column extract_value is called on: <<type, value, bytes>>, with {}
             \* for the value and the bytes of a NULL
  json       \* what it returns; Unread before the call

vars == <<column, json>>

-----------------------------------------------------------------------------
Bytes == Seq(Byte)

Kind(t) == t[1]
Arg(t) == t[2]

Type == column[1]
Raw == column[3]

Unread == <<"unread">>
Txt(s) == <<"text", s>>

\* The one element of a set that has one: an optional value.
The(o) == CHOOSE x \in o : TRUE

\* The types a type is made of are less deep than it: none contains itself.
SimpleType == {"int4", "date", "time", "text", "citext", "enum"} \cup TextScalars

IsType(t) ==
  CASE Kind(t) = "simple"                    -> Arg(t) \in SimpleType
    [] Kind(t) \in {"range", "multirange"}   -> Arg(t) \in SimpleType
    [] Kind(t) \in {"domain", "array"}       -> Arg(t) \in Types /\ Depth[Arg(t)] < Depth[t]
    [] Kind(t) = "composite"                 ->
         /\ Arg(t) \in Seq(Types)
         /\ \A k \in DOMAIN Arg(t) : Depth[Arg(t)[k]] < Depth[t]
    [] OTHER                                 -> FALSE

ASSUME TypesOK ==
  /\ Nesting \in Nat
  /\ Depth \in [Types -> 1 .. Nesting]
  /\ \A t \in Types : IsType(t)

-----------------------------------------------------------------------------
(* Leaves.  The dispatchers know different sets of simple types. *)

\* Types a String can be read from, whatever the dispatcher knows of them.
TextLike == {"text", "citext"}

\* extract_simple_kind, without the string fallback.
RowKnows == {"int4", "text", "date", "time", "enum"} \cup TextScalars

\* extract_simple_from_bytes.
BoundKnows == {"int4", "int8", "numeric", "date", "timestamp", "timestamptz"}

\* extract_simple_kind_from_bytes: its own arms, then extract_simple_from_bytes.
NestedKnows == {"text", "enum"} \cup TextScalars \cup BoundKnows

\* chrono has no date for PostgreSQL's infinities.
Infinity == <<127, 255, 255, 255>>
NegInfinity == <<128, 0, 0, 0>>
Decodes(name, bytes) ==
  \/ name \in TextLike \cup {"enum"}
  \/ name \in {"int4", "date"} /\ Len(bytes) = 4 /\ ~(name = "date" /\ bytes \in {Infinity, NegInfinity})
  \/ name \in {"time", "int8"} /\ Len(bytes) = 8

Leaf(name, bytes) ==
  CASE name = "int4" -> Num(name, bytes)
    [] name = "int8" -> I64ToJson(name, I64(bytes))
    [] OTHER         -> Str(name, bytes)

LeafOf(known, name, bytes) ==
  IF name \in known /\ Decodes(name, bytes) THEN Leaf(name, bytes) ELSE Null

\* A leaf, or one of the scalars that are put together.
SimpleOf(known, name, bytes) ==
  IF name \in known \cap TextScalars THEN ScalarText(name, bytes) ELSE LeafOf(known, name, bytes)

-----------------------------------------------------------------------------
(* Ranges and multiranges: [val, rest], what is read and the buffer after. *)

\* extract_range_bound.
Bound(name, buf) ==
  LET len == I32(buf)
      value == Drop(buf, 4)
  IN  IF Len(buf) < 4 THEN [val |-> Null, rest |-> buf]
      ELSE IF len < 0 \/ Len(value) < len THEN [val |-> Null, rest |-> value]
      ELSE [val |-> LeafOf(BoundKnows, name, Take(value, len)), rest |-> Drop(value, len)]

\* The bit of that weight is set.
Bit(flag, weight) == (flag \div weight) % 2 = 1

Brackets(flag) == <<IF Bit(flag, 2) THEN "[" ELSE "(", IF Bit(flag, 4) THEN "]" ELSE ")">>

RangeText(brackets, lo, up) ==
  Str("range", <<Txt(brackets[1]), lo, Txt(", "), up, Txt(brackets[2])>>)

\* Mutant of RangeOrNull: the lower bound is read when the flag says it is not there.
RangeReadsNoBound(name, buf) ==
  LET flag == buf[1]
      lo == Bound(name, Drop(buf, 1))
      up == IF Bit(flag, 16) THEN [val |-> Txt(""), rest |-> lo.rest] ELSE Bound(name, lo.rest)
      shown(b) == IF b = Null THEN Txt("null") ELSE b
  IN  IF Bit(flag, 1) THEN [val |-> Str("range", <<Txt("empty")>>), rest |-> Drop(buf, 1)]
      ELSE [val |-> RangeText(Brackets(flag), shown(lo.val), shown(up.val)), rest |-> up.rest]

\* extract_range_or_null: an unshowable lower bound ends the range at once,
\* with the upper bound still in the buffer.
WithUpper(flag, lo, up) ==
  [val |-> RangeText(Brackets(flag), lo, IF up.val = Null THEN Txt("null") ELSE up.val),
   rest |-> up.rest]

WithLower(name, flag, lo) ==
  IF lo.val = Null
    THEN [val |-> RangeText(Brackets(flag), Txt("null"), Txt("null")), rest |-> lo.rest]
    ELSE WithUpper(flag, lo.val, IF Bit(flag, 16) THEN [lo EXCEPT !.val = Txt("")]
                                 ELSE Bound(name, lo.rest))

RangeOrNull(name, buf) ==
  LET body == Drop(buf, 1)
  IN  IF buf = <<>> THEN [val |-> Null, rest |-> buf]
      ELSE IF Bit(buf[1], 1) THEN [val |-> Str("range", <<Txt("empty")>>), rest |-> body]
      ELSE WithLower(name, buf[1], IF Bit(buf[1], 8) THEN [val |-> Txt(""), rest |-> body]
                                   ELSE Bound(name, body))

\* MultirangeValue: the length prefixes are skipped, never used; the ranges
\* are read one after the other from the same buffer.
NextRange(name, r) ==
  LET one == RangeOrNull(name, Drop(r.rest, 4))
  IN  IF r.cut \/ Len(r.rest) < 4 THEN [r EXCEPT !.cut = TRUE]
      ELSE [vals |-> Append(r.vals, one.val), rest |-> one.rest, cut |-> FALSE]

MultirangeOf(name, buf) ==
  LET count == I32(buf)
      read[n \in 0 .. count] ==
        IF n = 0 THEN [vals |-> <<>>, rest |-> Drop(buf, 4), cut |-> FALSE]
        ELSE NextRange(name, read[n - 1])
  IN  IF Len(buf) < 4 THEN Null ELSE Str("multirange", read[count].vals)

-----------------------------------------------------------------------------
(* Composites, arrays and the dispatch on the kind.  parts is the decoder of  *)
(* what is inside.                                                            *)

\* extract_composite_field_value: one length-prefixed value, "no value" when it
\* is cut, which the caller answers with nulls to the end.
FieldValue(parts, t, buf) ==
  LET len == I32(buf)
      value == Drop(buf, 4)
  IN  IF Len(buf) < 4 THEN [val |-> {}, rest |-> buf]
      ELSE IF len < 0 THEN [val |-> {Null}, rest |-> value]
      ELSE IF Len(value) < len THEN [val |-> {}, rest |-> value]
      ELSE [val |-> {parts[<<t, Take(value, len)>>]}, rest |-> Drop(value, len)]

\* extract_composite_fields, fill_composite_nulls: the field count and the
\* fields' type OIDs are skipped; after a field that is cut all are null.
NextField(parts, t, r) ==
  LET one == FieldValue(parts, t, Drop(r.rest, 4))
  IN  IF r.cut \/ Len(r.rest) < 4 \/ one.val = {}
        THEN [r EXCEPT !.vals = Append(@, Null), !.cut = TRUE]
        ELSE [vals |-> Append(r.vals, The(one.val)), rest |-> one.rest, cut |-> FALSE]

CompositeFields(parts, fields, buf) ==
  LET read[n \in 0 .. Len(fields)] ==
        IF n = 0 THEN [vals |-> <<>>, rest |-> Drop(buf, 4), cut |-> Len(buf) < 4]
        ELSE NextField(parts, fields[n], read[n - 1])
  IN  Obj(read[Len(fields)].vals)

\* The elements of an array, one after the other; cut when the buffer ends early.
NextElement(parts, elem, r) ==
  LET one == FieldValue(parts, elem, r.rest)
  IN  IF r.cut \/ one.val = {} THEN [r EXCEPT !.cut = TRUE]
      ELSE [vals |-> Append(r.vals, The(one.val)), rest |-> one.rest, cut |-> FALSE]

Elements(parts, elem, count, buf) ==
  LET read[n \in 0 .. count] ==
        IF n = 0 THEN [vals |-> <<>>, rest |-> buf, cut |-> FALSE]
        ELSE NextElement(parts, elem, read[n - 1])
  IN  read[count]

\* Mutant of ArrayValue: what was read of an array that is cut is kept.
ArrayKeepsPart(parts, elem, buf) ==
  LET count == I32(Drop(buf, 12))
  IN  IF Len(buf) < 12 THEN Null
      ELSE IF I32(buf) = 0 THEN Arr(<<>>)
      ELSE IF I32(buf) # 1 \/ Len(buf) < 20 THEN Null
      ELSE Arr(Elements(parts, elem, count, Drop(buf, 20)).vals)

\* ArrayValue: one dimension or none; an array that is cut is an error, which
\* both callers show as null.
ArrayValue(parts, elem, buf) ==
  LET count == I32(Drop(buf, 12))
      whole(elements) == IF elements.cut THEN Null ELSE Arr(elements.vals)
  IN  IF Len(buf) < 12 THEN Null
      ELSE IF I32(buf) = 0 THEN Arr(<<>>)
      ELSE IF I32(buf) # 1 \/ Len(buf) < 20 \/ count < 0 THEN Null
      ELSE whole(Elements(parts, elem, count, Drop(buf, 20)))

\* extract_kind_from_bytes, extract_element_from_bytes and
\* extract_simple_kind_from_bytes: the dispatch for what is inside a value.
KindFromBytes(parts, t, buf) ==
  CASE Kind(t) = "simple"     -> SimpleOf(NestedKnows, Arg(t), buf)
    [] Kind(t) = "domain"     -> parts[<<Arg(t), buf>>]
    [] Kind(t) = "range"      -> RangeOrNull(Arg(t), buf).val
    [] Kind(t) = "multirange" -> MultirangeOf(Arg(t), buf)
    [] Kind(t) = "array"      -> ArrayValue(parts, Arg(t), buf)
    [] Kind(t) = "composite"  -> CompositeFields(parts, Arg(t), buf)

\* It calls itself; Decoder[n] is what it is on types at most n deep.
Decoder[n \in 0 .. Nesting] ==
  [at \in Types \X Bytes |-> IF n = 0 THEN Null ELSE KindFromBytes(Decoder[n - 1], at[1], at[2])]

Nested == Decoder[Nesting]

\* The ranges extract_range_kind lists; the others are read as a string, which
\* none of them is.
BuiltInRange == {"int4", "int8", "date"}

\* extract_value on a column that is not null.  The fast paths of
\* extract_array_kind read an int4[] as its elements' decoder does.  PostgreSQL
\* describes a column of a domain by its base type: that arm is not reached.
FromColumn(t, buf) ==
  CASE Kind(t) = "simple"     -> SimpleOf(RowKnows \cup TextLike, Arg(t), buf)
    [] Kind(t) = "range"      -> IF Arg(t) \in BuiltInRange THEN RangeOrNull(Arg(t), buf).val ELSE Null
    [] Kind(t) = "multirange" -> MultirangeOf(Arg(t), buf)
    [] Kind(t) = "array"      -> ArrayValue(Nested, Arg(t), buf)
    [] Kind(t) = "composite"  -> IF buf = <<>> THEN Null ELSE CompositeFields(Nested, Arg(t), buf)

ExtractValue ==
  /\ json = Unread
  /\ json' = IF Raw = {} THEN Null ELSE FromColumn(Type, The(Raw))
  /\ UNCHANGED column

Column ==
  {<<t, {}, {}>> : t \in {u \in Types : Kind(u) # "domain"}}
    \cup {<<tv[1], {tv[2]}, {Wire[tv]}>> : tv \in {x \in Value : Kind(x[1]) # "domain"}}

Init == column \in Column /\ json = Unread
Next == ExtractValue
Spec == Init /\ [][Next]_vars

-----------------------------------------------------------------------------
(* PostgreSQL's side: the send functions.  A value is {} for NULL where one   *)
(* is possible.                                                               *)

Be(width, n) ==
  LET low == IF n < 0 THEN n + Huge ELSE n
      top == IF n < 0 THEN 255 ELSE 0
  IN  [k \in 1 .. width - 3 |-> top] \o <<(low \div 256) \div 256, (low \div 256) % 256, low % 256>>
Be2(n) == <<n \div 256, n % 256>>
Oid == Be(4, 7)

Concat(seqs) ==
  LET last[n \in 0 .. Len(seqs)] ==
        IF n = 0 THEN <<>> ELSE seqs[Len(seqs) + 1 - n] \o last[n - 1]
  IN  last[Len(seqs)]

TsItems[q \in Query] ==
  CASE q.op = "lexeme" -> <<1, q.weight, IF q.prefix THEN 1 ELSE 0>> \o q.text \o <<0>>
    [] q.op = "not"    -> <<2, Not>> \o TsItems[q.of]
    [] q.op = "and"    -> <<2, And>> \o TsItems[q.right] \o TsItems[q.left]
    [] q.op = "or"     -> <<2, Or>> \o TsItems[q.right] \o TsItems[q.left]
    [] q.op = "phrase" -> <<2, Phrase>> \o Be2(q.distance) \o TsItems[q.right] \o TsItems[q.left]

LexemeSend(l) ==
  l.text \o <<0>> \o Be2(Len(l.places))
    \o Concat([k \in DOMAIN l.places |-> Be2(l.places[k][1] + 2^14 * l.places[k][2])])

BitsSend(v) ==
  LET padded(k) == IF k <= Len(v) THEN v[k] ELSE 0
      byte(b) == FoldLeft(LAMBDA acc, k : 2 * acc + padded(8 * (b - 1) + k), 0,
                          [k \in 1 .. 8 |-> k])
  IN  Be(4, Len(v)) \o [b \in 1 .. (Len(v) + 7) \div 8 |-> byte(b)]

ScalarSend(name, v) ==
  CASE name \in {"int8", "money", "xid8"} -> Be(8, v)
    [] name = "timetz"    -> Be(8, v.ticks) \o Be(4, v.offset)
    [] name = "interval"  -> Be(8, v.ticks) \o Be(4, v.days) \o Be(4, v.months)
    [] name = "tsvector"  -> Be(4, Len(v)) \o Concat([k \in DOMAIN v |-> LexemeSend(v[k])])
    [] name = "tsquery"   -> Be(4, 1) \o TsItems[v]
    [] name = "sparsevec" -> Be(4, v.dim) \o Be(4, Len(v.at)) \o Be(4, 0)
                               \o Concat([k \in DOMAIN v.at |-> Be(4, v.at[k][1] - 1)])
                               \o Concat([k \in DOMAIN v.at |-> v.at[k][2]])
    [] name = "bit"       -> BitsSend(v)
    [] name = "inet"      -> <<IF Len(v[1]) = 4 THEN 2 ELSE 3, v[2], 0, Len(v[1])>> \o v[1]
    [] name = "jsonpath"  -> <<1>> \o v
    [] name \in DOMAIN Widths -> Concat(v)
    [] name \in DOMAIN Layout ->
         LET l == Layout[name]
             head(k) == IF k = l.count
                          THEN IF l.head[k] = 2 THEN Be2(Len(v[2])) ELSE Be(4, Len(v[2]))
                          ELSE IF k \in l.shown THEN v[1][k] ELSE Be2(0)
         IN  Concat([k \in DOMAIN l.head |-> head(k)]) \o Concat(v[2])

Flag(v) == IF v.empty THEN 1
           ELSE (IF v.loInc THEN 2 ELSE 0) + (IF v.upInc THEN 4 ELSE 0)
                  + (IF v.lo = {} THEN 8 ELSE 0) + (IF v.up = {} THEN 16 ELSE 0)

Prefixed(bytes) == Be(4, Len(bytes)) \o bytes

RangeSend(v) ==
  LET bound(b) == IF v.empty \/ b = {} THEN <<>> ELSE Prefixed(The(b))
  IN  <<Flag(v)>> \o bound(v.lo) \o bound(v.up)

\* A part of a value, which may be NULL; wire has the bytes of the parts.
OptSend(t, o, wire) == IF o = {} THEN Be(4, -1) ELSE Prefixed(wire[<<t, The(o)>>])
Send(t, v, wire) ==
  CASE Kind(t) = "simple"     -> IF Arg(t) \in TextScalars THEN ScalarSend(Arg(t), v) ELSE v
    [] Kind(t) = "domain"     -> wire[<<Arg(t), v>>]
    [] Kind(t) = "range"      -> RangeSend(v)
    [] Kind(t) = "multirange" -> Be(4, Len(v)) \o Concat([k \in DOMAIN v |-> Prefixed(RangeSend(v[k]))])
    [] Kind(t) = "array"      -> IF v = <<>> THEN Be(4, 0) \o Be(4, 0) \o Oid
                                ELSE Be(4, 1) \o Be(4, 0) \o Oid \o Be(4, Len(v)) \o Be(4, 1)
                                       \o Concat([k \in DOMAIN v |-> OptSend(Arg(t), v[k], wire)])
    [] Kind(t) = "composite"  -> Be(4, Len(v)) \o Concat([k \in DOMAIN v |-> Oid \o OptSend(Arg(t)[k], v[k], wire)])

\* What the values are.  The parts of a value are values too.
IsList(v) == Len(v) \in 0 .. Huge - 1 /\ v = [k \in 1 .. Len(v) |-> v[k]]
IsRange(v) ==
  /\ v \in [empty : BOOLEAN, lo : SUBSET Bytes, up : SUBSET Bytes, loInc : BOOLEAN, upInc : BOOLEAN]
  /\ \A o \in {v.lo, v.up} : o = {} \/ (o = {The(o)} /\ Len(The(o)) < Huge)
IsPart(t, o) == o = {} \/ (o = {The(o)} /\ <<t, The(o)>> \in Value)
ValueOK(t, v) ==
  CASE Kind(t) = "simple"     -> Arg(t) \in TextScalars \/ v \in Bytes
    [] Kind(t) = "domain"     -> <<Arg(t), v>> \in Value
    [] Kind(t) = "range"      -> IsRange(v)
    [] Kind(t) = "multirange" ->
         IsList(v) /\ \A k \in DOMAIN v : IsRange(v[k]) /\ Len(RangeSend(v[k])) < Huge
    [] Kind(t) = "array"      -> IsList(v) /\ \A k \in DOMAIN v : IsPart(Arg(t), v[k])
    [] Kind(t) = "composite"  ->
         IsList(v) /\ Len(v) = Len(Arg(t)) /\ \A k \in DOMAIN v : IsPart(Arg(t)[k], v[k])

\* A length of 32 bits is scaled down to Huge.
ASSUME ValuesOK ==
  /\ Wire \in [Value -> Bytes]
  /\ Query = {tv[2] : tv \in {x \in Value : x[1] = <<"simple", "tsquery">>}}
  /\ \A tv \in Value :
       /\ tv = <<tv[1], tv[2]>> /\ tv[1] \in Types
       /\ ValueOK(tv[1], tv[2])
       /\ Wire[tv] = Send(tv[1], tv[2], Wire) /\ Len(Wire[tv]) < Huge

-----------------------------------------------------------------------------
(* What the grid should show. *)

\* The server reads the text of an interval back to the interval that was sent,
\* up to days of 24 hours.
SameInterval(shown, v) ==
  LET c == shown.clock
      ticks == c.hours * Hour + c.minutes * Minute + c.seconds * Second + c.fraction
  IN  /\ 12 * shown.years + shown.months = v.months
      /\ 24 * Hour * shown.days + shown.sign * ticks = 24 * Hour * v.days + v.ticks

\* A tsquery up to the grouping of operators that do not care for it.
Meaning[q \in Query] ==
  LET operands[x \in Query] ==
        IF x.op = q.op THEN operands[x.left] \o operands[x.right] ELSE <<Meaning[x]>>
  IN  CASE q.op \in {"and", "or"} -> <<q.op, operands[q]>>
        [] q.op = "phrase"        -> <<q.op, q.distance, Meaning[q.left], Meaning[q.right]>>
        [] q.op = "not"           -> <<q.op, Meaning[q.of]>>
        [] q.op = "lexeme"        -> <<q.op, q.text, q.prefix, q.weight>>

\* A phrase on the right of a phrase, which PostgreSQL puts in parentheses.
RightPhrase[q \in Query] ==
  CASE q.op = "phrase"        -> q.right.op = "phrase" \/ RightPhrase[q.left] \/ RightPhrase[q.right]
    [] q.op \in {"and", "or"} -> RightPhrase[q.left] \/ RightPhrase[q.right]
    [] q.op = "not"           -> RightPhrase[q.of]
    [] q.op = "lexeme"        -> FALSE

QueryText ==
  LET t == <<"simple", "tsquery">> IN [q \in Query |-> FromColumn(t, Wire[<<t, q>>])]
QueryMeaning == [q \in Query |-> Meaning[q]]

ScalarShown(name, v, shown) ==
  CASE name \in {"int8", "money", "xid8"} ->
         LET n == IF name = "xid8" /\ v < 0 THEN v + 2 * (WordMax + 1) ELSE v
         IN  shown = IF n \in -MaxSafe .. MaxSafe THEN Num(name, n) ELSE Str(name, n)
    [] name = "timetz" ->
         /\ Len(shown) = 3
         /\ LET c == shown[3][1]
                z == shown[3][2]
            IN  /\ c.hours * Hour + c.minutes * Minute + c.seconds * Second + c.fraction = v.ticks
                /\ (IF z.sign = "-" THEN 1 ELSE -1) * (3600 * z.hours + 60 * z.minutes + z.seconds)
                     = v.offset
    [] name = "interval" -> Len(shown) = 3 /\ SameInterval(shown[3], v)
    [] name = "tsvector" ->
         LET place(p) == <<p[1], Weight(p[2])>>
             lexeme(l) == [text |-> l.text,
                           places |-> IF l.places = <<>> THEN <<>>
                                      ELSE <<":", [k \in DOMAIN l.places |-> place(l.places[k])]>>]
         IN  shown = Str(name, [k \in DOMAIN v |-> lexeme(v[k])])
    [] name = "tsquery" -> TRUE
    [] OTHER -> shown = Str(name, v)

\* The values whose text says something else than the value, or nothing.
Misshown(name, v) ==
  \/ name \in {"int8", "money"} /\ v = -WordMax - 1
  \/ name \in {"timetz", "interval"} /\ Rem(v.ticks, Second) \in (-9 .. 9) \ {0}
  \/ name = "interval" /\ v.ticks <= -24 * Hour
  \/ name = "tsvector" /\ \E k \in DOMAIN v : v[k].places = <<>>

RangeShown(name, v) ==
  LET bound(b) == IF b = {} THEN Txt("") ELSE LeafOf(BoundKnows, name, The(b))
      orNull(b) == IF b = Null THEN Txt("null") ELSE b
  IN  IF v.empty THEN Str("range", <<Txt("empty")>>)
      ELSE RangeText(<<IF v.loInc THEN "[" ELSE "(", IF v.upInc THEN "]" ELSE ")">>,
                     orNull(bound(v.lo)),
                     IF bound(v.lo) = Null THEN Txt("null") ELSE orNull(bound(v.up)))

\* A part is shown as a column of its type would be, but for the types that only a
\* column's dispatcher knows, and for the ranges it does not know.
PartShown(t, o) ==
  LET bytes == Wire[<<t, The(o)>>]
  IN  IF o = {} THEN Null
      ELSE CASE Kind(t) = "simple" -> IF Arg(t) \in NestedKnows THEN FromColumn(t, bytes) ELSE Null
             [] Kind(t) = "domain" -> Nested[<<Arg(t), bytes>>]
             [] Kind(t) = "range"  -> RangeShown(Arg(t), The(o))
             [] OTHER              -> FromColumn(t, bytes)

Shown(t, v) ==
  CASE Kind(t) = "range"      -> IF Arg(t) \in BuiltInRange THEN RangeShown(Arg(t), v) ELSE Null
    [] Kind(t) = "multirange" -> Str("multirange", [k \in DOMAIN v |-> RangeShown(Arg(t), v[k])])
    [] Kind(t) = "array"      -> Arr([k \in DOMAIN v |-> PartShown(Arg(t), v[k])])
    [] Kind(t) = "composite"  -> Obj([k \in DOMAIN v |-> PartShown(Arg(t)[k], v[k])])

\* A range in a multirange whose upper bound is left in the buffer, for what
\* comes after it to be read from.
Misread(t, v) ==
  /\ Kind(t) = "multirange"
  /\ \E k \in 1 .. Len(v) - 1 :
       /\ v[k].lo # {} /\ v[k].up # {}
       /\ LeafOf(BoundKnows, Arg(t), The(v[k].lo)) = Null

-----------------------------------------------------------------------------
(* Properties. *)

Rendered == json # Unread /\ column[2] # {}
Sent == The(column[2])

\* A scalar's text says what its value is: an integer is a JSON number only if
\* JavaScript holds it exactly; an interval and a time zone read back to what was
\* sent; lexemes keep their positions and weights; all but the Misshown ones.
ScalarsRight ==
  Rendered /\ Kind(Type) = "simple" /\ Arg(Type) \in TextScalars =>
    Misshown(Arg(Type), Sent) \/ ScalarShown(Arg(Type), Sent, json)

\* Two queries that mean different things are never shown alike: parentheses are
\* there where precedence needs them, operands in their order (but see RightPhrase).
QueriesTold ==
  Rendered /\ Type = <<"simple", "tsquery">> /\ ~RightPhrase[Sent] =>
    /\ json # Null
    /\ \A q \in Query :
         QueryText[q] = json /\ QueryMeaning[q] # Meaning[Sent] => RightPhrase[q]

\* Every part of a container is shown in its place and as a column of its type
\* would be, however containers are nested: no decoder leaves the shared buffer
\* before or past its value (but see Misread).
ContainersRight ==
  Rendered /\ Kind(Type) # "simple" =>
    Misread(Type, Sent) \/ json = Shown(Type, Sent)

\* A value that is cut is never shown as a shorter whole one: an array is null, a
\* composite keeps the fields before the cut and has nulls from there on.
CutsShown ==
  Rendered =>
    \A n \in 0 .. Len(The(Raw)) - 1 :
      \E cut \in {FromColumn(Type, Take(The(Raw), n))} :
        CASE Kind(Type) = "array"     -> cut = Null
          [] Kind(Type) = "composite" ->
               \/ cut = Null
               \/ \E m \in 0 .. Len(Sent) :
                    \A k \in DOMAIN Sent : cut[2][k] = IF k <= m THEN json[2][k] ELSE Null
          [] OTHER -> TRUE
=============================================================================
