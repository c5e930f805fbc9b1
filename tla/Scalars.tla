------------------------------ MODULE Scalars ------------------------------
(***************************************************************************)
(* The scalars of extract.rs whose JSON the plugin puts together itself:   *)
(* from the bytes PostgreSQL sends to the text of the grid.  A text is the *)
(* sequence of its parts; the digits of one number are left out.           *)
(*                                                                         *)
(* A buffer is a sequence of bytes.  Microseconds and 64-bit integers are  *)
(* scaled down (Second, WordMax); the fields that hold them are as wide as *)
(* on the wire.                                                            *)
(***************************************************************************)
EXTENDS Integers, Sequences, SequencesExt

CONSTANTS
  MaxSafe,   \* JS_MAX_SAFE_INTEGER, JS_MAX_SAFE_UINT
  WordMax    \* the largest of the 64-bit integers

ASSUME ScaleOK == MaxSafe \in 1 .. WordMax - 1

Second == 100
Minute == 60 * Second
Hour == 60 * Minute

-----------------------------------------------------------------------------
(* Bytes and JSON. *)

Drop(buf, n) == SubSeq(buf, n + 1, Len(buf))
Take(buf, n) == SubSeq(buf, 1, n)

\* u16::from_be_bytes and, of 4 or 8 bytes, i32 and i64; the bytes above the
\* lowest three are the sign of a small number or make a number too large.
Radix == 256
Huge == Radix * (Radix * Radix)
U16(buf) == buf[1] * 256 + buf[2]
Signed(buf) ==
  LET n == Len(buf)
      low == 256 * (256 * buf[n - 2] + buf[n - 1]) + buf[n]
      above == {buf[k] : k \in 1 .. n - 3}
  IN  IF above = {0} THEN low
      ELSE IF above = {255} THEN low - Huge
      ELSE IF buf[1] > 127 THEN -Huge ELSE Huge
I32(buf) == Signed(Take(buf, 4))
I64(buf) == Signed(Take(buf, 8))

Null == <<"null">>
Arr(elements) == <<"array", elements>>
Obj(fields) == <<"object", fields>>
Str(form, text) == <<"string", form, text>>
Num(form, n) == <<"number", form, n>>

-----------------------------------------------------------------------------
(* 64-bit integers. *)

\* i64::abs, which wraps for the smallest in a release build.
Abs(n) == IF n = -WordMax - 1 THEN n ELSE IF n < 0 THEN -n ELSE n

\* i64_to_json and Money: what JavaScript cannot hold exactly is a string.
I64ToJson(form, n) == IF Abs(n) <= MaxSafe THEN Num(form, n) ELSE Str(form, n)

\* u64_to_json and Xid8: the same bits, unsigned.
U64ToJson(form, n) ==
  LET u == IF n < 0 THEN n + 2 * (WordMax + 1) ELSE n
  IN  IF u <= MaxSafe THEN Num(form, u) ELSE Str(form, u)

-----------------------------------------------------------------------------
(* Times.  A fraction is printed without zeros before or after its digits.  *)

\* The fraction the digits of n stand for when they are read after a point.
Fraction(n) == IF n < 10 THEN 10 * n ELSE n

Clock(ticks) ==
  [hours |-> ticks \div Hour, minutes |-> (ticks % Hour) \div Minute,
   seconds |-> (ticks % Minute) \div Second, fraction |-> Fraction(ticks % Second)]

\* TimeTz: microseconds since midnight and the offset, west of UTC positive.
TimeTz(buf) ==
  LET ticks == I64(buf)
      offset == I32(Drop(buf, 8))
      west == IF offset > 0 THEN offset ELSE -offset
  IN  IF Len(buf) < 12 \/ ticks < 0 THEN Null
      ELSE Str("timetz",
               <<Clock(ticks),
                 [sign |-> IF offset > 0 THEN "-" ELSE "+", hours |-> west \div 3600,
                  minutes |-> (west % 3600) \div 60, seconds |-> west % 60]>>)

\* Integer division and remainder of Rust, toward zero.
Quot(a, b) == IF a < 0 THEN -((-a) \div b) ELSE a \div b
Rem(a, b) == a - b * Quot(a, b)

\* Mutant of Interval: the hours over a day are cut off and not carried.
IntervalDropsDays(buf) ==
  LET ticks == I64(buf)
      days == I32(Drop(buf, 8))
      months == I32(Drop(buf, 12))
      c == Clock(IF ticks < 0 THEN -ticks ELSE ticks)
  IN  Str("interval",
          [years |-> Quot(months, 12), months |-> Rem(months, 12), days |-> days,
           sign |-> IF ticks < 0 THEN -1 ELSE 1, clock |-> [c EXCEPT !.hours = @ % 24]])

\* Interval: months beyond a year become years; hours beyond a day become days,
\* which are added whatever the sign.
Interval(buf) ==
  LET ticks == I64(buf)
      days == I32(Drop(buf, 8))
      months == I32(Drop(buf, 12))
      c == Clock(IF ticks < 0 THEN -ticks ELSE ticks)
  IN  IF Len(buf) < 16 THEN Null
      ELSE Str("interval",
               [years |-> Quot(months, 12), months |-> Rem(months, 12),
                days |-> days + c.hours \div 24,
                sign |-> IF ticks < 0 THEN -1 ELSE 1, clock |-> [c EXCEPT !.hours = @ % 24]])

-----------------------------------------------------------------------------
(* Full text search.  [ok, val, rest]: what is read and the buffer after it. *)

Failed == [ok |-> FALSE, val |-> <<>>, rest |-> <<>>]

\* extract_nul_terminated_text.
NulText(buf) ==
  IF \A k \in DOMAIN buf : buf[k] # 0 THEN Failed
  ELSE LET nul == CHOOSE k \in DOMAIN buf : buf[k] = 0 /\ \A j \in 1 .. k - 1 : buf[j] # 0
       IN  [ok |-> TRUE, val |-> Take(buf, nul - 1), rest |-> Drop(buf, nul)]

Weight(n) == <<"D", "C", "B", "A">>[n + 1]

\* Lexeme::try_extract_from.  With no positions the count itself stays in the
\* buffer, and is the beginning of the next lexeme.
Lexeme(buf) ==
  LET text == NulText(buf)
      count == U16(text.rest)
      after == Drop(text.rest, 2)
      place(k) == U16(Drop(after, 2 * k - 2))
  IN  IF ~text.ok \/ Len(text.rest) < 2 \/ count >= 2^15 THEN Failed
      ELSE IF count = 0
        THEN [ok |-> TRUE, val |-> [text |-> text.val, places |-> <<>>], rest |-> text.rest]
      ELSE IF Len(after) < 2 * count THEN Failed
      ELSE [ok |-> TRUE, rest |-> Drop(after, 2 * count),
            val |-> [text |-> text.val,
                     places |-> [k \in 1 .. count |->
                                   <<place(k) % 2^14, Weight(place(k) \div 2^14)>>]]]

\* TsVector.  The text of every lexeme ends in a colon and its positions.
TsVector(buf) ==
  LET count == I32(buf)
      read[n \in 0 .. count] ==
        IF n = 0 THEN [ok |-> TRUE, val |-> <<>>, rest |-> Drop(buf, 4)]
        ELSE LET r == read[n - 1]
                 one == Lexeme(r.rest)
             IN  IF ~r.ok \/ ~one.ok THEN Failed
                 ELSE [one EXCEPT !.val = Append(r.val, [@ EXCEPT !.places = <<":", @>>])]
  IN  IF Len(buf) < 4 \/ ~read[count].ok THEN Null ELSE Str("tsvector", read[count].val)

\* The operators of a tsquery by code, and their levels: a lower one binds
\* tighter.  A phrase operator has a distance.
Not == 1
And == 2
Or == 3
Phrase == 4
Level(op) == CASE op = Not -> 1 [] op = Phrase -> 2 [] op = And -> 3 [] op = Or -> 4

\* Mutant of Wrapped: no operand is ever put in parentheses.
NeverWrapped(outer, op, text) == text

Wrapped(outer, op, text) ==
  IF outer < Level(op) THEN <<<<"(">>>> \o text \o <<<<")">>>> ELSE text

Byte == 0 .. 255

\* extract_ts_query_node: of a binary operator the right operand comes first.
\* at is the buffer and the level of the operator around it.
TsQueryNode[at \in Seq(Byte) \X (1 .. 4)] ==
  LET buf == at[1]
      outer == at[2]
      Operand ==
        LET text == NulText(Drop(buf, 3))
        IN  IF Len(buf) < 3 \/ buf[2] \notin {0, 1, 2, 4, 8} \/ ~text.ok THEN Failed
            ELSE [text EXCEPT !.val = <<<<"lexeme", @, buf[3] = 1, buf[2]>>>>]
      Negation ==
        LET of == TsQueryNode[<<Drop(buf, 2), Level(Not)>>]
        IN  IF of.ok THEN [of EXCEPT !.val = <<<<"!">>>> \o @] ELSE Failed
      Binary(op, symbol, operands) ==
        LET right == TsQueryNode[<<operands, Level(op)>>]
            left == TsQueryNode[<<right.rest, Level(op)>>]
        IN  IF ~right.ok \/ ~left.ok THEN Failed
            ELSE [left EXCEPT !.val = Wrapped(outer, op, @ \o <<symbol>> \o right.val)]
  IN  CASE Len(buf) < 2 -> Failed
        [] Len(buf) >= 2 /\ buf[1] = 1 -> Operand
        [] Len(buf) >= 2 /\ buf[1] = 2 /\ buf[2] = Not -> Negation
        [] Len(buf) >= 2 /\ buf[1] = 2 /\ buf[2] \in {And, Or} ->
             Binary(buf[2], <<buf[2]>>, Drop(buf, 2))
        [] Len(buf) >= 4 /\ buf[1] = 2 /\ buf[2] = Phrase ->
             Binary(Phrase, <<Phrase, U16(Drop(buf, 2))>>, Drop(buf, 4))
        [] OTHER -> Failed

\* TsQuery: the length is not used; the top has the loosest level around it.
TsQuery(buf) ==
  LET query == TsQueryNode[<<Drop(buf, 4), Level(Or)>>]
  IN  IF Len(buf) < 4 \/ ~query.ok THEN Null ELSE Str("tsquery", query.val)

-----------------------------------------------------------------------------
(* Values that are a row of fields of fixed width. *)

\* The fields of buf, each of its width.
Fields(widths, buf) ==
  [k \in DOMAIN widths |->
     LET at == FoldLeft(+, 0, Take(widths, k - 1)) IN SubSeq(buf, at + 1, at + widths[k])]

\* MacAddr, MacAddr8, Tid, Point, Lseg, PgBox, PgLsn, Line, Circle: the length
\* is exactly that of the fields.
Widths == [macaddr |-> <<1, 1, 1, 1, 1, 1>>, macaddr8 |-> <<1, 1, 1, 1, 1, 1, 1, 1>>,
           tid |-> <<4, 2>>, point |-> <<8, 8>>, lseg |-> <<8, 8, 8, 8>>,
           box |-> <<8, 8, 8, 8>>, line |-> <<8, 8, 8>>, circle |-> <<8, 8, 8>>,
           pg_lsn |-> <<4, 4>>]

Fixed(name, buf) ==
  IF Len(buf) # FoldLeft(+, 0, Widths[name]) THEN Null ELSE Str(name, Fields(Widths[name], buf))

\* Polygon, Path, TxidSnapshotOrPgSnapshot, PgVector, PgHalfVector: fields, one of
\* which is the count of the elements after them.  A longer buffer is accepted.
Layout == [polygon  |-> [head |-> <<4>>,       count |-> 1, shown |-> {},     element |-> 16],
           path     |-> [head |-> <<1, 4>>,    count |-> 2, shown |-> {1},    element |-> 16],
           snapshot |-> [head |-> <<4, 8, 8>>, count |-> 1, shown |-> {2, 3}, element |-> 8],
           vector   |-> [head |-> <<2, 2>>,    count |-> 1, shown |-> {},     element |-> 4],
           halfvec  |-> [head |-> <<2, 2>>,    count |-> 1, shown |-> {},     element |-> 2]]

Counted(name, buf) ==
  LET l == Layout[name]
      width == FoldLeft(+, 0, l.head)
      head == Fields(l.head, buf)
      count == IF l.head[l.count] = 2 THEN U16(head[l.count]) ELSE Signed(head[l.count])
  IN  IF Len(buf) < width \/ count < 0 \/ Len(buf) < width + count * l.element THEN Null
      ELSE Str(name, <<[k \in l.shown |-> head[k]],
                       [k \in 1 .. count |->
                          SubSeq(buf, width + (k - 1) * l.element + 1, width + k * l.element)]>>)

\* PgSparseVector: dimension, count, a word not used, the indices, the values.
SparseVector(buf) ==
  LET nnz == I32(Drop(buf, 4))
  IN  IF Len(buf) < 12 \/ Len(buf) < 12 + 8 * nnz THEN Null
      ELSE Str("sparsevec", [dim |-> I32(buf),
              at |-> [k \in 1 .. nnz |-> <<I32(Drop(buf, 12 + 4 * (k - 1))) + 1,
                                           SubSeq(buf, 13 + 4 * (nnz + k - 1), 12 + 4 * (nnz + k))>>]])

\* BitOrVarBit: the bits of each byte, without the padding of the last.
BitString(buf) ==
  LET count == I32(buf)
      bytes == (count + 7) \div 8
      bit(k) == (buf[5 + (k - 1) \div 8] \div 2^(7 - ((k - 1) % 8))) % 2
  IN  IF Len(buf) < 4 \/ Len(buf) < 4 + bytes THEN Null
      ELSE Str("bit", [k \in 1 .. count |-> bit(k)])

\* CidrOrInet: family, netmask, a flag, length, address.
Inet(buf) ==
  LET width == IF buf[1] = 2 THEN 4 ELSE 16
  IN  IF \/ Len(buf) < 8
         \/ buf[1] \notin {2, 3}
         \/ buf[2] > 8 * width \/ buf[4] # width \/ Len(buf) < 4 + width THEN Null
      ELSE Str("inet", <<SubSeq(buf, 5, 4 + width), buf[2]>>)

\* JsonPath: without its version byte.
JsonPath(buf) == IF buf = <<>> THEN Null ELSE Str("jsonpath", Drop(buf, 1))

TextScalars == {"int8", "money", "xid8", "timetz", "interval", "tsvector", "tsquery",
                "sparsevec", "bit", "inet", "jsonpath"} \cup DOMAIN Widths \cup DOMAIN Layout

\* The arms of these types, which read alike in a column and inside a value.
ScalarText(name, buf) ==
  CASE name = "int8"      -> IF Len(buf) # 8 THEN Null ELSE I64ToJson(name, I64(buf))
    [] name = "money"     -> IF Len(buf) # 8 THEN Null ELSE I64ToJson(name, I64(buf))
    [] name = "xid8"      -> IF Len(buf) # 8 THEN Null ELSE U64ToJson(name, I64(buf))
    [] name = "timetz"    -> TimeTz(buf)
    [] name = "interval"  -> Interval(buf)
    [] name = "tsvector"  -> TsVector(buf)
    [] name = "tsquery"   -> TsQuery(buf)
    [] name = "sparsevec" -> SparseVector(buf)
    [] name = "bit"       -> BitString(buf)
    [] name = "inet"      -> Inet(buf)
    [] name = "jsonpath"  -> JsonPath(buf)
    [] name \in DOMAIN Widths -> Fixed(name, buf)
    [] name \in DOMAIN Layout -> Counted(name, buf)
=============================================================================
