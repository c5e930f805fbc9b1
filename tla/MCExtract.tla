----------------------------- MODULE MCExtract -----------------------------
(* Extract on small values of every type. *)
EXTENDS Extract

Simple(name) == <<"simple", name>>
Of(kind, of) == <<kind, of>>
Opt(S) == {{}} \cup {{x} : x \in S}
UpTo2(S) == {<<>>} \cup {<<x>> : x \in S} \cup {<<x, y>> : x, y \in S}

Int4 == {<<0, 0, 0, 1>>, <<0, 0, 0, 2>>}
Dates == {<<0, 0, 0, 5>>, Infinity, NegInfinity}
Times == {<<0, 0, 0, 0, 0, 0, 0, 3>>}
Letters == {<<97>>, <<98, 99>>}
Ranges(S) ==
  {[empty |-> TRUE, lo |-> {}, up |-> {}, loInc |-> FALSE, upInc |-> FALSE]}
    \cup [empty : {FALSE}, lo : Opt(S), up : Opt(S), loInc : {TRUE}, upInc : {FALSE}]
FewRanges(S) == [empty : {FALSE}, lo : Opt(S), up : Opt(S), loInc : {FALSE}, upInc : {TRUE}]

Inner == Of("composite", <<Simple("date"), Of("array", Simple("enum"))>>)
InnerValues == Opt({<<5, 0, 0, 0>>, Infinity}) \X Opt({<<>>, <<{<<97>>}, {}>>})

\* Types and their values.
Containers ==
  {<<Of("range", "int4"), v>> : v \in Ranges(Int4)}
    \cup {<<Of("range", "int8"), v>> : v \in Ranges({Be(8, 3), Be(8, -6)})}
    \cup {<<Of("range", "date"), v>> : v \in Ranges(Dates)}
    \cup {<<Of("range", "time"), v>> : v \in Ranges(Times)}
    \cup {<<Of("multirange", "date"), v>> : v \in UpTo2(Ranges(Dates))}
    \cup {<<Of("array", Simple("int4")), v>> : v \in UpTo2(Opt(Int4))}
    \cup {<<Of("array", Simple("date")), v>> : v \in UpTo2(Opt(Dates))}
    \cup {<<Of("array", Simple("time")), v>> : v \in UpTo2(Opt(Times))}
    \cup {<<Of("array", Of("domain", Simple("text"))), v>> : v \in UpTo2(Opt(Letters))}
    \cup {<<Of("array", Of("range", "date")), v>> : v \in UpTo2(Opt(FewRanges(Dates)))}
    \cup {<<Of("array", Of("range", "time")), v>> : v \in UpTo2(Opt(FewRanges(Times)))}
    \cup {<<Of("multirange", "time"), v>> : v \in UpTo2(Ranges(Times))}
    \cup {<<Of("array", Inner), v>> : v \in UpTo2(Opt(InnerValues))}
    \cup {<<Of("composite", <<Simple("int4"), Of("range", "date"), Simple("text")>>), v>> :
             v \in Opt(Int4) \X Opt(Ranges(Dates)) \X Opt(Letters)}
    \cup {<<Of("composite", <<Inner, Of("multirange", "int4")>>), v>> :
             v \in Opt(InnerValues) \X Opt(UpTo2({r \in Ranges(Int4) : r.lo = {} \/ r.up = {}}))}

Ticks == {0, 7, 50, Second, 61 * Second, 23 * Hour + 59, 24 * Hour, 30 * Hour + Minute}
Signs(S) == S \cup {-x : x \in S}
Places == {<<>>, <<<<1, 0>>>>, <<<<2, 3>>, <<9, 1>>>>}
Lexemes == [text : Letters, places : Places]
Four == {<<63, 128, 0, 0>>, <<0, 0, 0, 0>>}
Eight == {Be(8, 1), Be(8, 2)}

Word == [op : {"lexeme"}, text : {<<97>>}, prefix : {FALSE}, weight : {0}]
          \cup [op : {"lexeme"}, text : {<<98>>}, prefix : {TRUE}, weight : {8}]
Joined(S) == S \cup [op : {"not"}, of : S] \cup [op : {"and", "or"}, left : S, right : S]
              \cup [op : {"phrase"}, distance : {1}, left : S, right : S]
Queries == Joined(Joined(Word)) \cup [op : {"phrase"}, distance : {2}, left : Word, right : Word]

ScalarValues(name) ==
  CASE name \in {"int8", "money", "xid8"} -> -WordMax - 1 .. WordMax
    [] name = "timetz"    -> [ticks : {t \in Ticks : t < 24 * Hour}, offset : Signs({0, 3600, 19845})]
    [] name = "interval"  -> [ticks : Signs(Ticks), days : {-1, 0, 2}, months : {-25, -1, 0, 11, 12, 14}]
    [] name = "tsvector"  -> UpTo2(Lexemes)
    [] name = "tsquery"   -> Queries
    [] name = "sparsevec" -> [dim : {3}, at : UpTo2({1, 3} \X Four)]
    [] name = "bit"       -> UNION {[1 .. n -> {0, 1}] : n \in {0, 1, 3}}
                               \cup {[k \in 1 .. n |-> (k \div 2) % 2] : n \in {7, 8, 9, 16}}
    [] name = "inet"      -> {<<<<10, 0, 0, 1>>, 8>>, <<[k \in 1 .. 16 |-> k], 128>>}
    [] name = "jsonpath"  -> Letters
    [] name \in DOMAIN Widths ->
         {[k \in DOMAIN Widths[name] |-> [j \in 1 .. Widths[name][k] |-> (k * j + s) % 256]] : s \in {0, 1}}
    [] name \in DOMAIN Layout ->
         {<<[k \in Layout[name].shown |-> [j \in 1 .. Layout[name].head[k] |-> k]],
            [k \in 1 .. n |-> [j \in 1 .. Layout[name].element |-> k]]>> : n \in 0 .. 2}

Typed ==
  Containers
    \cup {<<Simple(name), v>> : name \in {"int4"}, v \in Int4}
    \cup UNION {{<<Simple(name), v>> : v \in ScalarValues(name)} : name \in TextScalars}

\* The types of a type's parts and the parts of a value.
PartTypes(t) ==
  CASE Kind(t) \in {"array", "domain"} -> {Arg(t)}
    [] Kind(t) = "composite"          -> {Arg(t)[k] : k \in DOMAIN Arg(t)}
    [] OTHER                          -> {}
Parts(tv) ==
  CASE Kind(tv[1]) = "domain"    -> {<<Arg(tv[1]), tv[2]>>}
    [] Kind(tv[1]) = "array"     -> UNION {{<<Arg(tv[1]), x>> : x \in tv[2][k]} : k \in DOMAIN tv[2]}
    [] Kind(tv[1]) = "composite" -> UNION {{<<Arg(tv[1])[k], x>> : x \in tv[2][k]} : k \in DOMAIN tv[2]}
    [] OTHER                     -> {}

RECURSIVE Closed(_, _)
Closed(S, n) == IF n = 0 THEN S ELSE S \cup Closed(UNION {Parts(tv) : tv \in S}, n - 1)
RECURSIVE ClosedTypes(_, _)
ClosedTypes(S, n) == IF n = 0 THEN S ELSE S \cup ClosedTypes(UNION {PartTypes(t) : t \in S}, n - 1)
RECURSIVE Deep(_)
Deep(t) == 1 + Max({0} \cup {Deep(p) : p \in PartTypes(t)})

MCTypes == ClosedTypes({tv[1] : tv \in Typed}, Nesting)
MCDepth == [t \in MCTypes |-> Deep(t)]
MCValue == Closed(Typed, Nesting)

RECURSIVE Sent1(_)
Sent1(tv) == Send(tv[1], tv[2], [part \in Parts(tv) |-> Sent1(part)])
MCWire == [tv \in MCValue |-> Sent1(tv)]
=============================================================================
