---------------------------- MODULE Rows_proofs ----------------------------
(* A row is found again by what was shown of its key, and by nothing else.   *)
EXTENDS Rows, SequenceTheorems, WellFoundedInduction, TLAPS

-----------------------------------------------------------------------------
(* Fragments, column after column. *)

\* Every nonempty set of naturals has a least member.
LEMMA LeastOne ==
  ASSUME NEW T \in SUBSET Nat, T # {}
  PROVE  \E n \in T : \A m \in T : n <= m
<1>1. IsWellFoundedOn(OpToRel(<, Nat), Nat)
  BY NatLessThanWellFounded
<1>2. PICK n \in T : \A m \in T : <<m, n>> \notin OpToRel(<, Nat)
  BY <1>1, WFMin, Zenon
<1>3. \A m \in T : ~(m < n)
  BY <1>2 DEF OpToRel
<1>4. QED
  BY <1>3

\* One column more.
Follows(s, n, cols, bound) ==
  IF KeyOrder[n] \notin cols THEN s ELSE Add(s, KeyOrder[n], bound[KeyOrder[n]][s.next])
IsUpto(f, m, cols, bound, idx) ==
  f = [n \in 0 .. m |-> IF n = 0 THEN NoFragments(idx) ELSE Follows(f[n - 1], n, cols, bound)]

\* The columns can be gone through.
LEMMA UptoExists ==
  ASSUME NEW cols, NEW bound, NEW idx, NEW m \in Nat
  PROVE  \E f : IsUpto(f, m, cols, bound, idx)
<1> DEFINE T == {n \in Nat : ~ \E f : IsUpto(f, n, cols, bound, idx)}
<1>1. CASE T # {}
  <2>1. PICK n \in T : \A k \in T : n <= k
    BY <1>1, LeastOne
  <2>2. CASE n = 0
    <3> DEFINE f == [k \in 0 .. 0 |-> NoFragments(idx)]
    <3>1. IsUpto(f, 0, cols, bound, idx)
      BY DEF IsUpto
    <3>2. QED
      BY <2>1, <2>2, <3>1
  <2>3. CASE n # 0
    <3>1. n \in Nat /\ n - 1 \in Nat /\ n - 1 \notin T
      BY <2>1, <2>3
    <3>2. PICK g : IsUpto(g, n - 1, cols, bound, idx)
      BY <3>1
    <3> DEFINE f == [k \in 0 .. n |-> IF k = n THEN Follows(g[n - 1], n, cols, bound) ELSE g[k]]
    <3>3. f[n - 1] = g[n - 1]
      BY <3>1
    <3>4. \A k \in 0 .. n - 1 : g[k] = IF k = 0 THEN NoFragments(idx) ELSE Follows(g[k - 1], k, cols, bound)
      BY <3>1, <3>2 DEF IsUpto
    <3>5. \A k \in 0 .. n : f[k] = IF k = 0 THEN NoFragments(idx) ELSE Follows(f[k - 1], k, cols, bound)
      BY <2>3, <3>1, <3>3, <3>4
    <3>6. IsUpto(f, n, cols, bound, idx)
      BY <3>5 DEF IsUpto
    <3>7. QED
      BY <2>1, <3>6
  <2>4. QED
    BY <2>2, <2>3
<1>2. CASE T = {}
  BY <1>2
<1>3. QED
  BY <1>1, <1>2

\* Fragments is the last of them.
LEMMA FragmentsIs ==
  ASSUME NEW cols, NEW bound, NEW idx, Len(KeyOrder) \in Nat
  PROVE  \E f : IsUpto(f, Len(KeyOrder), cols, bound, idx) /\ Fragments(cols, bound, idx) = f[Len(KeyOrder)]
<1>1. \E f : IsUpto(f, Len(KeyOrder), cols, bound, idx)
  BY UptoExists
<1> DEFINE f == CHOOSE u : u = [n \in 0 .. Len(KeyOrder) |->
                     IF n = 0 THEN NoFragments(idx)
                     ELSE IF KeyOrder[n] \notin cols THEN u[n - 1]
                     ELSE Add(u[n - 1], KeyOrder[n], bound[KeyOrder[n]][u[n - 1].next])]
<1>2. Fragments(cols, bound, idx) = f[Len(KeyOrder)]
  BY DEF Fragments
<1>3. IsUpto(f, Len(KeyOrder), cols, bound, idx)
  BY <1>1 DEF IsUpto, Follows
<1>4. QED
  BY <1>2, <1>3

\* A bound value sends its own text for the placeholder it has, or nothing.
IsBound(b, i, S) ==
  \/ b.at = 0 /\ b.param = <<>>
  \/ b.at = i /\ b.text \in S /\ b.param = <<b.text>>

\* Of the columns gone through, each has a fragment, and the fragment its text among what is
\* sent, what is sent before included.
Lined(s, n, cols, bound, before, S) ==
  /\ s = [frags |-> s.frags, params |-> s.params, next |-> s.next]
  /\ s.params \in Seq(S)
  /\ s.next = Len(before) + Len(s.params) + 1
  /\ DOMAIN s.frags = {c \in cols : \E k \in 1 .. n : KeyOrder[k] = c}
  /\ \A c \in DOMAIN s.frags :
       /\ \E i \in Nat \ {0} : s.frags[c] = bound[c][i]
       /\ TextOf(s.frags[c], before \o s.params) = {s.frags[c].text}

\* What is sent in three parts.
LEMMA Regrouped ==
  ASSUME NEW S, NEW x \in Seq(S), NEW y \in Seq(S), NEW z \in Seq(S)
  PROVE  x \o (y \o z) = (x \o y) \o z
  BY ConcatAssociative

\* What is sent after does not matter.
LEMMA MoreSent ==
  ASSUME NEW S, NEW sent \in Seq(S), NEW more \in Seq(S), NEW frag,
         TextOf(frag, sent) = {frag.text}
  PROVE  TextOf(frag, sent \o more) = {frag.text}
<1>1. CASE frag.at = 0
  BY <1>1 DEF TextOf
<1>2. CASE frag.at # 0
  <2>1. frag.at \in DOMAIN sent /\ sent[frag.at] = frag.text
    BY <1>2 DEF TextOf
  <2>2. DOMAIN sent = 1 .. Len(sent)
    OBVIOUS
  <2>3. sent \o more \in Seq(S) /\ Len(sent \o more) = Len(sent) + Len(more)
        /\ \A k \in 1 .. Len(sent) : (sent \o more)[k] = sent[k]
    BY ConcatProperties
  <2>4. DOMAIN (sent \o more) = 1 .. Len(sent \o more) /\ Len(sent) \in Nat /\ Len(more) \in Nat
    BY <2>3
  <2>5. frag.at \in DOMAIN (sent \o more) /\ (sent \o more)[frag.at] = frag.text
    BY <2>1, <2>2, <2>3, <2>4
  <2>6. QED
    BY <1>2, <2>5 DEF TextOf
<1>3. QED
  BY <1>1, <1>2

\* A value just bound at the next placeholder has its text there.
LEMMA JustSent ==
  ASSUME NEW S, NEW sent \in Seq(S), NEW b, IsBound(b, Len(sent) + 1, S)
  PROVE  /\ b.param \in Seq(S)
         /\ TextOf(b, sent \o b.param) = {b.text}
<1>1. CASE b.at = 0 /\ b.param = <<>>
  BY <1>1 DEF TextOf
<1>2. CASE b.at = Len(sent) + 1 /\ b.text \in S /\ b.param = <<b.text>>
  <2>1. b.param \in Seq(S) /\ Len(b.param) = 1 /\ b.param[1] = b.text
    BY <1>2
  <2>2. sent \o b.param \in Seq(S) /\ Len(sent \o b.param) = Len(sent) + 1
        /\ (sent \o b.param)[Len(sent) + 1] = b.param[1]
    BY <2>1, ConcatProperties
  <2>3. b.at # 0 /\ b.at \in DOMAIN (sent \o b.param)
    BY <1>2, <2>2
  <2>4. QED
    BY <1>2, <2>1, <2>2, <2>3 DEF TextOf
<1>3. QED
  BY <1>1, <1>2 DEF IsBound

\* One column more keeps all this.
LEMMA OneMore ==
  ASSUME NEW S, NEW cols, NEW bound, NEW before \in Seq(S), NEW n \in Nat, NEW s,
         n # 0, Lined(s, n - 1, cols, bound, before, S),
         \A c \in cols : \A i \in Nat \ {0} : IsBound(bound[c][i], i, S)
  PROVE  Lined(Follows(s, n, cols, bound), n, cols, bound, before, S)
<1>1. \A c : (\E k \in 1 .. n : KeyOrder[k] = c) <=> c = KeyOrder[n] \/ \E k \in 1 .. n - 1 : KeyOrder[k] = c
  OBVIOUS
<1>2. CASE KeyOrder[n] \notin cols
  <2>1. {c \in cols : \E k \in 1 .. n : KeyOrder[k] = c} = {c \in cols : \E k \in 1 .. n - 1 : KeyOrder[k] = c}
    BY <1>1, <1>2
  <2>2. QED
    BY <1>2, <2>1 DEF Follows, Lined
<1>3. CASE KeyOrder[n] \in cols
  <2>1. PICK d : d = KeyOrder[n]
    OBVIOUS
  <2>2. PICK sent : sent = before \o s.params
    OBVIOUS
  <2>3. s.params \in Seq(S) /\ sent \in Seq(S) /\ Len(sent) = Len(before) + Len(s.params)
    BY <2>2, ConcatProperties DEF Lined
  <2>4. s.next = Len(sent) + 1 /\ s.next \in Nat \ {0}
    BY <2>3 DEF Lined
  <2>5. PICK b : b = bound[d][s.next]
    OBVIOUS
  <2>6. IsBound(b, Len(sent) + 1, S)
    BY <1>3, <2>1, <2>4, <2>5
  <2>7. b.param \in Seq(S) /\ TextOf(b, sent \o b.param) = {b.text}
    BY <2>3, <2>6, JustSent
  <2>8. PICK t : t = Follows(s, n, cols, bound)
    OBVIOUS
  <2>9. t = Add(s, d, b)
    BY <1>3, <2>1, <2>5, <2>8 DEF Follows
  <2>10. /\ t = [frags |-> t.frags, params |-> t.params, next |-> t.next]
         /\ t.params = s.params \o b.param /\ t.next = s.next + Len(b.param)
         /\ DOMAIN t.frags = DOMAIN s.frags \cup {d}
         /\ t.frags[d] = b
         /\ \A c \in DOMAIN s.frags : c # d => t.frags[c] = s.frags[c]
    BY <2>9 DEF Add
  <2>11. t.params \in Seq(S) /\ Len(t.params) = Len(s.params) + Len(b.param)
    BY <2>3, <2>7, <2>10, ConcatProperties
  <2>12. t.next = Len(before) + Len(t.params) + 1
    <3>1. PICK i, j, k : i = Len(before) /\ j = Len(s.params) /\ k = Len(b.param)
      OBVIOUS
    <3>2. i \in Nat /\ j \in Nat /\ k \in Nat
      BY <2>3, <2>7, <3>1
    <3>3. s.next = i + j + 1 /\ t.next = s.next + k /\ Len(t.params) = j + k
      BY <2>3, <2>4, <2>10, <2>11, <3>1
    <3>4. (i + j + 1) + k = i + (j + k) + 1
      BY <3>2
    <3>5. t.next = (i + j + 1) + k
      BY <3>3
    <3>6. i + (j + k) + 1 = Len(before) + Len(t.params) + 1
      BY <3>1, <3>3
    <3>7. QED
      BY <3>4, <3>5, <3>6
  <2>13. DOMAIN t.frags = {c \in cols : \E k \in 1 .. n : KeyOrder[k] = c}
    BY <1>1, <1>3, <2>1, <2>10 DEF Lined
  <2>14. before \o t.params = sent \o b.param
    <3>1. PICK y, z : y = s.params /\ z = b.param
      OBVIOUS
    <3>2. y \in Seq(S) /\ z \in Seq(S)
      BY <2>3, <2>7, <3>1
    <3>3. before \o (y \o z) = (before \o y) \o z
      BY <3>2, Regrouped
    <3>4. QED
      BY <2>2, <2>10, <3>1, <3>3
  <2>15. ASSUME NEW c \in DOMAIN t.frags
         PROVE  /\ \E i \in Nat \ {0} : t.frags[c] = bound[c][i]
                /\ TextOf(t.frags[c], before \o t.params) = {t.frags[c].text}
    <3>1. CASE c = d
      BY <2>4, <2>5, <2>7, <2>10, <2>14, <3>1
    <3>2. CASE c # d
      <4>1. c \in DOMAIN s.frags /\ t.frags[c] = s.frags[c]
        BY <2>10, <3>2
      <4>2. /\ \E i \in Nat \ {0} : s.frags[c] = bound[c][i]
            /\ TextOf(s.frags[c], sent) = {s.frags[c].text}
        BY <2>2, <4>1 DEF Lined
      <4>3. TextOf(s.frags[c], sent \o b.param) = {s.frags[c].text}
        BY <2>3, <2>7, <4>2, MoreSent
      <4>4. QED
        BY <2>14, <4>1, <4>2, <4>3
    <3>3. QED
      BY <3>1, <3>2
  <2>16. QED
    BY <2>8, <2>10, <2>11, <2>12, <2>13, <2>15 DEF Lined
<1>4. QED
  BY <1>2, <1>3

\* So every column gone through has its fragment, and the fragment its text.
LEMMA AllLined ==
  ASSUME NEW S, NEW cols, NEW bound, NEW before \in Seq(S), NEW m \in Nat, NEW f,
         IsUpto(f, m, cols, bound, Len(before) + 1),
         \A c \in cols : \A i \in Nat \ {0} : IsBound(bound[c][i], i, S)
  PROVE  Lined(f[m], m, cols, bound, before, S)
<1> DEFINE T == {n \in Nat : n \in 0 .. m /\ ~Lined(f[n], n, cols, bound, before, S)}
<1>1. \A n \in 0 .. m : f[n] = IF n = 0 THEN NoFragments(Len(before) + 1)
                                 ELSE Follows(f[n - 1], n, cols, bound)
  BY DEF IsUpto
<1>2. CASE T # {}
  <2>1. PICK n \in T : \A k \in T : n <= k
    BY <1>2, LeastOne
  <2>2. CASE n = 0
    <3>1. f[n] = NoFragments(Len(before) + 1)
      BY <1>1, <2>2
    <3>2. PICK s : s = NoFragments(Len(before) + 1)
      OBVIOUS
    <3>3. /\ s = [frags |-> s.frags, params |-> s.params, next |-> s.next]
          /\ s.params = <<>> /\ s.next = Len(before) + 1 /\ DOMAIN s.frags = {}
      BY <3>2 DEF NoFragments
    <3>4. Lined(s, 0, cols, bound, before, S)
      BY <3>3 DEF Lined
    <3>5. QED
      BY <2>1, <2>2, <3>1, <3>2, <3>4
  <2>3. CASE n # 0
    <3>1. n \in Nat /\ n \in 0 .. m /\ n - 1 \in 0 .. m /\ n - 1 \in Nat /\ n - 1 \notin T
      BY <2>1, <2>3
    <3>2. Lined(f[n - 1], n - 1, cols, bound, before, S)
      BY <3>1
    <3>3. f[n] = Follows(f[n - 1], n, cols, bound)
      BY <1>1, <2>3, <3>1
    <3>4. Lined(Follows(f[n - 1], n, cols, bound), n, cols, bound, before, S)
      BY <2>3, <3>1, <3>2, OneMore
    <3>5. QED
      BY <2>1, <3>3, <3>4
  <2>4. QED
    BY <2>2, <2>3
<1>3. CASE T = {}
  BY <1>3
<1>4. QED
  BY <1>2, <1>3

\* A column's fragment is what its value is bound to, and its text is among what is sent.
Among(s, c, bound, before) ==
  /\ \E i \in Nat \ {0} : s.frags[c] = bound[c][i]
  /\ TextOf(s.frags[c], before \o s.params) = {s.frags[c].text}

\* Of the columns asked for, each has a fragment that is what its value is bound to at some
\* placeholder, with its own text sent for it.
LEMMA FragmentsRight ==
  ASSUME NEW S, NEW cols, NEW bound, NEW before \in Seq(S),
         cols \subseteq Ordered,
         \A c \in cols : \A i \in Nat \ {0} : IsBound(bound[c][i], i, S),
         NEW s, s = Fragments(cols, bound, Len(before) + 1), NEW c \in cols
  PROVE  s.params \in Seq(S) /\ Among(s, c, bound, before)
<1>1. Len(KeyOrder) \in Nat /\ DOMAIN KeyOrder = 1 .. Len(KeyOrder)
  BY SchemaAssumption
<1>2. PICK f : IsUpto(f, Len(KeyOrder), cols, bound, Len(before) + 1) /\ s = f[Len(KeyOrder)]
  BY <1>1, FragmentsIs
<1>3. Lined(s, Len(KeyOrder), cols, bound, before, S)
  BY <1>1, <1>2, AllLined
<1>4. c \in DOMAIN s.frags
  BY <1>1, <1>3 DEF Lined, Ordered
<1>5. QED
  BY <1>3, <1>4 DEF Lined, Among

-----------------------------------------------------------------------------
(* What a key's cell is bound to. *)

\* It is refused, or asks for NULL, or sends the text that was shown.
PkShape(b, json, i) ==
  \/ b = Refused
  \/ json[1] = "null" /\ b.at = 0 /\ b.param = <<>> /\ b.as = "isnull"
  \/ json[1] # "null" /\ b.at = i /\ b.text = json[2] /\ b.param = <<json[2]>> /\ b.as # "isnull"

\* What a numeric column's text is bound to.
LEMMA NumericIs ==
  ASSUME NEW text, NEW type, NEW i, NEW b, b = NumericString(text, type, i)
  PROVE  b = Refused \/ \E as \in NumericTypes : b = Placed(i, as, text)
  BY DEF NumericString, NumericTypes, IntegerTypes, DecimalTypes, FloatTypes

\* What a text is bound to.
LEMMA PkStringIs ==
  ASSUME NEW text, NEW type, NEW i, NEW b, b = PkString(text, i, type)
  PROVE  \/ b = Refused
         \/ \E as \in NumericTypes \cup TemporalTypes \cup {"uuid", "text"} : b = Placed(i, as, text)
<1>1. CASE b = NumericString(text, type, i)
  BY <1>1, NumericIs
<1>2. CASE b = Placed(i, "uuid", text)
  BY <1>2
<1>3. CASE type \in TemporalTypes /\ b = Placed(i, type, text)
  BY <1>3
<1>4. CASE b = Placed(i, "bigint", text)
  BY <1>4 DEF NumericTypes, IntegerTypes
<1>5. CASE b = Placed(i, "text", text)
  BY <1>5
<1>6. QED
  BY <1>1, <1>2, <1>3, <1>4, <1>5 DEF PkString

\* What a key's JSON is bound to.
LEMMA PkShaped ==
  ASSUME NEW json, NEW type, NEW i, NEW b, b = PkValue(json, i, type)
  PROVE  PkShape(b, json, i)
<1> DEFINE real(x) == IF type = "real" /\ x # Refused THEN [x EXCEPT !.as = "real"] ELSE x
<1>1. ASSUME NEW as, as # "isnull", NEW x, x = Placed(i, as, json[2]), json[1] # "null", b = real(x)
      PROVE  PkShape(b, json, i)
  <2>1. x.at = i /\ x.as = as /\ x.text = json[2] /\ x.param = <<json[2]>>
    BY <1>1 DEF Placed
  <2>2. CASE b = x
    BY <1>1, <2>1, <2>2 DEF PkShape
  <2>3. CASE b = [x EXCEPT !.as = "real"]
    <3>1. b = [at |-> i, as |-> "real", text |-> json[2], param |-> <<json[2]>>]
      BY <1>1, <2>3 DEF Placed
    <3>2. b.at = i /\ b.as = "real" /\ b.text = json[2] /\ b.param = <<json[2]>>
      BY <3>1
    <3>3. QED
      BY <1>1, <3>2 DEF PkShape
  <2>4. QED
    BY <1>1, <2>2, <2>3
<1>2. CASE json[1] = "number"
  <2>1. PICK as : as \in {"bigint", "float8"} /\ BindNumber(json[2], i) = Placed(i, as, json[2])
    BY DEF BindNumber
  <2>2. b = real(Placed(i, as, json[2]))
    BY <1>2, <2>1 DEF PkValue
  <2>3. QED
    BY <1>1, <1>2, <2>1, <2>2
<1>3. CASE json[1] = "string"
  <2>1. PICK x : x = PkString(json[2], i, type)
    OBVIOUS
  <2>2. b = real(x)
    BY <1>3, <2>1 DEF PkValue
  <2>3. CASE x = Refused
    BY <2>2, <2>3 DEF PkShape
  <2>4. CASE \E as \in NumericTypes \cup TemporalTypes \cup {"uuid", "text"} : x = Placed(i, as, json[2])
    <3>1. PICK as \in NumericTypes \cup TemporalTypes \cup {"uuid", "text"} : x = Placed(i, as, json[2])
      BY <2>4
    <3>2. as # "isnull"
      BY <3>1 DEF NumericTypes, IntegerTypes, DecimalTypes, FloatTypes, TemporalTypes
    <3>3. QED
      BY <1>1, <1>3, <2>2, <3>1, <3>2
  <2>5. QED
    BY <2>1, <2>3, <2>4, PkStringIs
<1>4. CASE json[1] = "bool"
  BY <1>4 DEF PkValue, PkShape, Placed
<1>5. CASE json[1] = "null"
  BY <1>5 DEF PkValue, PkShape, Keyword, Inlined
<1>6. CASE json[1] \notin {"number", "string", "bool", "null"}
  BY <1>6 DEF PkValue, PkShape
<1>7. QED
  BY <1>2, <1>3, <1>4, <1>5, <1>6

\* So it takes the placeholder it is given, or none.
LEMMA PkBound ==
  ASSUME NEW json, NEW type, NEW i, NEW S, json[2] \in S
  PROVE  IsBound(PkValue(json, i, type), i, S)
  BY PkShaped DEF PkShape, IsBound, Refused, Keyword, Inlined

\* A column's fragment is what its JSON is bound to, and has its text among what is sent.
Names(s, c, json, given, before) ==
  /\ \E i \in Nat \ {0} : s.frags[c] = PkValue(json, i, given)
  /\ TextOf(s.frags[c], before \o s.params) = {s.frags[c].text}

\* The predicate names each column of the key with what was shown of it.
LEMMA PredicateRight ==
  ASSUME NEW pk, NEW given, DOMAIN pk \subseteq Ordered,
         NEW S, \A c \in DOMAIN pk : pk[c][2] \in S,
         NEW before \in Seq(S), NEW s, s = PkPredicate(pk, given, Len(before) + 1),
         NEW c \in DOMAIN pk
  PROVE  Names(s, c, pk[c], given[c], before)
<1> DEFINE bound == [d \in DOMAIN pk |-> [i \in Nat |-> PkValue(pk[d], i, given[d])]]
<1>1. \A d \in DOMAIN pk : \A i \in Nat : bound[d][i] = PkValue(pk[d], i, given[d])
  OBVIOUS
<1>2. \A d \in DOMAIN pk : \A i \in Nat \ {0} : IsBound(bound[d][i], i, S)
  BY <1>1, PkBound
<1>3. s = Fragments(DOMAIN pk, bound, Len(before) + 1)
  BY DEF PkPredicate
<1> HIDE DEF bound
<1>4. Among(s, c, bound, before)
  BY <1>2, <1>3, FragmentsRight
<1>5. QED
  BY <1>1, <1>4 DEF Names, Among

-----------------------------------------------------------------------------
(* Only the row that was named. *)

\* What is shown with the sort of a null is a null, unless it is a jsonb of another sort.
LEMMA ShownNull ==
  ASSUME NEW type, NEW v
  PROVE  Show(type, v)[1] = "null" => Show(type, v) = Null
<1>1. CASE type = "jsonb" /\ JsonSort(v) = "null"
  BY <1>1 DEF Show
<1>2. CASE ~(type = "jsonb" /\ JsonSort(v) = "null")
  BY <1>2 DEF Show, IntegerTypes, FloatTypes
<1>3. QED
  BY <1>1, <1>2

\* A value that matches what was shown of another, exactly, is that one.
LEMMA MatchIsSeen ==
  ASSUME NEW type, NEW v, NEW w, NEW given, NEW i, NEW frag, NEW params,
         frag = PkValue(Show(type, v), i, given), frag # Refused,
         TextOf(frag, params) = {frag.text},
         Matches(type, w, frag, params), Exact(type, v)
  PROVE  w = v
<1>1. PICK json : json = Show(type, v)
  OBVIOUS
<1>2. PkShape(frag, json, i)
  BY <1>1, PkShaped
<1>3. CASE json[1] = "null"
  <2>1. v = NULL
    BY <1>1, <1>3, ShownNull DEF Exact
  <2>2. frag.as = "isnull"
    BY <1>2, <1>3 DEF PkShape
  <2>3. QED
    BY <2>1, <2>2 DEF Matches
<1>4. CASE json[1] # "null"
  <2>1. v # NULL
    BY <1>1, <1>4 DEF Show, Null
  <2>2. frag.as # "isnull" /\ frag.text = json[2]
    BY <1>2, <1>4 DEF PkShape
  <2>3. w \in Reading(type, json[2])
    BY <2>2 DEF Matches
  <2>4. Reading(type, json[2]) = {v}
    BY <1>1, <2>1 DEF Exact
  <2>5. QED
    BY <2>3, <2>4
<1>5. QED
  BY <1>3, <1>4

\* The fragments of the request's key.
LEMMA KeyRight ==
  ASSUME schema \in Schema, NEW S, \A c \in schema.keys : ShownCell(request.row, c)[2] \in S,
         NEW before \in Seq(S), NEW s, s = PkPredicate(PkMap, types, Len(before) + 1), NEW c \in schema.keys
  PROVE  Names(s, c, ShownCell(request.row, c), types[c], before)
<1>1. PICK pk, given : pk = PkMap /\ given = types
  OBVIOUS
<1>2. DOMAIN pk = schema.keys /\ \A d \in schema.keys : pk[d] = ShownCell(request.row, d)
  BY <1>1 DEF PkMap
<1>3. DOMAIN pk \subseteq Ordered
  BY <1>2, SchemaAssumption
<1>4. \A d \in DOMAIN pk : pk[d][2] \in S
  BY <1>2
<1>5. s = PkPredicate(pk, given, Len(before) + 1)
  BY <1>1
<1>6. c \in DOMAIN pk
  BY <1>2
<1>7. Names(s, c, pk[c], given[c], before)
  BY <1>3, <1>4, <1>5, <1>6, PredicateRight
<1>8. QED
  BY <1>1, <1>2, <1>7

\* The row is one the request's predicate names, after what was sent before.
Points(i, before, where) ==
  /\ where = PkPredicate(PkMap, types, Len(before) + 1)
  /\ ~Broken(where.frags, before \o where.params)
  /\ i \in Named(where.frags, before \o where.params)

\* The rows a predicate names have the key that was shown, where it was shown exactly.
LEMMA NamedAsShown ==
  ASSUME schema \in Schema, NEW S, \A c \in schema.keys : ShownCell(request.row, c)[2] \in S,
         NEW before \in Seq(S), NEW s, NEW i, Points(i, before, s), NEW c \in schema.keys,
         Exact(schema.types[c], seen[request.row][c])
  PROVE  table[i][c] = seen[request.row][c]
<1>1. Names(s, c, ShownCell(request.row, c), types[c], before)
  BY KeyRight DEF Points
<1>2. PICK sent : sent = before \o s.params
  OBVIOUS
<1>3. PICK k \in Nat \ {0} : s.frags[c] = PkValue(ShownCell(request.row, c), k, types[c])
  BY <1>1 DEF Names
<1>4. TextOf(s.frags[c], sent) = {s.frags[c].text}
  BY <1>1, <1>2 DEF Names
<1>5. PICK type, v, w, given, frag :
        /\ type = schema.types[c] /\ v = seen[request.row][c] /\ w = table[i][c] /\ given = types[c]
        /\ frag = s.frags[c]
  OBVIOUS
<1>6. frag = PkValue(Show(type, v), k, given)
  BY <1>3, <1>5 DEF ShownCell
<1>7. frag # Refused
  BY <1>5, <1>2 DEF Points, Broken
<1>8. Matches(type, w, frag, sent)
  BY <1>5, <1>2 DEF Points, Named
<1>9. w = v
  BY <1>4, <1>5, <1>6, <1>7, <1>8, MatchIsSeen
<1>10. QED
  BY <1>5, <1>9

\* What a text is bound to takes the placeholder it is given, or none.
LEMMA BindBound ==
  ASSUME NEW json, NEW o, NEW i, NEW S, json[2] \in S
  PROVE  IsBound(BindValue(json, i, o), i, S)
<1> DEFINE Good(b) == IsBound(b, i, S)
<1>1. \A as : Good(Placed(i, as, json[2]))
  BY DEF IsBound, Placed
<1>2. \A as, text : Good(Inlined(as, text))
  BY DEF IsBound, Inlined
<1>3. Good(Refused) /\ Good(Keyword("NULL")) /\ Good(Keyword("DEFAULT"))
  BY <1>2 DEF Refused, Keyword
<1> HIDE DEF Good
<1>4. \A type : Good(NumericString(json[2], type, i))
  BY <1>1, <1>3 DEF NumericString
<1>5. \A type : Good(VectorString(json[2], type)) /\ Good(ArrayLiteral(json[2]))
  BY <1>2, <1>3 DEF VectorString, ArrayLiteral
<1>6. Good(BindNumber(json[2], i))
  BY <1>1 DEF BindNumber
<1>7. Good(BindString(json[2], i, o))
  BY <1>1, <1>2, <1>3, <1>4, <1>5 DEF BindString
<1>8. Good(BindHstore(json, i, o.oid))
  BY <1>1, <1>3 DEF BindHstore
<1>9. Good(BindValue(json, i, o))
  BY <1>1, <1>3, <1>5, <1>6, <1>7, <1>8 DEF BindValue
<1>10. QED
  BY <1>9 DEF Good

\* The new value of an update, bound at the first placeholder, and what comes after it.
LEMMA SetRight ==
  ASSUME NEW S, NEW c, NEW b, IsBound(b, 1, S), NEW set, set = Add(NoFragments(1), c, b)
  PROVE  /\ set.params \in Seq(S) /\ set.next = Len(set.params) + 1
         /\ set.params = b.param /\ set.frags[c] = b
<1>1. b.param = <<>> \/ (b.text \in S /\ b.param = <<b.text>>)
  BY DEF IsBound
<1>2. b.param \in Seq(S)
  <2>1. CASE b.param = <<>>
    BY <2>1
  <2>2. CASE b.text \in S /\ b.param = <<b.text>>
    BY <2>2
  <2>3. QED
    BY <1>1, <2>1, <2>2
<1>3. set.params = <<>> \o b.param /\ set.next = 1 + Len(b.param) /\ set.frags[c] = b
  BY DEF Add, NoFragments
<1>4. <<>> \o b.param = b.param
  BY <1>2
<1>5. QED
  BY <1>2, <1>3, <1>4

\* The texts of a request.
TextsAsked == {request.json[2]} \cup {ShownCell(request.row, c)[2] : c \in Columns \cup schema.keys}

\* What an update binds, and the SET it makes of it.
Sets(b, set) ==
  /\ b = BindValue(request.json, 1, Options(request.col, TRUE))
  /\ set = Add(NoFragments(1), request.col, b)

\* That is what an update sends before its predicate.
LEMMA SetAsked ==
  ASSUME NEW b, NEW set, Sets(b, set)
  PROVE  /\ set.params \in Seq(TextsAsked) /\ set.next = Len(set.params) + 1
         /\ set.params = b.param /\ set.frags[request.col] = b
<1>1. IsBound(b, 1, TextsAsked)
  BY BindBound DEF TextsAsked, Sets
<1>2. PICK S, c, s : S = TextsAsked /\ c = request.col /\ s = set
  OBVIOUS
<1>3. IsBound(b, 1, S) /\ s = Add(NoFragments(1), c, b)
  BY <1>1, <1>2 DEF Sets
<1>4. s.params \in Seq(S)
  BY <1>3, SetRight
<1>5. s.params = b.param /\ s.frags[c] = b
  BY <1>3, SetRight
<1>6. s.next = 1 + Len(b.param)
  BY <1>3 DEF Add, NoFragments
<1>7. s.next = Len(s.params) + 1
  BY <1>4, <1>5, <1>6
<1>8. QED
  BY <1>2, <1>4, <1>5, <1>7

\* The rows written or read are among those the predicate names.
LEMMA HitsNamed ==
  ASSUME Update \/ Delete \/ FetchBlob, NEW i \in result'.hit
  PROVE  \E before \in Seq(TextsAsked) : \E where : Points(i, before, where)
<1>1. ASSUME NEW r, NEW t, Finish(r, t), NEW hit, r.hit \subseteq hit
      PROVE  i \in hit
  BY <1>1 DEF Finish, Failed
<1>2. \A what : Failed(what).hit = {}
  BY DEF Failed
<1>3. \A hit, got : Done(hit, got).hit = hit
  BY DEF Done
<1>4. CASE Update
  <2>1. PICK b : b = BindValue(request.json, 1, Options(request.col, TRUE))
    OBVIOUS
  <2>2. PICK set : set = Add(NoFragments(1), request.col, b)
    OBVIOUS
  <2>3. set.params \in Seq(TextsAsked) /\ set.next = Len(set.params) + 1
    BY <2>1, <2>2, SetAsked DEF Sets
  <2>4. PICK where : where = PkPredicate(PkMap, types, set.next)
    OBVIOUS
  <2>5. PICK params : params = set.params \o where.params
    OBVIOUS
  <2>6. PICK hit : hit = Named(where.frags, params)
    OBVIOUS
  <2>7. \/ \E what : Finish(Failed(what), table)
        \/ ~Broken(where.frags, params) /\ \E t : Finish(Done(hit, {}), t)
    BY <1>4, <2>1, <2>2, <2>4, <2>5, <2>6 DEF Update
  <2>8. CASE \E what : Finish(Failed(what), table)
    BY <1>1, <1>2, <2>8
  <2>9. CASE ~Broken(where.frags, params) /\ \E t : Finish(Done(hit, {}), t)
    <3>1. i \in hit
      BY <1>1, <1>3, <2>9
    <3>2. Points(i, set.params, where)
      BY <2>3, <2>4, <2>5, <2>6, <2>9, <3>1 DEF Points
    <3>3. QED
      BY <2>3, <3>2
  <2>10. QED
    BY <2>7, <2>8, <2>9
<1>5. CASE Delete \/ FetchBlob
  <2>1. PICK where : where = PkPredicate(PkMap, types, 1)
    OBVIOUS
  <2>2. PICK hit : hit = Named(where.frags, where.params)
    OBVIOUS
  <2>3. \/ \E what, t : Finish(Failed(what), t)
        \/ ~Broken(where.frags, where.params) /\ \E t : Finish(Done(hit, {}), t)
        \/ ~Broken(where.frags, where.params) /\ \E t, k, got : k \in hit /\ Finish(Done({k}, got), t)
    <3>1. CASE Delete
      BY <2>1, <2>2, <3>1 DEF Delete
    <3>2. CASE FetchBlob
      BY <2>1, <2>2, <3>2 DEF FetchBlob
    <3>3. QED
      BY <1>5, <3>1, <3>2
  <2>4. CASE \E what, t : Finish(Failed(what), t)
    BY <1>1, <1>2, <2>4
  <2>5. CASE ~Broken(where.frags, where.params) /\ i \in hit
    <3>1. PICK before : before = <<>>
      OBVIOUS
    <3>2. before \in Seq(TextsAsked) /\ Len(before) + 1 = 1
      BY <3>1
    <3>3. before \o where.params = where.params
      BY <2>1, <3>1
    <3>4. Points(i, before, where)
      BY <2>1, <2>2, <2>5, <3>2, <3>3 DEF Points
    <3>5. QED
      BY <3>2, <3>4
  <2>6. ASSUME \E t : Finish(Done(hit, {}), t)
        PROVE  i \in hit
    BY <1>1, <1>3, <2>6
  <2>7. ASSUME \E t, k, got : k \in hit /\ Finish(Done({k}, got), t)
        PROVE  i \in hit
    BY <1>1, <1>3, <2>7
  <2>8. QED
    BY <2>3, <2>4, <2>5, <2>6, <2>7
<1>6. QED
  BY <1>4, <1>5

\* For any table, types and texts: what is written or read had the key that was shown.
THEOREM EditsOnlyWhatWasNamed == Spec => OnlyNamedRow
<1>1. Init => schema \in Schema
  BY DEF Init
<1>2. schema \in Schema /\ [Next]_vars => (schema \in Schema)'
  BY DEF Next, Ask, LookUp, Update, Delete, Insert, FetchBlob, OtherWrites, Finish, vars
<1>3. schema \in Schema /\ [Next]_vars =>
        [Executes /\ request.op # "insert" =>
           \A i \in result'.hit, c \in schema.keys :
             Exact(schema.types[c], seen[request.row][c]) => table[i][c] = seen[request.row][c]]_vars
  <2> SUFFICES ASSUME schema \in Schema, Next, Executes, request.op # "insert",
                      NEW i \in result'.hit, NEW c \in schema.keys,
                      Exact(schema.types[c], seen[request.row][c])
               PROVE  table[i][c] = seen[request.row][c]
    OBVIOUS
  <2>1. Update \/ Delete \/ FetchBlob
    BY DEF Next, Executes, Ask, LookUp, Insert, OtherWrites
  <2>2. PICK before \in Seq(TextsAsked) : \E where : Points(i, before, where)
    BY <2>1, HitsNamed
  <2>3. PICK where : Points(i, before, where)
    BY <2>2
  <2>4. \A d \in schema.keys : ShownCell(request.row, d)[2] \in TextsAsked
    BY DEF TextsAsked
  <2>5. QED
    BY <2>3, <2>4, NamedAsShown
<1>4. QED
  BY <1>1, <1>2, <1>3, PTL DEF Spec, OnlyNamedRow

-----------------------------------------------------------------------------
(* A row that is as it was shown is found. *)

\* Of each row shown, the cells are of their types; a key that is one stays one.
Shown ==
  /\ schema \in Schema
  /\ \A i \in Rowset(seen) : \A c \in Columns : seen[i][c] \in Stored(schema.types[c])
  /\ stage # "idle" => request.row \in Rowset(seen)
  /\ KeysHold(table)

\* It holds at first.
LEMMA ShownInit == Init => Shown
<1> SUFFICES ASSUME Init
             PROVE  Shown
  OBVIOUS
<1>1. schema \in Schema /\ KeysHold(table) /\ stage = "idle" /\ seen = table
  BY DEF Init
<1>2. ASSUME NEW i \in Rowset(seen), NEW c \in Columns
      PROVE  seen[i][c] \in Stored(schema.types[c])
  <2>1. PICK gone \in Id :
          \E rows \in [Id \ {gone} -> {r \in [Columns -> UNION {Stored(schema.types[d]) : d \in Columns}] :
                                         \A d \in Columns : r[d] \in Stored(schema.types[d])}] :
            table = [k \in Id |-> IF k = gone THEN Gone ELSE rows[k]]
    BY DEF Init
  <2>2. PICK rows \in [Id \ {gone} -> {r \in [Columns -> UNION {Stored(schema.types[d]) : d \in Columns}] :
                                         \A d \in Columns : r[d] \in Stored(schema.types[d])}] :
          table = [k \in Id |-> IF k = gone THEN Gone ELSE rows[k]]
    BY <2>1
  <2>3. i \in Id \ {gone} /\ seen[i] = rows[i]
    BY <1>1, <2>2 DEF Rowset
  <2>4. QED
    BY <2>2, <2>3
<1>3. QED
  BY <1>1, <1>2 DEF Shown

\* Every step keeps it.
LEMMA ShownKept ==
  ASSUME Shown, [Next]_vars
  PROVE  Shown'
<1>1. schema' = schema /\ seen' = seen
  BY DEF Next, Ask, LookUp, Update, Delete, Insert, FetchBlob, OtherWrites, Finish, vars
<1>2. stage' # "idle" => request'.row \in Rowset(seen)
  <2>1. CASE Ask
    <3>1. PICK i \in Rowset(seen) : request'.row = i
      BY <2>1 DEF Ask
    <3>2. QED
      BY <3>1
  <2>2. CASE request' = request /\ (stage' = stage \/ stage # "idle")
    BY <2>2 DEF Shown
  <2>3. QED
    BY <2>1, <2>2 DEF Next, LookUp, Update, Delete, Insert, FetchBlob, OtherWrites, Finish, vars
<1>3. KeysHold(table)'
  <2>1. KeysHold(table') => KeysHold(table)'
    BY <1>1 DEF KeysHold, Rowset
  <2>2. table' = table \/ KeysHold(table')
    <3>1. ASSUME NEW r, NEW t, Finish(r, t)
          PROVE  table' = table \/ KeysHold(table')
      BY <3>1 DEF Finish
    <3>2. CASE Update \/ Delete \/ Insert \/ FetchBlob
      BY <3>1, <3>2 DEF Update, Delete, Insert, FetchBlob
    <3>3. CASE Ask \/ LookUp \/ OtherWrites \/ UNCHANGED vars
      BY <3>3 DEF Ask, LookUp, OtherWrites, vars
    <3>4. QED
      BY <3>2, <3>3 DEF Next
  <2>3. table' = table => KeysHold(table')
    BY DEF Shown
  <2>4. QED
    BY <2>1, <2>2, <2>3
<1>4. (schema \in Schema)' /\ (stage # "idle" => request.row \in Rowset(seen))'
  BY <1>1, <1>2 DEF Shown
<1>5. (\A i \in Rowset(seen) : \A c \in Columns : seen[i][c] \in Stored(schema.types[c]))'
  BY <1>1 DEF Shown, Columns
<1>6. QED
  BY <1>3, <1>4, <1>5 DEF Shown

\* A type is of one kind.
LEMMA KindsApart ==
  ASSUME NEW type \in KeyTypes
  PROVE  /\ type \in IntegerTypes => type \in NumericTypes /\ type \notin FloatTypes \cup DecimalTypes
         /\ type \in FloatTypes => type \in NumericTypes /\ type \notin DecimalTypes
         /\ type \in NumericTypes => type \notin TemporalTypes \cup {"text", "uuid", "boolean", NoType}
         /\ type \in TemporalTypes => type \notin {"text", "uuid", "boolean", NoType}
         /\ type \in ColumnTypes
         /\ type \notin {"integer[]", "jsonb", "hstore", "mood", NoType}
  BY DEF KeyTypes, NumericTypes, IntegerTypes, FloatTypes, DecimalTypes, TemporalTypes, ColumnTypes, NoType

\* What a key's cell is shown as.
LEMMA ShownAs ==
  ASSUME NEW type \in KeyTypes, NEW v, v # NULL, v \notin NoText, NEW json, json = Show(type, v)
  PROVE  /\ type \in FloatTypes => json = <<"number", v>>
         /\ type \in IntegerTypes => json = IF v \in Unsafe THEN <<"string", ShownText(v)>> ELSE <<"number", v>>
         /\ type = "boolean" => json = <<"bool", v>>
         /\ type \in DecimalTypes \cup TemporalTypes \cup {"text", "uuid"} => json = <<"string", ShownText(v)>>
  BY KindsApart DEF Show, KeyTypes, NumericTypes, IntegerTypes, FloatTypes, DecimalTypes, TemporalTypes

\* It is bound to a value the column compares with, a real at its own precision.
LEMMA ComparesWell ==
  ASSUME NEW type \in KeyTypes, NEW v \in Stored(type), v # NULL, v \notin NoText, NEW i,
         NEW b, b = PkValue(Show(type, v), i, type)
  PROVE  b # Refused /\ Comparable(type, b.as) /\ (type = "real" => b.as = "real")
<1>1. PICK json : json = Show(type, v)
  OBVIOUS
<1>2. type # "text" => Shape(type) \subseteq Looks[json[2]]
  BY <1>1, KindsApart, LooksAssumption
<1>3. ASSUME NEW as, b = Placed(i, as, json[2])
      PROVE  b # Refused /\ b.as = as
  <2>1. Placed(i, as, json[2]) # Refused
    BY DEF Placed, Refused, Keyword, Inlined
  <2>2. Placed(i, as, json[2]).as = as
    BY DEF Placed
  <2>3. QED
    BY <1>3, <2>1, <2>2
<1>4. ASSUME NEW as \in NumericTypes, type \in NumericTypes,
             b = IF type = "real" /\ Placed(i, as, json[2]) # Refused
                   THEN [Placed(i, as, json[2]) EXCEPT !.as = "real"] ELSE Placed(i, as, json[2])
      PROVE  b # Refused /\ Comparable(type, b.as) /\ (type = "real" => b.as = "real")
  <2>1. Placed(i, as, json[2]) # Refused
    BY DEF Placed, Refused, Keyword, Inlined
  <2>2. [Placed(i, as, json[2]) EXCEPT !.as = "real"] = Placed(i, "real", json[2])
    BY DEF Placed
  <2>3. CASE type = "real"
    <3>1. b = Placed(i, "real", json[2])
      BY <1>4, <2>1, <2>2, <2>3
    <3>2. b # Refused /\ b.as = "real"
      BY <1>3, <3>1
    <3>3. QED
      BY <2>3, <3>2 DEF Comparable
  <2>4. CASE type # "real"
    <3>1. b = Placed(i, as, json[2])
      BY <1>4, <2>4
    <3>2. b # Refused /\ b.as = as
      BY <1>3, <3>1
    <3>3. QED
      BY <1>4, <2>4, <3>2 DEF Comparable
  <2>5. QED
    BY <2>3, <2>4
<1>5. CASE json[1] = "number"
  <2>1. type \in NumericTypes
    BY <1>1, <1>5, ShownAs, KindsApart DEF KeyTypes, NumericTypes
  <2>2. PICK as : as \in {"bigint", "float8"} /\ BindNumber(json[2], i) = Placed(i, as, json[2])
    BY DEF BindNumber
  <2>3. as \in NumericTypes
    BY <2>2 DEF NumericTypes, IntegerTypes, FloatTypes
  <2>4. QED
    BY <1>1, <1>4, <1>5, <2>1, <2>2, <2>3 DEF PkValue
<1>6. CASE json[1] = "string" /\ type \in NumericTypes
  <2>1. type \in IntegerTypes \cup DecimalTypes
    BY <1>1, <1>6, ShownAs DEF NumericTypes
  <2>2. PkString(json[2], i, type) = NumericString(json[2], type, i)
    BY <1>6, KindsApart DEF PkString
  <2>3. PICK as : as \in {"bigint", "numeric"} /\ NumericString(json[2], type, i) = Placed(i, as, json[2])
    BY <1>2, <2>1, KindsApart DEF NumericString, Has, Shape, IntegerTypes, DecimalTypes
  <2>4. as \in NumericTypes
    BY <2>3 DEF NumericTypes, IntegerTypes, DecimalTypes
  <2>5. QED
    BY <1>1, <1>4, <1>6, <2>2, <2>3, <2>4 DEF PkValue
<1>7. CASE json[1] = "string" /\ type \in TemporalTypes \cup {"text", "uuid"}
  <2>1. type # "real" /\ type \notin NumericTypes
    BY <1>7, KindsApart DEF NumericTypes, FloatTypes
  <2>2. PkString(json[2], i, type) = Placed(i, type, json[2])
    <3>1. CASE type \in TemporalTypes
      BY <2>1, <3>1, KindsApart DEF PkString
    <3>2. CASE type = "text"
      BY <2>1, <3>2, KindsApart DEF PkString, NumericTypes, TemporalTypes, IntegerTypes
    <3>3. CASE type = "uuid"
      BY <1>2, <3>3 DEF PkString, Has, Shape, IntegerTypes, DecimalTypes
    <3>4. QED
      BY <1>7, <3>1, <3>2, <3>3
  <2>3. b = Placed(i, type, json[2])
    BY <1>1, <1>7, <2>1, <2>2 DEF PkValue
  <2>4. QED
    BY <1>3, <2>1, <2>3 DEF Comparable
<1>8. CASE json[1] = "bool" /\ type = "boolean"
  <2>1. b = Placed(i, "boolean", json[2])
    BY <1>1, <1>8 DEF PkValue
  <2>2. QED
    BY <1>3, <1>8, <2>1 DEF Comparable
<1>9. \/ json[1] = "number"
      \/ json[1] = "string" /\ type \in NumericTypes
      \/ json[1] = "string" /\ type \in TemporalTypes \cup {"text", "uuid"}
      \/ json[1] = "bool" /\ type = "boolean"
  BY <1>1, ShownAs DEF KeyTypes, NumericTypes
<1>10. QED
  BY <1>5, <1>6, <1>7, <1>8, <1>9

\* A column of the key of such a row has a fragment that is accepted and that it satisfies.
LEMMA CellFound ==
  ASSUME NEW type \in KeyTypes, NEW v \in Stored(type), Exact(type, v), NEW i,
         NEW frag, frag = PkValue(Show(type, v), i, type), NEW params, TextOf(frag, params) = {frag.text}
  PROVE  frag # Refused /\ Comparable(type, frag.as) /\ Matches(type, v, frag, params)
<1>1. PICK json : json = Show(type, v)
  OBVIOUS
<1>2. CASE v = NULL
  <2>1. json = Null
    BY <1>1, <1>2 DEF Show
  <2>2. frag = Keyword("isnull")
    BY <1>1, <2>1 DEF PkValue, Null
  <2>3. frag.as = "isnull" /\ frag # Refused
    BY <2>2 DEF Keyword, Inlined, Refused
  <2>4. QED
    BY <1>2, <2>3 DEF Matches, Comparable
<1>3. CASE v # NULL
  <2>1. v \notin NoText /\ v \in Reading(type, json[2])
    BY <1>1, <1>3 DEF Exact, Show
  <2>2. frag # Refused /\ Comparable(type, frag.as) /\ (type = "real" => frag.as = "real")
    BY <1>3, <2>1, ComparesWell
  <2>3. json[1] # "null"
    BY <1>1, <1>3, <2>1, ShownAs DEF KeyTypes, NumericTypes
  <2>4. frag.text = json[2] /\ frag.as # "isnull"
    BY <1>1, <2>2, <2>3, PkShaped DEF PkShape
  <2>5. QED
    BY <2>1, <2>2, <2>4 DEF Matches
<1>4. QED
  BY <1>2, <1>3

\* What StillFound asks of the request.
Findable ==
  /\ AsSeen(request.row)
  /\ types = schema.types
  /\ \A c \in schema.keys : schema.types[c] \in KeyTypes /\ Exact(schema.types[c], seen[request.row][c])

\* The predicate is accepted and names the row.
LEMMA RowNamed ==
  ASSUME Shown, stage # "idle", Findable, NEW S, \A c \in schema.keys : ShownCell(request.row, c)[2] \in S,
         NEW before \in Seq(S), NEW where, where = PkPredicate(PkMap, types, Len(before) + 1),
         NEW params, params = before \o where.params
  PROVE  ~Broken(where.frags, params) /\ request.row \in Named(where.frags, params)
<1>1. schema.keys # {} /\ schema.keys \subseteq Columns
  BY SchemaAssumption DEF Shown, Columns
<1>2. request.row \in Rowset(table) /\ table[request.row] = seen[request.row]
  BY DEF Shown, Findable, AsSeen, Rowset
<1>3. ASSUME NEW c \in schema.keys
      PROVE  /\ where.frags[c] # Refused /\ Comparable(schema.types[c], where.frags[c].as)
             /\ TextOf(where.frags[c], params) # {}
             /\ Matches(schema.types[c], table[request.row][c], where.frags[c], params)
  <2>1. Names(where, c, ShownCell(request.row, c), types[c], before)
    BY KeyRight DEF Shown
  <2>2. PICK k \in Nat \ {0} : where.frags[c] = PkValue(ShownCell(request.row, c), k, types[c])
    BY <2>1 DEF Names
  <2>3. PICK type, v, frag : type = schema.types[c] /\ v = seen[request.row][c] /\ frag = where.frags[c]
    OBVIOUS
  <2>4. type \in KeyTypes /\ v \in Stored(type) /\ Exact(type, v) /\ types[c] = type
    BY <1>1, <2>3 DEF Shown, Findable
  <2>5. frag = PkValue(Show(type, v), k, type) /\ TextOf(frag, params) = {frag.text}
    BY <2>1, <2>2, <2>3, <2>4 DEF ShownCell, Names
  <2>6. frag # Refused /\ Comparable(type, frag.as) /\ Matches(type, v, frag, params)
    BY <2>4, <2>5, CellFound
  <2>7. QED
    BY <1>2, <2>3, <2>5, <2>6
<1>4. QED
  BY <1>1, <1>2, <1>3 DEF Broken, Named

\* For any table: a row that is as it was shown is deleted, and written by an update that is accepted.
THEOREM UntouchedRowsAreFound == Spec => StillFound
<1>1. Shown /\ [Next]_vars =>
        [Executes /\ AsSeen(request.row) /\ types = schema.types
           /\ (\A c \in schema.keys : /\ schema.types[c] \in KeyTypes
                                      /\ Exact(schema.types[c], seen[request.row][c])) =>
           /\ request.op = "delete" => request.row \in result'.hit
           /\ request.op = "update" /\ result'.error = "none" => request.row \in result'.hit]_vars
  <2> SUFFICES ASSUME Shown, Next, Executes, Findable
               PROVE  /\ request.op = "delete" => request.row \in result'.hit
                      /\ request.op = "update" /\ result'.error = "none" => request.row \in result'.hit
    BY DEF Findable
  <2>1. stage # "idle" /\ \A c \in schema.keys : ShownCell(request.row, c)[2] \in TextsAsked
    BY DEF Executes, TextsAsked
  <2>2. ASSUME request.op = "delete"
        PROVE  request.row \in result'.hit
    <3>1. Delete
      BY <2>2 DEF Next, Executes, Ask, LookUp, Update, Insert, FetchBlob, OtherWrites
    <3>2. PICK before, where : before = <<>> /\ where = PkPredicate(PkMap, types, 1)
      OBVIOUS
    <3>3. before \in Seq(TextsAsked) /\ Len(before) + 1 = 1
      BY <3>2
    <3>4. PICK params : params = before \o where.params
      OBVIOUS
    <3>5. ~Broken(where.frags, params) /\ request.row \in Named(where.frags, params)
      BY <2>1, <3>2, <3>3, <3>4, RowNamed
    <3>6. params = where.params
      BY <3>2, <3>4
    <3>7. PICK hit, t : hit = Named(where.frags, params)
                        /\ t = [i \in Id |-> IF i \in hit THEN Gone ELSE table[i]]
      OBVIOUS
    <3>8. Finish(Done(hit, {}), t)
      BY <3>1, <3>2, <3>5, <3>6, <3>7 DEF Delete
    <3>9. KeysHold(t)
      <4>1. Rowset(t) \subseteq Rowset(table) /\ \A i \in Rowset(t) : t[i] = table[i]
        BY <3>7 DEF Rowset
      <4>2. QED
        BY <4>1 DEF Shown, KeysHold
    <3>10. QED
      BY <3>5, <3>7, <3>8, <3>9 DEF Finish, Done
  <2>3. ASSUME request.op = "update", result'.error = "none"
        PROVE  request.row \in result'.hit
    <3>1. Update
      BY <2>3 DEF Next, Executes, Ask, LookUp, Delete, Insert, FetchBlob, OtherWrites
    <3>2. PICK b : b = BindValue(request.json, 1, Options(request.col, TRUE))
      OBVIOUS
    <3>3. PICK set : set = Add(NoFragments(1), request.col, b)
      OBVIOUS
    <3>4. set.params \in Seq(TextsAsked) /\ set.next = Len(set.params) + 1
      BY <3>2, <3>3, SetAsked DEF Sets
    <3>5. PICK where : where = PkPredicate(PkMap, types, set.next)
      OBVIOUS
    <3>6. PICK params : params = set.params \o where.params
      OBVIOUS
    <3>7. ~Broken(where.frags, params) /\ request.row \in Named(where.frags, params)
      BY <2>1, <3>4, <3>5, <3>6, RowNamed
    <3>8. PICK hit : hit = Named(where.frags, params)
      OBVIOUS
    <3>9. \/ Finish(Failed("value"), table)
          \/ \E t : Finish(Done(hit, {}), t)
      BY <3>1, <3>2, <3>3, <3>5, <3>6, <3>7, <3>8 DEF Update
    <3>10. ASSUME NEW r, NEW t, Finish(r, t)
           PROVE  result' = r
      BY <2>3, <3>10 DEF Finish, Failed
    <3>11. CASE Finish(Failed("value"), table)
      BY <2>3, <3>10, <3>11 DEF Failed
    <3>12. CASE \E t : Finish(Done(hit, {}), t)
      BY <3>7, <3>8, <3>10, <3>12 DEF Done
    <3>13. QED
      BY <3>9, <3>11, <3>12
  <2>4. QED
    BY <2>2, <2>3
<1>2. QED
  BY <1>1, ShownInit, ShownKept, PTL DEF Spec, StillFound

-----------------------------------------------------------------------------
(* A copy is what was copied. *)

\* An array that is made a literal, in a column whose own way of binding does not come first.
IsLiteral(json, o) ==
  \/ json[1] = "string" /\ ~o.enum
  \/ json[1] = "array" /\ o.type # "jsonb"
EmptyArray(json, o) == IsLiteral(json, o) /\ Has(json[2], "array") /\ Has(json[2], "empty")
IsCall(json, o) == json[1] = "string" /\ ~o.enum /\ Has(json[2], "function")

\* What a cell's JSON is bound to.
BindShape(b, json, o) ==
  \/ b = Refused
  \/ b = Keyword("NULL") /\ json[1] = "null"
  \/ b = Keyword("DEFAULT") /\ json[1] = "string" /\ Has(json[2], "sentinel")
  \/ b = Inlined("literal", EmptyLiteral) /\ EmptyArray(json, o)
  \/ b.text = json[2] /\ b.as \notin {"NULL", "DEFAULT"} /\ (b.as = "function" => IsCall(json, o))

\* It is refused, is a keyword or an empty array, or sends the text that was shown.
LEMMA BindShaped ==
  ASSUME NEW json, NEW o, NEW i
  PROVE  BindShape(BindValue(json, i, o), json, o)
<1> DEFINE Good(b) == BindShape(b, json, o)
<1>1. ASSUME NEW as, as \notin {"NULL", "DEFAULT"}, as = "function" => IsCall(json, o)
      PROVE  Good(Placed(i, as, json[2])) /\ Good(Inlined(as, json[2]))
  BY <1>1 DEF BindShape, Placed, Inlined
<1>2. Good(Refused)
  BY DEF BindShape
<1>3. json[1] = "null" => Good(Keyword("NULL"))
  BY DEF BindShape
<1>4. json[1] = "string" /\ Has(json[2], "sentinel") => Good(Keyword("DEFAULT"))
  BY DEF BindShape
<1>5. EmptyArray(json, o) => Good(Inlined("literal", EmptyLiteral))
  BY DEF BindShape
<1> HIDE DEF Good
<1>6. \A type : Good(NumericString(json[2], type, i))
  BY <1>1, <1>2 DEF NumericString
<1>7. \A type \in VectorTypes : Good(VectorString(json[2], type))
  BY <1>1, <1>2 DEF VectorString, VectorTypes
<1>8. IsLiteral(json, o) => Good(ArrayLiteral(json[2]))
  BY <1>1, <1>2, <1>5 DEF ArrayLiteral, EmptyArray
<1>9. Good(BindNumber(json[2], i))
  BY <1>1 DEF BindNumber
<1>10. \A type \in TemporalTypes : Good(Placed(i, type, json[2]))
  BY <1>1 DEF TemporalTypes
<1>11. json[1] = "string" /\ ~o.enum /\ Has(json[2], "function") => Good(Inlined("function", json[2]))
  BY <1>1 DEF IsCall
<1>12. \A as \in {"bytea", "enum", "boolean", "geometry", "uuid", "text", "jsonb", "hstore"} :
         Good(Placed(i, as, json[2]))
  BY <1>1
<1>13. json[1] = "string" => Good(BindString(json[2], i, o))
  BY <1>2, <1>4, <1>6, <1>7, <1>8, <1>10, <1>11, <1>12 DEF BindString, IsLiteral
<1>14. Good(BindHstore(json, i, o.oid))
  BY <1>2, <1>3, <1>12 DEF BindHstore
<1>15. Good(BindValue(json, i, o))
  BY <1>2, <1>3, <1>8, <1>9, <1>12, <1>13, <1>14 DEF BindValue, IsLiteral
<1>16. QED
  BY <1>15 DEF Good

\* What is shown of a value by its type.
LEMMA CellShownAs ==
  ASSUME NEW type \in ColumnTypes, NEW v, v # NULL, Show(type, v) # Null, NEW json, json = Show(type, v)
  PROVE  /\ type \in FloatTypes => json = <<"number", v>>
         /\ type \in IntegerTypes => json = IF v \in Unsafe THEN <<"string", ShownText(v)>> ELSE <<"number", v>>
         /\ type = "boolean" => json = <<"bool", v>>
         /\ type = "hstore" => json = <<"object", v>>
         /\ type = "integer[]" => json = <<"array", ShownText(v)>>
         /\ type = "jsonb" => json = <<JsonSort(v), ShownText(v)>> /\ json[1] # "null"
         /\ type \in DecimalTypes \cup TemporalTypes \cup {"text", "uuid", "mood", "bytea"} =>
              json = <<"string", ShownText(v)>>
  BY DEF Show, ColumnTypes, NumericTypes, IntegerTypes, FloatTypes, DecimalTypes, TemporalTypes

\* How a handler asks for a value of a column of the type.
AsksFor(o, type) == o.type \in {type, NoType} /\ o.enum \in BOOLEAN /\ (o.enum => type = "mood")
Known(o, type) == o.type = type /\ o.oid = TRUE /\ (type = "mood" => o.enum)

\* A text that is not taken for something else is bound as text.
LEMMA PlainText ==
  ASSUME NEW v, v # NULL, Show("text", v) # Null, ~Disguised("text", v),
         NEW o, AsksFor(o, "text"), NEW i, NEW b, b = BindValue(Show("text", v), i, o)
  PROVE  b.as = "text" /\ b.text = Show("text", v)[2]
<1>1. PICK json : json = Show("text", v)
  OBVIOUS
<1>2. json = <<"string", ShownText(v)>>
  BY <1>1, CellShownAs DEF ColumnTypes
<1>3. \A look \in {"sentinel", "blob", "function", "wkt", "uuid", "array"} : ~Has(json[2], look)
  BY <1>1 DEF Disguised, Has
<1>4. o.type \in {"text", NoType} /\ o.enum = FALSE
  BY DEF AsksFor
<1>5. b = BindString(json[2], i, o)
  BY <1>1, <1>2, <1>4 DEF BindValue, NoType
<1>6. BindString(json[2], i, o) = Placed(i, "text", json[2])
  BY <1>3, <1>4 DEF BindString, NoType, VectorTypes, NumericTypes, IntegerTypes, DecimalTypes,
     FloatTypes, TemporalTypes
<1>7. QED
  BY <1>1, <1>5, <1>6 DEF Placed

\* A value that is not text is not taken for a default, a call or an array.
LEMMA NotTaken ==
  ASSUME NEW type \in ColumnTypes, NEW v \in Stored(type), v # NULL, Show(type, v) # Null, ~Disguised(type, v)
  PROVE  LET json == Show(type, v)
         IN  /\ ~(json[1] = "string" /\ Has(json[2], "sentinel"))
             /\ type # "bytea" => ~(json[1] = "string" /\ Has(json[2], "blob"))
             /\ type # "mood" => ~(json[1] = "string" /\ Has(json[2], "function"))
             /\ type \notin {"mood", "jsonb", "integer[]"} => ~Has(json[2], "array")
<1>1. PICK json : json = Show(type, v)
  OBVIOUS
<1>2. CASE type \in {"text", "mood"}
  BY <1>1, <1>2 DEF Disguised, Has
<1>3. CASE type \notin {"text", "mood", "jsonb"}
  <2>1. Looks[json[2]] \cap {"sentinel", "blob", "function", "wkt", "array"} \subseteq Shape(type)
    <3>1. v \notin NoText
      BY <1>1, <1>3 DEF Show
    <3>2. QED
      BY <1>1, <1>3, <3>1, LooksAssumption
  <2>2. /\ Shape(type) \cap {"sentinel", "function"} = {}
        /\ type # "bytea" => "blob" \notin Shape(type)
        /\ type # "integer[]" => "array" \notin Shape(type)
    BY DEF Shape
  <2>3. QED
    BY <1>1, <1>3, <2>1, <2>2 DEF Has
<1>4. CASE type = "jsonb"
  BY <1>1, <1>4 DEF Disguised
<1>5. QED
  BY <1>2, <1>3, <1>4

\* A NULL is stored as one.
LEMMA NullAssigned ==
  ASSUME NEW type, NEW b, b = Keyword("NULL"), NEW params
  PROVE  Assigned(type, b, params) = {NULL}
<1>1. b.as = "NULL"
  BY DEF Keyword, Inlined
<1>2. QED
  BY <1>1 DEF Assigned

\* A value is guessed only when something is not loaded.
Sure(o, type, v) == Known(o, type) \/ ~Guessed(type, v)

\* What is not text is never bound to a call.
LEMMA NoCall ==
  ASSUME NEW type \in ColumnTypes, type # "text", NEW v \in Stored(type), v # NULL, Show(type, v) # Null,
         ~Disguised(type, v), NEW o, Sure(o, type, v)
  PROVE  ~IsCall(Show(type, v), o)
<1>1. CASE type = "mood"
  <2>1. o.enum \/ ~Has(Show(type, v)[2], "function")
    BY <1>1 DEF Sure, Known, Guessed, Has
  <2>2. QED
    BY <2>1 DEF IsCall
<1>2. CASE type # "mood"
  BY <1>2, NotTaken DEF IsCall
<1>3. QED
  BY <1>1, <1>2

\* An empty array is bound to a literal in a column of arrays only, where it is what was shown.
LEMMA EmptyIsShown ==
  ASSUME NEW type \in ColumnTypes, type # "text", NEW v \in Stored(type), v # NULL, Show(type, v) # Null,
         ~Disguised(type, v), NEW o, Sure(o, type, v), EmptyArray(Show(type, v), o)
  PROVE  Show(type, v)[2] = EmptyLiteral
<1>1. PICK json : json = Show(type, v)
  OBVIOUS
<1>2. Has(json[2], "array") /\ Has(json[2], "empty") /\ IsLiteral(json, o)
  BY <1>1 DEF EmptyArray
<1>3. CASE type = "mood"
  <2>1. json[1] = "string"
    BY <1>1, <1>3, CellShownAs
  <2>2. ~o.enum
    BY <1>2, <2>1 DEF IsLiteral
  <2>3. QED
    BY <1>1, <1>2, <1>3, <2>2 DEF Sure, Known, Guessed, Has
<1>4. CASE type = "jsonb"
  <2>1. json[1] # "string"
    BY <1>1, <1>4 DEF Disguised
  <2>2. json[1] = "array" /\ o.type # "jsonb"
    BY <1>2, <2>1 DEF IsLiteral
  <2>3. QED
    BY <1>1, <1>2, <1>4, <2>2 DEF Sure, Known, Guessed, Has
<1>5. CASE type = "integer[]"
  <2>1. json[2] = ShownText(v)
    BY <1>1, <1>5, CellShownAs
  <2>2. QED
    BY <1>1, <1>2, <1>5, <2>1, LooksAssumption
<1>6. CASE type \notin {"text", "mood", "jsonb", "integer[]"}
  BY <1>1, <1>2, <1>6, NotTaken
<1>7. QED
  BY <1>3, <1>4, <1>5, <1>6

\* What is bound to a value shown exactly is read as that value, or not at all.
LEMMA NoOtherValue ==
  ASSUME NEW type \in ColumnTypes, NEW v \in Stored(type), Exact(type, v), ~Disguised(type, v),
         NEW o, AsksFor(o, type), Sure(o, type, v), NEW i,
         NEW b, b = BindValue(Show(type, v), i, o), NEW params, TextOf(b, params) = {b.text}
  PROVE  Assigned(type, b, params) \subseteq {v}
<1>1. PICK json : json = Show(type, v)
  OBVIOUS
<1>2. BindShape(b, json, o)
  BY <1>1, BindShaped
<1>3. CASE v = NULL
  <2>1. json = Null
    BY <1>1, <1>3 DEF Show
  <2>2. b = Keyword("NULL")
    <3>1. CASE o.type = "hstore"
      BY <1>1, <2>1, <3>1 DEF BindValue, BindHstore, Null
    <3>2. CASE o.type # "hstore"
      BY <1>1, <2>1, <3>2 DEF BindValue, Null
    <3>3. QED
      BY <3>1, <3>2
  <2>3. QED
    BY <1>3, <2>2, NullAssigned
<1>4. CASE v # NULL
  <2>1. json # Null /\ Reading(type, json[2]) = {v}
    BY <1>1, <1>4 DEF Exact
  <2>2. json[1] # "null"
    BY <1>1, <2>1, ShownNull
  <2>3. ~(json[1] = "string" /\ Has(json[2], "sentinel"))
    BY <1>1, <1>4, <2>1, NotTaken
  <2>4. CASE type = "text"
    <3>1. b.as = "text" /\ b.text = json[2]
      BY <1>1, <1>4, <2>1, <2>4, PlainText
    <3>2. ReadAs(type, TextOf(b, params)) = {v}
      BY <2>1, <3>1 DEF ReadAs
    <3>3. QED
      BY <2>4, <3>1, <3>2 DEF Assigned
  <2>5. CASE type # "text" /\ b = Refused
    <3>1. b.as = "refused"
      BY <2>5 DEF Refused, Keyword, Inlined
    <3>2. "refused" \notin ColumnTypes /\ NumericTypes \subseteq ColumnTypes
      BY DEF ColumnTypes, NumericTypes, IntegerTypes, DecimalTypes, FloatTypes, TemporalTypes
    <3>3. Assigned(type, b, params) = {}
      BY <2>5, <3>1, <3>2 DEF Assigned, Accepts
    <3>4. QED
      BY <3>3
  <2>6. CASE type # "text" /\ b = Inlined("literal", EmptyLiteral) /\ EmptyArray(json, o)
    <3>1. b.as = "literal" /\ b.text = EmptyLiteral
      BY <2>6 DEF Inlined
    <3>2. b.text = json[2]
      BY <1>1, <1>4, <2>1, <2>6, <3>1, EmptyIsShown
    <3>3. ReadAs(type, TextOf(b, params)) = {v}
      BY <2>1, <3>2 DEF ReadAs
    <3>4. QED
      BY <3>1, <3>3 DEF Assigned, Accepts
  <2>7. CASE /\ type # "text" /\ b.text = json[2] /\ b.as \notin {"NULL", "DEFAULT"}
             /\ b.as = "function" => IsCall(json, o)
    <3>1. ReadAs(type, TextOf(b, params)) = {v}
      BY <2>1, <2>7 DEF ReadAs
    <3>2. b.as # "function"
      BY <1>1, <1>4, <2>1, <2>7, NoCall
    <3>3. QED
      BY <2>7, <3>1, <3>2 DEF Assigned
  <2>8. QED
    BY <1>2, <2>2, <2>3, <2>4, <2>5, <2>6, <2>7 DEF BindShape
<1>5. QED
  BY <1>3, <1>4

\* A number is of one kind.
LEMMA KindsOfNumbers ==
  ASSUME NEW type
  PROVE  /\ type \in IntegerTypes => type \notin DecimalTypes \cup FloatTypes
         /\ type \in DecimalTypes => type \notin IntegerTypes \cup FloatTypes
  BY DEF IntegerTypes, DecimalTypes, FloatTypes

\* With the types loaded, a value is bound to what its column accepts.
LEMMA BoundAccepted ==
  ASSUME NEW type \in ColumnTypes, NEW v \in Stored(type), v # NULL, Show(type, v) # Null, ~Disguised(type, v),
         NEW o, AsksFor(o, type), Known(o, type), NEW i, NEW b, b = BindValue(Show(type, v), i, o)
  PROVE  b.text = Show(type, v)[2] /\ b.as \notin {"NULL", "DEFAULT"} /\ Accepts(type, b.as)
<1>1. PICK json : json = Show(type, v)
  OBVIOUS
<1>2. type \notin {"text", "mood", "jsonb"} =>
        /\ Shape(type) \subseteq Looks[json[2]]
        /\ Looks[json[2]] \cap {"sentinel", "blob", "function", "wkt", "array"} \subseteq Shape(type)
  <2>1. v \notin NoText
    BY DEF Show
  <2>2. QED
    BY <1>1, <2>1, LooksAssumption
<1>3. o.type = type /\ o.oid = TRUE /\ o.enum = (type = "mood")
  BY DEF AsksFor, Known
<1>4. json[1] = "string" => ~Has(json[2], "sentinel") /\ (type # "bytea" => ~Has(json[2], "blob"))
  BY <1>1, NotTaken
<1> DEFINE Good == b.text = json[2] /\ b.as \notin {"NULL", "DEFAULT"} /\ Accepts(type, b.as)
<1>5. ASSUME NEW as, as \notin {"NULL", "DEFAULT"}, Accepts(type, as),
             b = Placed(i, as, json[2]) \/ b = Inlined(as, json[2])
      PROVE  Good
  <2>1. /\ Placed(i, as, json[2]).as = as /\ Placed(i, as, json[2]).text = json[2]
        /\ Inlined(as, json[2]).as = as /\ Inlined(as, json[2]).text = json[2]
    BY DEF Placed, Inlined
  <2>2. b.as = as /\ b.text = json[2]
    BY <1>5, <2>1
  <2>3. QED
    BY <1>5, <2>2
<1>6. \A as \in NumericTypes : type \in NumericTypes => as \notin {"NULL", "DEFAULT"} /\ Accepts(type, as)
  BY DEF Accepts, NumericTypes, IntegerTypes, DecimalTypes, FloatTypes
<1>7. type \notin {"NULL", "DEFAULT"} /\ Accepts(type, type)
  BY DEF Accepts, ColumnTypes, NumericTypes, IntegerTypes, DecimalTypes, FloatTypes, TemporalTypes
<1>8. \/ type \in NumericTypes /\ json[1] = "number"
      \/ type \in IntegerTypes \cup DecimalTypes /\ json[1] = "string"
      \/ type \in TemporalTypes \cup {"text", "uuid", "mood", "bytea"} /\ json[1] = "string"
      \/ type = "boolean" /\ json[1] = "bool"
      \/ type = "integer[]" /\ json[1] = "array"
      \/ type = "hstore" /\ json[1] = "object"
      \/ type = "jsonb" /\ json[1] \notin {"string", "null"}
  <2>1. type = "jsonb" => json[1] \notin {"string", "null"}
    BY <1>1, CellShownAs DEF Disguised
  <2>2. QED
    BY <1>1, <2>1, CellShownAs DEF ColumnTypes, NumericTypes
<1>9. /\ type \in NumericTypes =>
           type \notin TemporalTypes \cup VectorTypes \cup {"boolean", "mood", "bytea", "hstore", "jsonb"}
      /\ type \in TemporalTypes =>
           type \notin NumericTypes \cup VectorTypes \cup {"boolean", "mood", "bytea", "hstore", "jsonb"}
      /\ type \notin VectorTypes
  BY DEF ColumnTypes, NumericTypes, IntegerTypes, DecimalTypes, FloatTypes, TemporalTypes, VectorTypes
<1>10. CASE type \in NumericTypes /\ json[1] = "number"
  <2>1. b = BindNumber(json[2], i)
    BY <1>1, <1>3, <1>9, <1>10 DEF BindValue
  <2>2. PICK as : as \in {"bigint", "float8"} /\ b = Placed(i, as, json[2])
    BY <2>1 DEF BindNumber
  <2>3. as \in NumericTypes
    BY <2>2 DEF NumericTypes, IntegerTypes, FloatTypes
  <2>4. QED
    BY <1>1, <1>5, <1>6, <1>10, <2>2, <2>3
<1>11. CASE json[1] = "string"
  <2>1. type \notin {"hstore", "jsonb"}
    BY <1>8, <1>9, <1>11 DEF NumericTypes
  <2>2. b = BindString(json[2], i, o)
    BY <1>1, <1>3, <1>11, <2>1 DEF BindValue
  <2>3. CASE type \in IntegerTypes \cup DecimalTypes
    <3>1. b = NumericString(json[2], type, i)
      BY <1>3, <1>4, <1>9, <1>11, <2>2, <2>3 DEF BindString, NumericTypes
    <3>2. PICK as : as \in {"bigint", "numeric"} /\ b = Placed(i, as, json[2])
      <4>1. CASE type \in IntegerTypes
        <5>1. Has(json[2], "integer")
          <6>1. type \notin {"text", "mood"} /\ Shape(type) = {"integer"}
            BY <4>1 DEF Shape, IntegerTypes, DecimalTypes
          <6>2. "integer" \in Looks[json[2]]
            BY <1>2, <4>1, <6>1 DEF IntegerTypes
          <6>3. QED
            BY <6>2 DEF Has
        <5>2. b = Placed(i, "bigint", json[2])
          BY <3>1, <4>1, <5>1, KindsOfNumbers DEF NumericString
        <5>3. QED
          BY <5>2
      <4>2. CASE type \in DecimalTypes
        <5>1. Has(json[2], "decimal")
          BY <1>2, <4>2 DEF Shape, Has, IntegerTypes, DecimalTypes
        <5>2. b = Placed(i, "numeric", json[2])
          BY <3>1, <4>2, <5>1, KindsOfNumbers DEF NumericString
        <5>3. QED
          BY <5>2
      <4>3. QED
        BY <2>3, <4>1, <4>2
    <3>3. as \in NumericTypes /\ type \in NumericTypes
      BY <2>3, <3>2 DEF NumericTypes, IntegerTypes, DecimalTypes
    <3>4. QED
      BY <1>1, <1>5, <1>6, <3>2, <3>3
  <2>4. CASE type \in TemporalTypes
    <3>1. b = Placed(i, type, json[2])
      BY <1>3, <1>4, <1>9, <1>11, <2>2, <2>4 DEF BindString
    <3>2. QED
      BY <1>1, <1>5, <1>7, <3>1
  <2>5. CASE type = "text"
    <3>1. b.as = "text" /\ b.text = json[2]
      BY <1>1, <2>5, PlainText
    <3>2. QED
      BY <1>1, <1>7, <2>5, <3>1
  <2>6. CASE type = "uuid"
    <3>1. Has(json[2], "uuid") /\ ~Has(json[2], "function") /\ ~Has(json[2], "wkt")
      <4>1. Looks[json[2]] \cap {"sentinel", "blob", "function", "wkt", "array"} \subseteq Shape(type)
        BY <1>2, <2>6
      <4>2. Shape(type) = {"uuid"}
        BY <2>6 DEF Shape, IntegerTypes, DecimalTypes
      <4>3. QED
        BY <1>2, <2>6, <4>1, <4>2 DEF Has
    <3>2. b = Placed(i, "uuid", json[2])
      BY <1>3, <1>4, <1>9, <1>11, <2>2, <2>6, <3>1 DEF BindString, NumericTypes, IntegerTypes, DecimalTypes,
         FloatTypes, TemporalTypes
    <3>3. QED
      BY <1>1, <1>5, <1>7, <2>6, <3>2
  <2>7. CASE type = "mood"
    <3>1. b = Placed(i, "enum", json[2])
      BY <1>3, <1>4, <1>9, <1>11, <2>2, <2>7 DEF BindString
    <3>2. Accepts(type, "enum")
      BY <2>7 DEF Accepts
    <3>3. QED
      BY <1>1, <1>5, <3>1, <3>2
  <2>8. CASE type = "bytea"
    <3>1. Has(json[2], "blob")
      BY <1>2, <2>8 DEF Shape, Has, IntegerTypes, DecimalTypes
    <3>2. b = Placed(i, "bytea", json[2])
      BY <1>3, <1>4, <1>9, <1>11, <2>2, <2>8, <3>1 DEF BindString
    <3>3. QED
      BY <1>1, <1>5, <1>7, <2>8, <3>2
  <2>9. QED
    BY <1>8, <1>11, <2>3, <2>4, <2>5, <2>6, <2>7, <2>8
<1>12. CASE type = "boolean" /\ json[1] = "bool"
  <2>1. b = Placed(i, "boolean", json[2])
    BY <1>1, <1>3, <1>12 DEF BindValue
  <2>2. QED
    BY <1>1, <1>5, <1>7, <1>12, <2>1
<1>13. CASE type = "integer[]" /\ json[1] = "array"
  <2>1. Has(json[2], "array")
    BY <1>2, <1>13 DEF Shape, Has, IntegerTypes, DecimalTypes
  <2>2. b = ArrayLiteral(json[2])
    BY <1>1, <1>3, <1>13 DEF BindValue
  <2>3. Accepts(type, "literal") /\ Accepts(type, "numbers")
    BY <1>13 DEF Accepts
  <2>4. CASE Has(json[2], "empty")
    <3>1. json[2] = EmptyLiteral
      BY <1>1, <1>13, <2>4, CellShownAs, LooksAssumption
    <3>2. b = Inlined("literal", json[2])
      BY <2>1, <2>2, <2>4, <3>1 DEF ArrayLiteral
    <3>3. QED
      BY <1>1, <1>5, <2>3, <3>2
  <2>5. CASE ~Has(json[2], "empty")
    <3>1. Has(json[2], "numbers")
      BY <1>1, <1>13, <2>5 DEF Disguised, Has
    <3>2. b = Inlined("numbers", json[2])
      BY <2>1, <2>2, <2>5, <3>1 DEF ArrayLiteral
    <3>3. QED
      BY <1>1, <1>5, <2>3, <3>2
  <2>6. QED
    BY <2>4, <2>5
<1>14. CASE type = "jsonb" /\ json[1] \notin {"string", "null"}
  <2>1. b = Placed(i, "jsonb", json[2])
    BY <1>1, <1>3, <1>14 DEF BindValue
  <2>2. QED
    BY <1>1, <1>5, <1>7, <1>14, <2>1
<1>15. CASE type = "hstore" /\ json[1] = "object"
  <2>1. Has(json[2], "object")
    BY <1>2, <1>15 DEF Shape, Has, IntegerTypes, DecimalTypes
  <2>2. b = Placed(i, "hstore", json[2])
    BY <1>1, <1>3, <1>15, <2>1 DEF BindValue, BindHstore
  <2>3. QED
    BY <1>1, <1>5, <1>7, <1>15, <2>2
<1>16. QED
  BY <1>8, <1>10, <1>11, <1>12, <1>13, <1>14, <1>15

\* So it is stored.
LEMMA ValueStored ==
  ASSUME NEW type \in ColumnTypes, NEW v \in Stored(type), Exact(type, v), ~Disguised(type, v),
         NEW o, AsksFor(o, type), Known(o, type), NEW i,
         NEW b, b = BindValue(Show(type, v), i, o), NEW params, TextOf(b, params) = {b.text}
  PROVE  Assigned(type, b, params) # {}
<1>1. PICK json : json = Show(type, v)
  OBVIOUS
<1>2. CASE v = NULL
  <2>1. json = Null
    BY <1>1, <1>2 DEF Show
  <2>2. b = Keyword("NULL")
    <3>1. CASE o.type = "hstore"
      BY <1>1, <2>1, <3>1 DEF BindValue, BindHstore, Null
    <3>2. CASE o.type # "hstore"
      BY <1>1, <2>1, <3>2 DEF BindValue, Null
    <3>3. QED
      BY <3>1, <3>2
  <2>3. QED
    BY <2>2, NullAssigned
<1>3. CASE v # NULL
  <2>1. json # Null /\ Reading(type, json[2]) = {v}
    BY <1>1, <1>3 DEF Exact
  <2>2. b.text = json[2] /\ b.as \notin {"NULL", "DEFAULT"} /\ Accepts(type, b.as)
    BY <1>1, <1>3, <2>1, BoundAccepted
  <2>3. ReadAs(type, TextOf(b, params)) = {v}
    BY <2>1, <2>2 DEF ReadAs
  <2>4. CASE type = "text"
    <3>1. b.as = "text"
      BY <1>1, <1>3, <2>1, <2>4, PlainText
    <3>2. QED
      BY <2>2, <2>3, <2>4, <3>1 DEF Assigned
  <2>5. CASE type # "text"
    BY <2>2, <2>3, <2>5 DEF Assigned
  <2>6. QED
    BY <2>4, <2>5
<1>4. QED
  BY <1>2, <1>3

\* What the handlers have: the rows have the table's columns, an update has a cell that was
\* shown in its column or a text, and the types are loaded or not.
Ready ==
  /\ Shown
  /\ DOMAIN table = Id
  /\ \A i \in Rowset(table) : DOMAIN table[i] = Columns
  /\ enums \in BOOLEAN
  /\ types = schema.types \/ types = [c \in Columns |-> NoType]
  /\ request.op = "update" =>
       /\ request.col \in Columns
       /\ \A v \in request.shows : /\ v \in Stored(schema.types[request.col])
                                   /\ request.json = Show(schema.types[request.col], v)

\* It holds at first.
LEMMA ReadyInit == Init => Ready
<1> SUFFICES ASSUME Init
             PROVE  Ready
  OBVIOUS
<1>1. PICK gone \in Id :
        \E rows \in [Id \ {gone} -> {r \in [Columns -> UNION {Stored(schema.types[d]) : d \in Columns}] :
                                       \A d \in Columns : r[d] \in Stored(schema.types[d])}] :
          table = [k \in Id |-> IF k = gone THEN Gone ELSE rows[k]]
  BY DEF Init
<1>2. PICK rows \in [Id \ {gone} -> {r \in [Columns -> UNION {Stored(schema.types[d]) : d \in Columns}] :
                                       \A d \in Columns : r[d] \in Stored(schema.types[d])}] :
        table = [k \in Id |-> IF k = gone THEN Gone ELSE rows[k]]
  BY <1>1
<1>3. DOMAIN table = Id
  BY <1>2
<1>4. ASSUME NEW i \in Rowset(table)
      PROVE  DOMAIN table[i] = Columns
  <2>1. i \in Id \ {gone} /\ table[i] = rows[i]
    BY <1>2 DEF Rowset
  <2>2. rows[i] \in [Columns -> UNION {Stored(schema.types[d]) : d \in Columns}]
    BY <1>2, <2>1
  <2>3. QED
    BY <2>1, <2>2
<1>5. enums \in BOOLEAN /\ types = schema.types /\ request.op # "update"
  BY DEF Init
<1>6. QED
  BY <1>3, <1>4, <1>5, ShownInit DEF Ready

\* The parts of an update.
Changed(hit, c, v) == [i \in Id |-> IF i \in hit THEN [table[i] EXCEPT ![c] = v] ELSE table[i]]
UpdateParts(b, set, where, params) ==
  /\ Sets(b, set)
  /\ where = PkPredicate(PkMap, types, set.next)
  /\ params = set.params \o where.params
NewValues(set, params) == Assigned(schema.types[request.col], set.frags[request.col], params)

\* What an update does, in its parts.
LEMMA UpdateIs ==
  ASSUME Update
  PROVE  \E b, set, where, params :
           /\ UpdateParts(b, set, where, params)
           /\ \/ NewValues(set, params) = {} /\ Finish(Failed("value"), table)
              \/ Finish(Failed("key"), table)
              \/ \E v \in NewValues(set, params) :
                   Finish(Done(Named(where.frags, params), {}),
                         Changed(Named(where.frags, params), request.col, v))
<1>1. PICK b : b = BindValue(request.json, 1, Options(request.col, TRUE))
  OBVIOUS
<1>2. PICK set : set = Add(NoFragments(1), request.col, b)
  OBVIOUS
<1>3. PICK where : where = PkPredicate(PkMap, types, set.next)
  OBVIOUS
<1>4. PICK params : params = set.params \o where.params
  OBVIOUS
<1>5. PICK new : new = Assigned(schema.types[request.col], set.frags[request.col], params)
  OBVIOUS
<1>6. PICK hit : hit = Named(where.frags, params)
  OBVIOUS
<1>7. \/ new = {} /\ Finish(Failed("value"), table)
      \/ Finish(Failed("key"), table)
      \/ \E v \in new : Finish(Done(hit, {}), Changed(hit, request.col, v))
  BY <1>1, <1>2, <1>3, <1>4, <1>5, <1>6 DEF Update, Changed
<1>8. UpdateParts(b, set, where, params) /\ NewValues(set, params) = new
  BY <1>1, <1>2, <1>3, <1>4, <1>5 DEF UpdateParts, Sets, NewValues
<1>9. QED
  BY <1>6, <1>7, <1>8

\* What an insert does.
LEMMA InsertIs ==
  ASSUME Insert
  PROVE  \E value : value = ValuesRead(RowValues) /\
         \E free \in Id \ Rowset(table) :
           \/ (\E c \in Columns : value[c] = {}) /\ Finish(Failed("value"), table)
           \/ /\ \A c \in Columns : value[c] # {}
              /\ Finish(Done({free}, {}), [table EXCEPT ![free] = NewRow(value)])
<1>1. PICK value : value = ValuesRead(RowValues)
  OBVIOUS
<1>2. PICK free \in Id \ Rowset(table) :
        IF \E c \in Columns : value[c] = {} THEN Finish(Failed("value"), table)
        ELSE Finish(Done({free}, {}), [table EXCEPT ![free] = NewRow(value)])
  BY <1>1 DEF Insert
<1>3. QED
  BY <1>1, <1>2

\* Of a table of these rows, the rows have the columns.
Regular(t) == DOMAIN t = Id /\ \A i \in Rowset(t) : DOMAIN t[i] = Columns

\* Each write keeps the rows so.
LEMMA WritesRegular ==
  ASSUME Regular(table), [Next]_vars
  PROVE  Regular(table')
<1>1. ASSUME NEW r, NEW t, Finish(r, t), Regular(t)
      PROVE  Regular(table')
  BY <1>1 DEF Finish
<1>2. CASE Update
  <2>1. \/ \E r : Finish(r, table)
        \/ \E r, hit, c, v : Finish(r, Changed(hit, c, v)) /\ hit \subseteq Rowset(table)
    <3>1. \A frags, params : Named(frags, params) \subseteq Rowset(table)
      BY DEF Named
    <3>2. QED
      BY <1>2, <3>1, UpdateIs
  <2>2. ASSUME NEW hit, NEW c, NEW v, hit \subseteq Rowset(table)
        PROVE  Regular(Changed(hit, c, v))
    BY <2>2 DEF Regular, Rowset, Changed
  <2>3. QED
    BY <1>1, <2>1, <2>2
<1>3. CASE Delete
  <2>1. \/ \E r : Finish(r, table)
        \/ \E r, hit : Finish(r, [i \in Id |-> IF i \in hit THEN Gone ELSE table[i]])
    BY <1>3 DEF Delete
  <2>2. ASSUME NEW hit
        PROVE  Regular([i \in Id |-> IF i \in hit THEN Gone ELSE table[i]])
    BY DEF Regular, Rowset
  <2>3. QED
    BY <1>1, <2>1, <2>2
<1>4. CASE Insert
  <2>1. \/ \E r : Finish(r, table)
        \/ \E r, cells : \E free \in Id : /\ Finish(r, [table EXCEPT ![free] = cells])
                                          /\ DOMAIN cells = Columns
    <3>1. \A value : DOMAIN NewRow(value) = Columns
      BY DEF NewRow
    <3>2. QED
      BY <1>4, <3>1, InsertIs
  <2>2. ASSUME NEW free \in Id, NEW cells, DOMAIN cells = Columns
        PROVE  Regular([table EXCEPT ![free] = cells])
    BY <2>2 DEF Regular, Rowset
  <2>3. QED
    BY <1>1, <2>1, <2>2
<1>5. CASE FetchBlob
  <2>1. \E r : Finish(r, table)
    BY <1>5 DEF FetchBlob
  <2>2. QED
    BY <1>1, <2>1
<1>6. CASE OtherWrites
  <2>1. PICK i \in Rowset(table) : \/ table' = [table EXCEPT ![i] = Gone]
                                   \/ \E c, v : table' = [table EXCEPT ![i][c] = v]
    BY <1>6 DEF OtherWrites
  <2>2. QED
    BY <2>1 DEF Regular, Rowset
<1>7. CASE Ask \/ LookUp \/ UNCHANGED vars
  BY <1>7 DEF Ask, LookUp, vars
<1>8. QED
  BY <1>2, <1>3, <1>4, <1>5, <1>6, <1>7 DEF Next

\* Every step keeps what the handlers have.
LEMMA ReadyKept ==
  ASSUME Ready, [Next]_vars
  PROVE  Ready'
<1>1. schema' = schema /\ seen' = seen
  BY DEF Next, Ask, LookUp, Update, Delete, Insert, FetchBlob, OtherWrites, Finish, vars
<1>2. Shown'
  BY ShownKept DEF Ready
<1>3. Regular(table')
  BY WritesRegular DEF Ready, Regular
<1>4. (DOMAIN table = Id /\ \A i \in Rowset(table) : DOMAIN table[i] = Columns)'
  BY <1>1, <1>3 DEF Regular, Rowset, Columns
<1>5. (enums \in BOOLEAN /\ (types = schema.types \/ types = [c \in Columns |-> NoType]))'
  <2>1. CASE LookUp
    BY <1>1, <2>1 DEF LookUp, Columns
  <2>2. CASE enums' = enums /\ types' = types
    BY <1>1, <2>2 DEF Ready, Columns
  <2>3. QED
    BY <2>1, <2>2 DEF Next, Ask, Update, Delete, Insert, FetchBlob, OtherWrites, Finish, vars
<1>6. request'.op = "update" =>
       /\ request'.col \in Columns
       /\ \A v \in request'.shows : /\ v \in Stored(schema.types[request'.col])
                                    /\ request'.json = Show(schema.types[request'.col], v)
  <2>1. CASE Ask
    <3>1. PICK i \in Rowset(seen) : \E c \in Columns :
       \/ \E op \in {"delete", "insert", "fetch"} :
            request' = [op |-> op, row |-> i, col |-> c, json |-> Null, shows |-> {}]
       \/ \E j \in Rowset(seen) :
            request' = [op |-> "update", row |-> i, col |-> c, json |-> ShownCell(j, c), shows |-> {seen[j][c]}]
       \/ \E text \in Typed :
            request' = [op |-> "update", row |-> i, col |-> c, json |-> <<"string", text>>, shows |-> {}]
      BY <2>1 DEF Ask
    <3>2. PICK c \in Columns :
       \/ request'.op # "update"
       \/ \E j \in Rowset(seen) :
            /\ request'.col = c /\ request'.json = ShownCell(j, c) /\ request'.shows = {seen[j][c]}
       \/ request'.col = c /\ request'.shows = {}
      BY <3>1
    <3>3. \A j \in Rowset(seen) : seen[j][c] \in Stored(schema.types[c])
      BY <3>2 DEF Ready, Shown
    <3>4. QED
      BY <3>2, <3>3 DEF ShownCell
  <2>2. CASE request' = request
    BY <2>2 DEF Ready
  <2>3. QED
    BY <2>1, <2>2 DEF Next, LookUp, Update, Delete, Insert, FetchBlob, OtherWrites, Finish, vars
<1>7. QED
  BY <1>1, <1>2, <1>4, <1>5, <1>6 DEF Ready, Columns

\* What the request's predicate sends.
LEMMA KeySent ==
  ASSUME schema \in Schema, NEW S, \A c \in schema.keys : ShownCell(request.row, c)[2] \in S,
         NEW before \in Seq(S), NEW s, s = PkPredicate(PkMap, types, Len(before) + 1)
  PROVE  s.params \in Seq(S)
<1>1. PICK pk, given : pk = PkMap /\ given = types
  OBVIOUS
<1>2. DOMAIN pk = schema.keys /\ \A d \in schema.keys : pk[d] = ShownCell(request.row, d)
  BY <1>1 DEF PkMap
<1>3. DOMAIN pk \subseteq Ordered /\ DOMAIN pk # {}
  BY <1>2, SchemaAssumption
<1> DEFINE bound == [d \in DOMAIN pk |-> [i \in Nat |-> PkValue(pk[d], i, given[d])]]
<1>4. \A d \in DOMAIN pk : \A i \in Nat : bound[d][i] = PkValue(pk[d], i, given[d])
  OBVIOUS
<1>5. \A d \in DOMAIN pk : \A i \in Nat \ {0} : IsBound(bound[d][i], i, S)
  BY <1>2, <1>4, PkBound
<1>6. s = Fragments(DOMAIN pk, bound, Len(before) + 1)
  BY <1>1 DEF PkPredicate
<1> HIDE DEF bound
<1>7. PICK c : c \in DOMAIN pk
  BY <1>3
<1>8. QED
  BY <1>3, <1>5, <1>6, <1>7, FragmentsRight

\* What the request has loaded of a column's type.
Loaded(o, c) == o.type = types[c] /\ o.enum = (enums /\ schema.types[c] = "mood") /\ o.oid = enums

\* It is the column's, or nothing.
LEMMA AsksRight ==
  ASSUME Ready, NEW c \in Columns, NEW o, Loaded(o, c)
  PROVE  /\ schema.types[c] \in ColumnTypes
         /\ AsksFor(o, schema.types[c])
         /\ AllLoaded => Known(o, schema.types[c])
<1>1. schema.types[c] \in ColumnTypes
  BY SchemaAssumption DEF Ready, Shown, Columns
<1>2. types[c] \in {schema.types[c], NoType} /\ enums \in BOOLEAN
  BY DEF Ready
<1>3. AsksFor(o, schema.types[c])
  BY <1>2 DEF Loaded, AsksFor
<1>4. AllLoaded => Known(o, schema.types[c])
  BY <1>2 DEF Loaded, Known, AllLoaded
<1>5. QED
  BY <1>1, <1>3, <1>4

\* What a fragment stores of a value it was bound to.
Stores(c, v, new) ==
  /\ new \subseteq {v}
  /\ AllLoaded => new # {}

\* A cell's value, bound with what is loaded of its column and sent, is stored as it is.
LEMMA CellStored ==
  ASSUME Ready, NEW c \in Columns, NEW v \in Stored(schema.types[c]), Faithful(c, v),
         NEW o, Loaded(o, c), NEW i, NEW b, b = BindValue(Show(schema.types[c], v), i, o),
         NEW params, TextOf(b, params) = {b.text}
  PROVE  Stores(c, v, Assigned(schema.types[c], b, params))
<1>1. PICK type : type = schema.types[c]
  OBVIOUS
<1>2. /\ type \in ColumnTypes /\ v \in Stored(type) /\ Exact(type, v) /\ ~Disguised(type, v)
      /\ b = BindValue(Show(type, v), i, o) /\ AsksFor(o, type)
  BY <1>1, AsksRight DEF Faithful
<1>3. Assigned(type, b, params) \subseteq {v}
  <2>1. Sure(o, type, v)
    BY <1>1, AsksRight DEF Faithful, Sure
  <2>2. QED
    BY <1>2, <2>1, NoOtherValue
<1>4. ASSUME AllLoaded
      PROVE  Assigned(type, b, params) # {}
  <2>1. Known(o, type)
    BY <1>1, <1>4, AsksRight
  <2>2. QED
    BY <1>2, <2>1, ValueStored
<1>5. QED
  BY <1>1, <1>3, <1>4 DEF Stores

\* The new value of an update is the one that was shown.
LEMMA UpdateStores ==
  ASSUME Ready, request.op = "update", stage # "idle",
         NEW b, NEW set, NEW where, NEW params, UpdateParts(b, set, where, params),
         NEW v \in request.shows, Faithful(request.col, v)
  PROVE  Stores(request.col, v, NewValues(set, params))
<1>1. PICK S : S = TextsAsked
  OBVIOUS
<1>2. PICK c, type, o : c = request.col /\ type = schema.types[c] /\ o = Options(c, TRUE)
  OBVIOUS
<1>3. c \in Columns /\ v \in Stored(type) /\ request.json = Show(type, v)
  BY <1>2 DEF Ready
<1>4. Loaded(o, c)
  BY <1>2 DEF Options, Loaded
<1>5. b = BindValue(Show(type, v), 1, o)
  BY <1>2, <1>3 DEF UpdateParts, Sets
<1>6. set.params \in Seq(S) /\ set.next = Len(set.params) + 1 /\ set.params = b.param /\ set.frags[c] = b
  BY <1>1, <1>2, SetAsked DEF UpdateParts
<1>7. where.params \in Seq(S)
  <2>1. \A d \in schema.keys : ShownCell(request.row, d)[2] \in S
    BY <1>1 DEF TextsAsked
  <2>2. where = PkPredicate(PkMap, types, Len(set.params) + 1) /\ schema \in Schema
    BY <1>6 DEF UpdateParts, Ready, Shown
  <2>3. QED
    BY <1>6, <2>1, <2>2, KeySent
<1>8. TextOf(b, set.params) = {b.text}
  <2>1. PICK sent : sent = <<>>
    OBVIOUS
  <2>2. request.json[2] \in S
    BY <1>1 DEF TextsAsked
  <2>3. IsBound(b, 1, S)
    BY <1>3, <1>5, <2>2, BindBound
  <2>4. sent \in Seq(S) /\ IsBound(b, Len(sent) + 1, S)
    BY <2>1, <2>3
  <2>5. TextOf(b, sent \o b.param) = {b.text}
    BY <2>4, JustSent
  <2>6. sent \o b.param = b.param
    BY <1>6, <2>1
  <2>7. QED
    BY <1>6, <2>5, <2>6
<1>9. params = set.params \o where.params
  BY DEF UpdateParts
<1>10. TextOf(b, params) = {b.text}
  BY <1>6, <1>7, <1>8, <1>9, MoreSent
<1>11. Stores(c, v, Assigned(type, b, params))
  BY <1>2, <1>3, <1>4, <1>5, <1>10, CellStored
<1>12. QED
  BY <1>2, <1>6, <1>11 DEF NewValues

\* The values of an insert are the row's.
LEMMA InsertStores ==
  ASSUME Ready, stage # "idle", NEW c \in Columns, Faithful(c, seen[request.row][c])
  PROVE  Stores(c, seen[request.row][c], ValuesRead(RowValues)[c])
<1>1. PICK S : S = TextsAsked
  OBVIOUS
<1>2. PICK cols, bound, before :
        /\ cols = Columns /\ before = <<>>
        /\ bound = [d \in Columns |->
                      [i \in Nat |-> BindValue(ShownCell(request.row, d), i, Options(d, FALSE))]]
  OBVIOUS
<1>3. \A d \in cols : \A i \in Nat : bound[d][i] = BindValue(ShownCell(request.row, d), i, Options(d, FALSE))
  BY <1>2
<1>4. \A d \in cols : ShownCell(request.row, d)[2] \in S
  BY <1>1, <1>2 DEF TextsAsked
<1>5. \A d \in cols : \A i \in Nat \ {0} : IsBound(bound[d][i], i, S)
  <2>1. ASSUME NEW d \in cols, NEW i \in Nat \ {0}
        PROVE  IsBound(bound[d][i], i, S)
    <3>1. PICK json, o : json = ShownCell(request.row, d) /\ o = Options(d, FALSE)
      OBVIOUS
    <3>2. bound[d][i] = BindValue(json, i, o) /\ json[2] \in S
      BY <1>3, <1>4, <3>1
    <3>3. QED
      BY <3>2, BindBound
  <2>2. QED
    BY <2>1
<1>6. PICK s : s = RowValues
  OBVIOUS
<1>7. s = Fragments(cols, bound, Len(before) + 1)
  BY <1>2, <1>6 DEF RowValues
<1>8. cols \subseteq Ordered
  BY <1>2, SchemaAssumption DEF Ready, Shown, Columns
<1>9. before \in Seq(S) /\ c \in cols
  BY <1>2
<1>10. s.params \in Seq(S) /\ Among(s, c, bound, before)
  BY <1>5, <1>7, <1>8, <1>9, FragmentsRight
<1>11. before \o s.params = s.params
  BY <1>2, <1>10
<1>12. PICK i \in Nat \ {0} : s.frags[c] = bound[c][i]
  BY <1>10 DEF Among
<1>13. PICK v, b, o : v = seen[request.row][c] /\ b = s.frags[c] /\ o = Options(c, FALSE)
  OBVIOUS
<1>14. b = BindValue(Show(schema.types[c], v), i, o)
  BY <1>3, <1>9, <1>12, <1>13 DEF ShownCell
<1>15. Loaded(o, c)
  BY <1>13 DEF Options, Loaded
<1>16. v \in Stored(schema.types[c]) /\ Faithful(c, v)
  BY <1>13 DEF Ready, Shown
<1>17. TextOf(b, s.params) = {b.text}
  BY <1>10, <1>11, <1>13 DEF Among
<1>18. Stores(c, v, Assigned(schema.types[c], b, s.params))
  BY <1>14, <1>15, <1>16, <1>17, CellStored
<1>19. ValuesRead(s)[c] = Assigned(schema.types[c], b, s.params)
  BY <1>13 DEF ValuesRead
<1>20. QED
  BY <1>6, <1>13, <1>18, <1>19

\* An update that is done has changed the rows it hit to the new value; one that is not has
\* hit none, and was refused for the value or for the key.
LEMMA UpdateCopies ==
  ASSUME Ready, Update, NEW v \in request.shows, Faithful(request.col, v)
  PROVE  /\ \A i \in result'.hit : table'[i][request.col] = v
         /\ AllLoaded => result'.error # "value"
<1>1. PICK b, set, where, params :
        /\ UpdateParts(b, set, where, params)
        /\ \/ NewValues(set, params) = {} /\ Finish(Failed("value"), table)
           \/ Finish(Failed("key"), table)
           \/ \E w \in NewValues(set, params) :
                Finish(Done(Named(where.frags, params), {}),
                         Changed(Named(where.frags, params), request.col, w))
  BY UpdateIs
<1>2. PICK c, new, hit : c = request.col /\ new = NewValues(set, params) /\ hit = Named(where.frags, params)
  OBVIOUS
<1>3. Stores(c, v, new) /\ c \in Columns
  <2>1. request.op = "update" /\ stage # "idle"
    BY DEF Update
  <2>2. Stores(request.col, v, NewValues(set, params))
    BY <1>1, <2>1, UpdateStores
  <2>3. QED
    BY <1>2, <2>1, <2>2 DEF Ready
<1>4. hit \subseteq Rowset(table)
  BY <1>2 DEF Named
<1>5. \A what : Failed(what).hit = {} /\ Failed(what).error = what
  BY DEF Failed
<1>6. CASE new = {} /\ Finish(Failed("value"), table)
  <2>1. result' = Failed("value") \/ result' = Failed("key")
    BY <1>6 DEF Finish
  <2>2. result'.hit = {}
    BY <1>5, <2>1
  <2>3. QED
    BY <1>3, <1>6, <2>2 DEF Stores
<1>7. CASE Finish(Failed("key"), table)
  <2>1. result' = Failed("key")
    BY <1>7 DEF Finish
  <2>2. result'.hit = {} /\ result'.error = "key"
    BY <1>5, <2>1
  <2>3. QED
    BY <2>2
<1>8. CASE \E w \in new : Finish(Done(hit, {}), Changed(hit, c, w))
  <2>1. PICK w \in new : Finish(Done(hit, {}), Changed(hit, c, w))
    BY <1>8
  <2>2. w = v
    BY <1>3, <2>1 DEF Stores
  <2>3. CASE result' = Failed("key")
    <3>1. result'.hit = {} /\ result'.error = "key"
      BY <1>5, <2>3
    <3>2. QED
      BY <3>1
  <2>4. CASE result' = Done(hit, {}) /\ table' = Changed(hit, c, w)
    <3>1. result'.hit = hit /\ result'.error = "none"
      BY <2>4 DEF Done
    <3>2. ASSUME NEW i \in hit
          PROVE  table'[i][c] = v
      <4>1. i \in Id /\ DOMAIN table[i] = Columns
        BY <1>4, <3>2 DEF Ready, Rowset
      <4>2. table'[i] = [table[i] EXCEPT ![c] = w]
        BY <2>4, <3>2, <4>1 DEF Changed
      <4>3. QED
        BY <1>3, <2>2, <4>1, <4>2
    <3>3. QED
      BY <1>2, <3>1, <3>2
  <2>5. QED
    BY <2>1, <2>3, <2>4 DEF Finish
<1>9. QED
  BY <1>1, <1>2, <1>6, <1>7, <1>8

\* An insert that is done has made a row of the values that are copied.
LEMMA InsertCopies ==
  ASSUME Ready, Insert
  PROVE  /\ \A i \in result'.hit : \A c \in Columns :
              Faithful(c, seen[request.row][c]) => table'[i][c] = seen[request.row][c]
         /\ AllLoaded /\ (\A c \in Columns : Faithful(c, seen[request.row][c]))
              => result'.error # "value"
<1>1. PICK value : value = ValuesRead(RowValues) /\
         \E free \in Id \ Rowset(table) :
           \/ (\E c \in Columns : value[c] = {}) /\ Finish(Failed("value"), table)
           \/ /\ \A c \in Columns : value[c] # {}
              /\ Finish(Done({free}, {}), [table EXCEPT ![free] = NewRow(value)])
  BY InsertIs
<1>2. ASSUME NEW c \in Columns, Faithful(c, seen[request.row][c])
      PROVE  Stores(c, seen[request.row][c], value[c])
  <2>1. stage # "idle"
    BY DEF Insert
  <2>2. Stores(c, seen[request.row][c], ValuesRead(RowValues)[c])
    BY <1>2, <2>1, InsertStores
  <2>3. QED
    BY <1>1, <2>2
<1>3. \A what : Failed(what).hit = {} /\ Failed(what).error = what
  BY DEF Failed
<1>4. PICK free \in Id \ Rowset(table) :
           \/ (\E c \in Columns : value[c] = {}) /\ Finish(Failed("value"), table)
           \/ /\ \A c \in Columns : value[c] # {}
              /\ Finish(Done({free}, {}), [table EXCEPT ![free] = NewRow(value)])
  BY <1>1
<1>5. CASE (\E c \in Columns : value[c] = {}) /\ Finish(Failed("value"), table)
  <2>1. result' = Failed("value") \/ result' = Failed("key")
    BY <1>5 DEF Finish
  <2>2. result'.hit = {}
    BY <1>3, <2>1
  <2>3. ASSUME AllLoaded, \A c \in Columns : Faithful(c, seen[request.row][c])
        PROVE  FALSE
    <3>1. \A c \in Columns : value[c] # {}
      BY <1>2, <2>3 DEF Stores
    <3>2. QED
      BY <1>5, <3>1
  <2>4. QED
    BY <2>2, <2>3
<1>6. CASE /\ \A c \in Columns : value[c] # {}
           /\ Finish(Done({free}, {}), [table EXCEPT ![free] = NewRow(value)])
  <2>1. CASE result' = Failed("key")
    <3>1. result'.hit = {} /\ result'.error = "key"
      BY <1>3, <2>1
    <3>2. QED
      BY <3>1
  <2>2. CASE result' = Done({free}, {}) /\ table' = [table EXCEPT ![free] = NewRow(value)]
    <3>1. result'.hit = {free} /\ result'.error = "none"
      BY <2>2 DEF Done
    <3>2. table'[free] = NewRow(value)
      BY <1>4, <2>2 DEF Ready
    <3>3. ASSUME NEW c \in Columns, Faithful(c, seen[request.row][c])
          PROVE  table'[free][c] = seen[request.row][c]
      <4>1. value[c] \subseteq {seen[request.row][c]} /\ value[c] # {}
        BY <1>2, <1>6, <3>3 DEF Stores
      <4>2. NewRow(value)[c] \in value[c]
        BY <4>1 DEF NewRow
      <4>3. QED
        BY <3>2, <4>1, <4>2
    <3>4. QED
      BY <3>1, <3>3
  <2>3. QED
    BY <1>6, <2>1, <2>2 DEF Finish
<1>7. QED
  BY <1>4, <1>5, <1>6

\* What CopiesValue says of a step.
Copied == IF request.op = "update" THEN {<<request.col, v>> : v \in request.shows}
          ELSE {<<c, seen[request.row][c]>> : c \in Columns}

\* For any table, types and texts: a cell saved or a row inserted as it is shown stores the
\* values themselves, and is refused for them only when the types could not be loaded.
THEOREM CopiesKeepTheirValue == Spec => CopiesValue
<1>1. Ready /\ [Next]_vars =>
        [Executes /\ request.op \in {"update", "insert"} =>
           LET copied == IF request.op = "update" THEN {<<request.col, v>> : v \in request.shows}
                         ELSE {<<c, seen[request.row][c]>> : c \in Columns}
           IN  /\ \A i \in result'.hit, x \in copied : Faithful(x[1], x[2]) => table'[i][x[1]] = x[2]
               /\ copied # {} /\ (\A x \in copied : Faithful(x[1], x[2])) /\ AllLoaded
                    => result'.error # "value"]_vars
  <2> SUFFICES ASSUME Ready, Next, Executes, request.op \in {"update", "insert"}
               PROVE  /\ \A i \in result'.hit, x \in Copied : Faithful(x[1], x[2]) => table'[i][x[1]] = x[2]
                      /\ Copied # {} /\ (\A x \in Copied : Faithful(x[1], x[2]))
                           /\ AllLoaded => result'.error # "value"
    BY DEF Copied
  <2>1. CASE request.op = "update"
    <3>1. Update
      BY <2>1 DEF Next, Executes, Ask, LookUp, Delete, Insert, FetchBlob, OtherWrites
    <3>2. Copied = {<<request.col, v>> : v \in request.shows}
      BY <2>1 DEF Copied
    <3>3. ASSUME NEW x \in Copied, Faithful(x[1], x[2])
          PROVE  /\ \A i \in result'.hit : table'[i][x[1]] = x[2]
                 /\ AllLoaded => result'.error # "value"
      <4>1. PICK v \in request.shows : x = <<request.col, v>>
        BY <3>2, <3>3
      <4>2. x[1] = request.col /\ x[2] = v
        BY <4>1
      <4>3. QED
        BY <3>1, <3>3, <4>2, UpdateCopies
    <3>4. QED
      BY <3>3
  <2>2. CASE request.op = "insert"
    <3>1. Insert
      BY <2>2 DEF Next, Executes, Ask, LookUp, Update, Delete, FetchBlob, OtherWrites
    <3>2. Copied = {<<c, seen[request.row][c]>> : c \in Columns}
      BY <2>2 DEF Copied
    <3>3. ASSUME NEW i \in result'.hit, NEW x \in Copied, Faithful(x[1], x[2])
          PROVE  table'[i][x[1]] = x[2]
      <4>1. PICK c \in Columns : x = <<c, seen[request.row][c]>>
        BY <3>2, <3>3
      <4>2. x[1] = c /\ x[2] = seen[request.row][c]
        BY <4>1
      <4>3. QED
        BY <3>1, <3>3, <4>2, InsertCopies
    <3>4. ASSUME \A x \in Copied : Faithful(x[1], x[2]), AllLoaded
          PROVE  result'.error # "value"
      <4>1. ASSUME NEW c \in Columns
            PROVE  Faithful(c, seen[request.row][c])
        <5>1. PICK x : x = <<c, seen[request.row][c]>>
          OBVIOUS
        <5>2. x \in Copied /\ x[1] = c /\ x[2] = seen[request.row][c]
          BY <3>2, <5>1
        <5>3. QED
          BY <3>4, <5>2
      <4>2. QED
        BY <3>1, <3>4, <4>1, InsertCopies
    <3>5. QED
      BY <3>3, <3>4
  <2>3. QED
    BY <2>1, <2>2
<1>2. QED
  BY <1>1, ReadyInit, ReadyKept, PTL DEF Spec, CopiesValue
=============================================================================
