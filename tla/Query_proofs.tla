----------------------------- MODULE Query_proofs -----------------------------
(***************************************************************************)
(* For every number of requests and backends, whatever they ask: a pinned  *)
(* request leaves nothing on its backend and prepares on a clean one       *)
(* (Isolation), and names are resolved in the request's own schema         *)
(* (OwnPath).  What the statements say does not matter to either: Answer   *)
(* and the scanners are never expanded.                                    *)
(*                                                                         *)
(* For every text whose bounds come last, every limit and page: a page     *)
(* holds its share of the rows (PageRight).  Here the texts are all that   *)
(* matters: the places where a text's statement, its LIMIT and its OFFSET  *)
(* end (Placed) say both what the plugin cuts from it and what PostgreSQL  *)
(* reads in it, and the rest is arithmetic.                                *)
(*                                                                         *)
(* For every text of one statement the grammar accepts: the plugin takes   *)
(* it for what it is (ScansRight).  That comes first.  Beginnings of texts *)
(* and what is cut from their ends, and what PostgreSQL has read after     *)
(* each token of a text (OutsideStep).  Then the plugin's words next to    *)
(* PostgreSQL's: token by token the two readers stay alike (Alike,         *)
(* AlikeStep), so that of one statement the plugin's words follow the      *)
(* server's up to the first literal, bracket or operator (KeywordsAre).    *)
(* That is as far as a keyword can stand that decides anything             *)
(* (AgreeAfter), whence the effect of a statement and its local state      *)
(* (EffectRight, LocalRight).  The first token, found by a scan of its     *)
(* own, is the server's first word unless a comment before it is nested    *)
(* (FirstIs).                                                              *)
(***************************************************************************)
EXTENDS Query, SequenceTheorems, WellFoundedInduction, TLAPS

-----------------------------------------------------------------------------
(* Beginnings of a text. *)

Text == Seq(STRING)
Prefix(text, n) == SubSeq(text, 1, n)

\* Every nonempty set of naturals has a least member.
LEMMA LeastOne ==
  ASSUME NEW T \in SUBSET Nat, T # {}
  PROVE  \E n \in T : \A m \in T : n <= m
<1>1. IsWellFoundedOn(OpToRel(<, Nat), Nat)
  BY NatLessThanWellFounded
<1>2. PICK n \in T : \A m \in T : <<m, n>> \notin OpToRel(<, Nat)
  BY <1>1, WFMin, Zenon
<1>3. \A m \in T : ~(m < n)
  BY <1>2 DEF OpToRel
<1>4. QED
  BY <1>3

\* What a beginning is.
LEMMA PrefixIs ==
  ASSUME NEW text \in Text, NEW n \in 0 .. Len(text)
  PROVE  /\ Prefix(text, n) \in Text /\ Len(Prefix(text, n)) = n
         /\ \A i \in 1 .. n : Prefix(text, n)[i] = text[i]
<1>1. Len(text) \in Nat /\ \A i \in 1 .. Len(text) : text[i] \in STRING
  BY LenProperties, ElementOfSeq DEF Text
<1>2. QED
  BY <1>1, SubSeqProperties DEF Text, Prefix

\* A text of its own.
LEMMA WholePrefix ==
  ASSUME NEW text \in Text
  PROVE  Prefix(text, Len(text)) = text /\ Len(text) \in Nat
  BY SubSeqFull, LenProperties DEF Text, Prefix

\* A text as long, with the same tokens.
LEMMA PrefixEqual ==
  ASSUME NEW text \in Text, NEW n \in 0 .. Len(text), NEW x \in Text, Len(x) = n,
         \A i \in 1 .. n : x[i] = text[i]
  PROVE  x = Prefix(text, n)
  BY PrefixIs, SeqEqual DEF Text

\* A beginning of a beginning.
LEMMA PrefixOfPrefix ==
  ASSUME NEW text \in Text, NEW n \in 0 .. Len(text), NEW m \in 0 .. n
  PROVE  SubSeq(Prefix(text, n), 1, m) = Prefix(text, m)
<1>1. Len(text) \in Nat
  BY WholePrefix
<1>2. Prefix(Prefix(text, n), m) = Prefix(text, m)
  BY <1>1, PrefixIs, PrefixEqual
<1>3. QED
  BY <1>2 DEF Prefix

\* The last token of a beginning, and the rest.
LEMMA PrefixFront ==
  ASSUME NEW text \in Text, NEW n \in 1 .. Len(text)
  PROVE  /\ Front(Prefix(text, n)) = Prefix(text, n - 1)
         /\ Last(Prefix(text, n)) = text[n]
         /\ Len(Prefix(text, n)) > 0
<1>1. Len(text) \in Nat
  BY WholePrefix
<1>2. n \in 0 .. Len(text) /\ n - 1 \in 0 .. n /\ n \in 1 .. n
  BY <1>1
<1>3. Len(Prefix(text, n)) = n /\ Prefix(text, n)[n] = text[n]
  BY <1>2, PrefixIs
<1>4. SubSeq(Prefix(text, n), 1, n - 1) = Prefix(text, n - 1)
  BY <1>2, PrefixOfPrefix
<1>5. QED
  BY <1>2, <1>3, <1>4 DEF Front, Last

\* The marks that end a beginning are cut off.
LEMMA WithoutIs ==
  ASSUME NEW text \in Text, NEW n \in 0 .. Len(text), NEW marks, NEW m \in 0 .. n,
         m = 0 \/ text[m] \notin marks, \A k \in m + 1 .. n : text[k] \in marks
  PROVE  Without(Prefix(text, n), marks) = Prefix(text, m)
<1>1. Len(text) \in Nat
  BY WholePrefix
<1> DEFINE x == Prefix(text, n)
           kept == {k \in 1 .. Len(x) : x[k] \notin marks}
<1>2. Len(x) = n /\ \A k \in 1 .. n : x[k] = text[k]
  BY PrefixIs
<1>3. Without(x, marks) = IF kept = {} THEN <<>> ELSE SubSeq(x, 1, CHOOSE k \in kept : \A j \in kept : j <= k)
  BY DEF Without
<1>4. SubSeq(x, 1, m) = Prefix(text, m)
  BY <1>1, PrefixOfPrefix
<1> HIDE DEF x
<1>5. \A k \in kept : k <= m /\ k \in 1 .. n
  BY <1>1, <1>2
<1>6. CASE m = 0
  <2>1. kept = {}
    BY <1>1, <1>5, <1>6
  <2>2. SubSeq(text, 1, m) = <<>>
    BY <1>6, SubSeqEmpty
  <2>3. QED
    BY <1>3, <2>1, <2>2 DEF x, Prefix
<1>7. CASE m # 0
  <2>1. m \in kept
    BY <1>1, <1>2, <1>7
  <2> HIDE DEF kept
  <2>2. \E k \in kept : \A j \in kept : j <= k
    BY <1>5, <2>1
  <2> DEFINE last == CHOOSE k \in kept : \A j \in kept : j <= k
  <2>5. last \in kept /\ \A j \in kept : j <= last
    BY <2>2, Zenon
  <2> HIDE DEF last
  <2>6. last = m
    BY <1>1, <1>5, <2>1, <2>5
  <2>3. (CHOOSE k \in kept : \A j \in kept : j <= k) = m
    BY <2>6 DEF last
  <2>4. QED
    BY <1>3, <1>4, <2>1, <2>3 DEF x
<1>8. QED
  BY <1>6, <1>7

\* There is always such a place to cut.
LEMMA CutExists ==
  ASSUME NEW text \in Text, NEW n \in 0 .. Len(text), NEW marks
  PROVE  \E m \in 0 .. n : /\ m = 0 \/ text[m] \notin marks
                           /\ \A k \in m + 1 .. n : text[k] \in marks
<1>1. Len(text) \in Nat
  BY WholePrefix
<1> DEFINE T == {d \in Nat : d <= n /\ (d = n \/ text[n - d] \notin marks)}
<1>2. n \in T
  BY <1>1
<1>3. PICK d \in T : \A e \in T : d <= e
  BY <1>2, LeastOne, Zenon
<1>4. n - d \in 0 .. n /\ (n - d = 0 \/ text[n - d] \notin marks)
  BY <1>1, <1>3
<1>5. ASSUME NEW k \in n - d + 1 .. n PROVE text[k] \in marks
  <2>1. n - k \in Nat /\ n - k < d /\ n - (n - k) = k /\ n - k <= n
    BY <1>1, <1>3, <1>5
  <2>2. n - k \notin T
    <3> HIDE DEF T
    <3>1. d \in Nat /\ ~(d <= n - k)
      BY <1>3, <2>1 DEF T
    <3>2. QED
      BY <1>3, <3>1
  <2>3. QED
    BY <2>1, <2>2
<1>6. QED
  BY <1>4, <1>5

\* A beginning is cut after a token that is no such mark, where all that follows are.
CutsAt(text, n, marks, m) ==
  /\ m \in 0 .. n
  /\ m = 0 \/ text[m] \notin marks
  /\ \A k \in m + 1 .. n : text[k] \in marks

\* The semicolons end a text, and nothing but blank lines is around them.
LEMMA Trimming ==
  ASSUME NEW text \in Text, NEW n \in 1 .. Len(text), text[n] \notin {Semicolon, EndOfLine},
         \A k \in n + 1 .. Len(text) : text[k] \in {Semicolon, EndOfLine},
         \A i \in n + 1 .. Len(text), j \in n + 1 .. Len(text) : \A k \in i .. j :
           text[i] = Semicolon /\ text[j] = Semicolon => text[k] = Semicolon
  PROVE  Trimmed(text) = Prefix(text, n)
<1> DEFINE all == Len(text)
<1>1. all \in Nat /\ Prefix(text, all) = text /\ all \in 0 .. all /\ n \in 1 .. all
  BY WholePrefix
<1>2. PICK m \in 0 .. all : (m = 0 \/ text[m] \notin {EndOfLine}) /\ \A k \in m + 1 .. all : text[k] \in {EndOfLine}
  BY <1>1, CutExists
<1>3. TrimEnd(text) = Prefix(text, m)
  <2>1. Without(Prefix(text, all), {EndOfLine}) = Prefix(text, m)
    BY <1>1, <1>2, WithoutIs
  <2>2. QED
    BY <1>1, <2>1 DEF TrimEnd
<1>4. m \in 0 .. all /\ m >= n
  BY <1>1, <1>2
<1>5. PICK l \in 0 .. m : (l = 0 \/ text[l] \notin {Semicolon}) /\ \A k \in l + 1 .. m : text[k] \in {Semicolon}
  BY <1>4, CutExists
<1>6. Without(Prefix(text, m), {Semicolon}) = Prefix(text, l)
  BY <1>4, <1>5, WithoutIs
<1>7. l \in 0 .. all /\ n \in 0 .. l
  BY <1>1, <1>4, <1>5
<1>8. ASSUME NEW k \in n + 1 .. l PROVE text[k] = EndOfLine
  <2>1. k \in n + 1 .. all /\ m \in n + 1 .. all /\ l \in n + 1 .. all /\ l \in k .. m /\ l # 0
    BY <1>1, <1>4, <1>5, <1>7, <1>8
  <2>2. text[m] = Semicolon
    BY <1>2, <2>1
  <2>3. text[l] # Semicolon
    BY <1>5, <2>1
  <2>4. text[k] # Semicolon
    BY <2>1, <2>2, <2>3
  <2>5. QED
    BY <2>1, <2>4
<1>9. Without(Prefix(text, l), {EndOfLine}) = Prefix(text, n)
  <2>1. l \in 0 .. Len(text) /\ n \in 0 .. l /\ text[n] \notin {EndOfLine}
    BY <1>7
  <2>2. \A k \in n + 1 .. l : text[k] \in {EndOfLine}
    BY <1>8
  <2>3. QED
    BY <2>1, <2>2, WithoutIs
<1>10. QED
  BY <1>3, <1>6, <1>9 DEF Trimmed, TrimEnd

\* Whether a clause ends a beginning, and what comes before it.
LEMMA EndsIs ==
  ASSUME NEW text \in Text, NEW n \in 1 .. Len(text), NEW m, CutsAt(text, n - 1, {EndOfLine}, m), NEW word
  PROVE  Ends(Prefix(text, n), word) <=> text[n] \in DOMAIN Number /\ m > 0 /\ text[m] = word
<1>1. Len(text) \in Nat /\ n - 1 \in 0 .. Len(text) /\ m \in 0 .. n - 1 /\ m \in 0 .. Len(text)
  BY WholePrefix DEF CutsAt
<1> DEFINE x == Prefix(text, n)
           head == TrimEnd(Front(x))
<1>2. Front(x) = Prefix(text, n - 1) /\ Last(x) = text[n] /\ Len(x) > 0
  BY PrefixFront
<1>3. head = Prefix(text, m)
  BY <1>1, <1>2, WithoutIs DEF TrimEnd, CutsAt
<1>4. Len(head) = m
  BY <1>1, <1>3, PrefixIs
<1>5. m > 0 => Last(head) = text[m]
  BY <1>1, <1>3, PrefixFront
<1>6. Ends(x, word) <=> Len(x) > 0 /\ Last(x) \in DOMAIN Number /\ Len(head) > 0 /\ Last(head) = word
  BY DEF Ends
<1> HIDE DEF head, x
<1>7. QED
  BY <1>1, <1>2, <1>4, <1>5, <1>6 DEF x

\* What is cut before a clause that ends a beginning.
LEMMA BeforeIs ==
  ASSUME NEW text \in Text, NEW n \in 1 .. Len(text), NEW m, CutsAt(text, n - 1, {EndOfLine}, m), m # 0,
         NEW l, CutsAt(text, m - 1, {EndOfLine}, l)
  PROVE  Before(Prefix(text, n)) = Prefix(text, l)
<1>1. /\ Len(text) \in Nat /\ n - 1 \in 0 .. Len(text) /\ m \in 0 .. n - 1 /\ m \in 1 .. Len(text)
      /\ m - 1 \in 0 .. Len(text) /\ l \in 0 .. m - 1
  BY WholePrefix DEF CutsAt
<1>2. Front(Prefix(text, n)) = Prefix(text, n - 1)
  BY PrefixFront
<1>3. TrimEnd(Prefix(text, n - 1)) = Prefix(text, m)
  BY <1>1, WithoutIs DEF TrimEnd, CutsAt
<1>4. Front(Prefix(text, m)) = Prefix(text, m - 1)
  BY <1>1, PrefixFront
<1>5. TrimEnd(Prefix(text, m - 1)) = Prefix(text, l)
  BY <1>1, WithoutIs DEF TrimEnd, CutsAt
<1>6. QED
  BY <1>2, <1>3, <1>4, <1>5 DEF Before

\* From one place to a later one there are blank lines, and then a clause or nothing.
Part(text, i, j, word) ==
  \E a \in i .. j :
    /\ \A k \in i + 1 .. a : text[k] = EndOfLine
    /\ j = a \/ (j = a + 2 /\ text[a + 1] = word /\ text[a + 2] \in DOMAIN Number)
HasClause(text, i, j, word) ==
  \E a \in i .. j :
    /\ \A k \in i + 1 .. a : text[k] = EndOfLine
    /\ j = a + 2 /\ text[a + 1] = word /\ text[a + 2] \in DOMAIN Number
Blank(text, i, j) == \A k \in i + 1 .. j : text[k] = EndOfLine

\* A clause ends the beginning it is in, and no other clause does.
LEMMA ClauseEnds ==
  ASSUME NEW text \in Text, NEW i \in 0 .. Len(text), NEW j \in 0 .. Len(text), NEW word \in {"LIMIT", "OFFSET"},
         HasClause(text, i, j, word), NEW other
  PROVE  /\ Ends(Prefix(text, j), other) <=> other = word
         /\ text[j] \in DOMAIN Number /\ text[j] \notin {Semicolon, EndOfLine}
         /\ j - 1 \in 1 .. Len(text) /\ i < j
<1>1. Len(text) \in Nat
  BY WholePrefix
<1>2. PICK a \in i .. j : /\ \A k \in i + 1 .. a : text[k] = EndOfLine
                          /\ j = a + 2 /\ text[a + 1] = word /\ text[a + 2] \in DOMAIN Number
  BY DEF HasClause
<1>3. j \in 1 .. Len(text) /\ j - 1 = a + 1 /\ j - 1 \in 0 .. j - 1 /\ j - 1 > 0 /\ i < j /\ a + 1 \in 1 .. Len(text)
  BY <1>1, <1>2
<1>4. word # EndOfLine
  BY DEF EndOfLine
<1>5. CutsAt(text, j - 1, {EndOfLine}, j - 1)
  BY <1>1, <1>2, <1>3, <1>4 DEF CutsAt
<1>6. Ends(Prefix(text, j), other) <=> text[j] \in DOMAIN Number /\ j - 1 > 0 /\ text[j - 1] = other
  BY <1>3, <1>5, EndsIs
<1>7. text[j] \in DOMAIN Number /\ text[j - 1] = word
  BY <1>2, <1>3
<1>8. text[j] \notin {Semicolon, EndOfLine}
  BY <1>7, NumbersOK, Zenon DEF NumbersOK, Ignored, Marks
<1>9. QED
  BY <1>3, <1>6, <1>7, <1>8

\* What is left of it without the clause.
LEMMA ClauseCut ==
  ASSUME NEW text \in Text, NEW i \in 1 .. Len(text), NEW j \in 0 .. Len(text), NEW word \in {"LIMIT", "OFFSET"},
         HasClause(text, i, j, word),
         NEW h \in 1 .. i, Blank(text, h, i), text[h] # EndOfLine
  PROVE  Before(Prefix(text, j)) = Prefix(text, h)
<1>1. Len(text) \in Nat
  BY WholePrefix
<1>2. PICK a \in i .. j : /\ \A k \in i + 1 .. a : text[k] = EndOfLine
                          /\ j = a + 2 /\ text[a + 1] = word /\ text[a + 2] \in DOMAIN Number
  BY DEF HasClause
<1>3. j \in 1 .. Len(text) /\ j - 1 = a + 1 /\ j - 1 \in 0 .. j - 1 /\ j - 1 # 0 /\ (j - 1) - 1 = a /\ h \in 0 .. a
  BY <1>1, <1>2
<1>4. word # EndOfLine
  BY DEF EndOfLine
<1>5. CutsAt(text, j - 1, {EndOfLine}, j - 1)
  BY <1>1, <1>2, <1>3, <1>4 DEF CutsAt
<1>6. \A k \in h + 1 .. a : text[k] \in {EndOfLine}
  BY <1>1, <1>2 DEF Blank
<1>7. CutsAt(text, (j - 1) - 1, {EndOfLine}, h)
  BY <1>3, <1>6 DEF CutsAt
<1>8. QED
  BY <1>3, <1>5, <1>7, BeforeIs

-----------------------------------------------------------------------------
(* What PostgreSQL reads in a text. *)

LexState == [depth : Int, line : BOOLEAN, quote : SUBSET {"'", "$"}, words : Text]
IsWord(c) == c \notin Marks

\* A token leaves the reader in one of its states.
LEMMA LexType ==
  ASSUME NEW s \in LexState, NEW c \in STRING
  PROVE  Lex(s, c) \in LexState
<1>1. Append(s.words, c) \in Text
  BY AppendProperties DEF LexState, Text
<1>2. CASE s.depth # 0
  BY <1>2 DEF LexState, Lex
<1>3. CASE s.depth = 0 /\ s.line
  BY <1>3 DEF LexState, Lex
<1>4. CASE s.depth = 0 /\ ~s.line /\ s.quote # {}
  BY <1>4 DEF LexState, Lex
<1>5. CASE s.depth = 0 /\ ~s.line /\ s.quote = {}
  <2>1. \/ Lex(s, c) = s
        \/ Lex(s, c) = [s EXCEPT !.depth = 1]
        \/ Lex(s, c) = [s EXCEPT !.line = TRUE]
        \/ c \in {"'", "$"} /\ Lex(s, c) = [s EXCEPT !.quote = {c}, !.words = Append(@, c)]
        \/ Lex(s, c) = [s EXCEPT !.words = Append(@, c)]
    BY <1>5, Zenon DEF Lex
  <2>2. CASE Lex(s, c) = [s EXCEPT !.depth = 1]
    BY <2>2 DEF LexState
  <2>3. CASE Lex(s, c) = [s EXCEPT !.line = TRUE]
    BY <2>3 DEF LexState
  <2>4. CASE c \in {"'", "$"} /\ Lex(s, c) = [s EXCEPT !.quote = {c}, !.words = Append(@, c)]
    BY <1>1, <2>4 DEF LexState
  <2>5. CASE Lex(s, c) = [s EXCEPT !.words = Append(@, c)]
    BY <1>1, <2>5 DEF LexState
  <2>6. QED
    BY <2>1, <2>2, <2>3, <2>4, <2>5
<1>6. QED
  BY <1>2, <1>3, <1>4, <1>5 DEF LexState

\* Outside comments and quotes a word is added, and a mark that says nothing is not.
LEMMA LexWord ==
  ASSUME NEW s \in LexState, Outer(s), NEW c, IsWord(c)
  PROVE  Lex(s, c) = [s EXCEPT !.words = Append(@, c)]
<1>1. c \notin Ignored /\ c \notin {"/*", "--", "'", "$"}
  BY DEF IsWord, Marks
<1>2. QED
  BY <1>1 DEF Lex, Outer

\* Outside comments and literals it skips blanks and semicolons.
LEMMA LexIgnored ==
  ASSUME NEW s \in LexState, Outer(s), NEW c \in {Semicolon, EndOfLine}
  PROVE  Lex(s, c) = s
<1>1. c \in Ignored /\ c # "/*" /\ c # "--" /\ c # "'" /\ c # "$"
  BY Zenon DEF Ignored, Semicolon, EndOfLine
<1>2. QED
  BY <1>1 DEF Lex, Outer

\* A word opens and closes nothing.
LEMMA LexBack ==
  ASSUME NEW s \in LexState, NEW c, IsWord(c), Outer(Lex(s, c))
  PROVE  Outer(s)
<1>1. /\ c # "/*" /\ c # "*/" /\ c # "--" /\ c # "'" /\ c # "$" /\ c # EndOfLine /\ c \notin Ignored
  BY DEF IsWord, Marks, Ignored
<1>2. CASE s.depth # 0
  BY <1>1, <1>2 DEF Lex, Outer, LexState
<1>3. CASE s.depth = 0 /\ s.line
  BY <1>1, <1>3 DEF Lex, Outer, LexState
<1>4. CASE s.depth = 0 /\ ~s.line /\ s.quote # {}
  BY <1>1, <1>4 DEF Lex, Outer, LexState
<1>5. QED
  BY <1>2, <1>3, <1>4 DEF Outer

IsRead(f, text, n) == f = [k \in 0 .. n |-> IF k = 0 THEN Unlexed ELSE Lex(f[k - 1], text[k])]

\* A text can be read token after token.
LEMMA ReadExists ==
  ASSUME NEW text, NEW m \in Nat
  PROVE  \E f : IsRead(f, text, m)
<1> DEFINE T == {n \in Nat : ~ \E f : IsRead(f, text, n)}
<1>1. CASE T # {}
  <2>1. PICK n \in T : \A k \in T : n <= k
    BY <1>1, LeastOne
  <2>2. CASE n = 0
    <3> DEFINE f == [k \in 0 .. 0 |-> Unlexed]
    <3>1. IsRead(f, text, 0)
      BY DEF IsRead
    <3>2. QED
      BY <2>1, <2>2, <3>1
  <2>3. CASE n # 0
    <3>1. n \in Nat /\ n - 1 \in Nat /\ n - 1 \notin T
      BY <2>1, <2>3
    <3>2. PICK g : IsRead(g, text, n - 1)
      BY <3>1
    <3> DEFINE f == [k \in 0 .. n |-> IF k = n THEN Lex(g[n - 1], text[n]) ELSE g[k]]
    <3>3. f[n - 1] = g[n - 1]
      BY <3>1
    <3>4. \A k \in 0 .. n - 1 : g[k] = IF k = 0 THEN Unlexed ELSE Lex(g[k - 1], text[k])
      BY <3>1, <3>2 DEF IsRead
    <3>5. \A k \in 0 .. n : f[k] = IF k = 0 THEN Unlexed ELSE Lex(f[k - 1], text[k])
      BY <2>3, <3>1, <3>3, <3>4
    <3>6. IsRead(f, text, n)
      BY <3>5 DEF IsRead
    <3>7. QED
      BY <2>1, <3>6
  <2>4. QED
    BY <2>2, <2>3
<1>2. QED
  BY <1>1

Same(x, y, n) == \A k \in 1 .. n : x[k] = y[k]

\* What is read of a beginning does not depend on what follows.
LEMMA ReadSame ==
  ASSUME NEW x, NEW y, NEW n \in Nat, NEW m \in Nat, n <= m, Same(x, y, n),
         NEW f, IsRead(f, x, n), NEW g, IsRead(g, y, m), NEW k \in 0 .. n
  PROVE  f[k] = g[k]
<1> DEFINE T == {i \in 0 .. n : f[i] # g[i]}
<1>1. \A i \in 0 .. n : f[i] = IF i = 0 THEN Unlexed ELSE Lex(f[i - 1], x[i])
  BY DEF IsRead
<1>2. \A i \in 0 .. m : g[i] = IF i = 0 THEN Unlexed ELSE Lex(g[i - 1], y[i])
  BY DEF IsRead
<1>3. CASE T # {}
  <2>1. T \in SUBSET Nat
    OBVIOUS
  <2>2. PICK i \in T : \A j \in T : i <= j
    BY <1>3, <2>1, LeastOne, Zenon
  <2>3. CASE i = 0
    BY <1>1, <1>2, <2>2, <2>3
  <2>4. CASE i # 0
    <3>1. i - 1 \in 0 .. n /\ i - 1 \notin T /\ i \in 1 .. n /\ i \in 0 .. m
      BY <2>2, <2>4
    <3>2. f[i - 1] = g[i - 1] /\ x[i] = y[i]
      BY <3>1 DEF Same
    <3>3. f[i] = g[i]
      BY <1>1, <1>2, <2>4, <3>1, <3>2
    <3>4. QED
      BY <2>2, <3>3
  <2>5. QED
    BY <2>3, <2>4
<1>4. QED
  BY <1>3

\* What is read of a text is what a reading of it ends with.
LEMMA OutsideIs ==
  ASSUME NEW text, Len(text) \in Nat
  PROVE  \E f : IsRead(f, text, Len(text)) /\ Outside(text) = f[Len(text)]
<1>1. \E f : IsRead(f, text, Len(text))
  BY ReadExists
<1> DEFINE f == CHOOSE u : u = [n \in 0 .. Len(text) |-> IF n = 0 THEN Unlexed ELSE Lex(u[n - 1], text[n])]
<1>2. Outside(text) = f[Len(text)]
  BY DEF Outside
<1>3. IsRead(f, text, Len(text))
  BY <1>1 DEF IsRead
<1>4. QED
  BY <1>2, <1>3

\* What is read of a beginning, from what is read of one token less.
LEMMA OutsideStep ==
  ASSUME NEW text \in Text, NEW n \in 1 .. Len(text)
  PROVE  Outside(Prefix(text, n)) = Lex(Outside(Prefix(text, n - 1)), text[n])
<1>1. Len(text) \in Nat /\ n \in Nat /\ n - 1 \in Nat /\ n \in 0 .. Len(text) /\ n - 1 \in 0 .. Len(text)
  BY WholePrefix
<1>2. /\ Len(Prefix(text, n)) = n /\ Len(Prefix(text, n - 1)) = n - 1
      /\ \A k \in 1 .. n : Prefix(text, n)[k] = text[k]
      /\ \A k \in 1 .. n - 1 : Prefix(text, n - 1)[k] = text[k]
  BY <1>1, PrefixIs
<1>3. PICK f : IsRead(f, Prefix(text, n), n) /\ Outside(Prefix(text, n)) = f[n]
  BY <1>1, <1>2, OutsideIs
<1>4. PICK g : IsRead(g, Prefix(text, n - 1), n - 1) /\ Outside(Prefix(text, n - 1)) = g[n - 1]
  BY <1>1, <1>2, OutsideIs
<1>5. g[n - 1] = f[n - 1]
  <2>1. \A k \in 1 .. n - 1 : Prefix(text, n - 1)[k] = Prefix(text, n)[k]
    BY <1>1, <1>2
  <2>2. PICK p \in Nat : p = n - 1
    BY <1>1
  <2>3. p <= n /\ p \in 0 .. p
    BY <1>1, <2>2
  <2> DEFINE x == Prefix(text, n - 1)
             y == Prefix(text, n)
  <2>4. IsRead(g, x, p) /\ IsRead(f, y, n) /\ n \in Nat /\ Same(x, y, p)
    BY <1>1, <1>3, <1>4, <2>1, <2>2 DEF Same
  <2> HIDE DEF x, y
  <2>5. g[p] = f[p]
    BY <2>3, <2>4, ReadSame
  <2>6. QED
    BY <2>2, <2>5
<1>6. f[n] = Lex(f[n - 1], Prefix(text, n)[n])
  BY <1>1, <1>3 DEF IsRead
<1>7. QED
  BY <1>1, <1>2, <1>3, <1>4, <1>5, <1>6

\* Nothing is read before the first token.
LEMMA OutsideNothing ==
  ASSUME NEW text \in Text
  PROVE  Outside(Prefix(text, 0)) = Unlexed
<1>1. Len(Prefix(text, 0)) = 0
  BY WholePrefix, PrefixIs
<1>2. PICK f : IsRead(f, Prefix(text, 0), 0) /\ Outside(Prefix(text, 0)) = f[0]
  BY <1>1, OutsideIs
<1>3. QED
  BY <1>2 DEF IsRead

\* Every beginning is read to one of the states.
LEMMA OutsideType ==
  ASSUME NEW text \in Text, NEW n \in 0 .. Len(text)
  PROVE  Outside(Prefix(text, n)) \in LexState
<1>1. Len(text) \in Nat /\ \A i \in 1 .. Len(text) : text[i] \in STRING
  BY LenProperties, ElementOfSeq DEF Text
<1> DEFINE T == {i \in 0 .. Len(text) : Outside(Prefix(text, i)) \notin LexState}
<1>2. CASE T # {}
  <2>1. T \in SUBSET Nat
    BY <1>1
  <2>2. PICK i \in T : \A j \in T : i <= j
    BY <1>2, <2>1, LeastOne, Zenon
  <2>3. CASE i = 0
    <3>1. Unlexed \in LexState
      BY EmptySeq DEF Unlexed, LexState, Text
    <3>2. QED
      BY <2>2, <2>3, <3>1, OutsideNothing
  <2>4. CASE i # 0
    <3>1. i \in 1 .. Len(text) /\ i - 1 \in 0 .. Len(text) /\ i - 1 < i
      BY <1>1, <2>2, <2>4
    <3>2. i - 1 \notin T
      <4> HIDE DEF T
      <4>1. ~(i <= i - 1)
        BY <1>1, <3>1
      <4>2. QED
        BY <2>2, <4>1
    <3>3. Outside(Prefix(text, i - 1)) \in LexState
      BY <3>1, <3>2
    <3>4. Outside(Prefix(text, i)) \in LexState
      BY <1>1, <3>1, <3>3, OutsideStep, LexType
    <3>5. QED
      BY <2>2, <3>4
  <2>5. QED
    BY <2>3, <2>4
<1>3. QED
  BY <1>2

\* Blank lines and semicolons after a statement say nothing.
LEMMA Skipped ==
  ASSUME NEW text \in Text, NEW n \in 0 .. Len(text), NEW m \in n .. Len(text),
         Outer(Outside(Prefix(text, n))), \A k \in n + 1 .. m : text[k] \in {Semicolon, EndOfLine}
  PROVE  Outside(Prefix(text, m)) = Outside(Prefix(text, n))
<1>1. Len(text) \in Nat
  BY WholePrefix
<1> DEFINE T == {i \in n .. m : Outside(Prefix(text, i)) # Outside(Prefix(text, n))}
<1>2. CASE T # {}
  <2>1. T \in SUBSET Nat
    BY <1>1
  <2>2. PICK i \in T : \A j \in T : i <= j
    BY <1>2, <2>1, LeastOne, Zenon
  <2>3. i # n
    BY <2>2
  <2>4. /\ i \in 1 .. Len(text) /\ i - 1 \in 0 .. Len(text) /\ i - 1 \in n .. m /\ i \in n + 1 .. m
    BY <1>1, <2>2, <2>3
  <2>5. i - 1 \notin T
    <3> HIDE DEF T
    <3>1. ~(i <= i - 1)
      BY <1>1, <2>4
    <3>2. QED
      BY <2>2, <3>1
  <2>6. Outside(Prefix(text, i - 1)) = Outside(Prefix(text, n))
    BY <2>4, <2>5
  <2>7. Lex(Outside(Prefix(text, n)), text[i]) = Outside(Prefix(text, n))
    BY <2>4, OutsideType, LexIgnored
  <2>8. Outside(Prefix(text, i)) = Outside(Prefix(text, n))
    BY <2>4, <2>6, <2>7, OutsideStep
  <2>9. QED
    BY <2>2, <2>8
<1>3. QED
  BY <1>1, <1>2

-----------------------------------------------------------------------------
(* What the plugin reads in a text, next to what PostgreSQL reads in it. *)

ScanState == [depth : Int, line : BOOLEAN, over : BOOLEAN, words : Text]
IsScan(f, text, n) == f = [k \in 0 .. n |-> IF k = 0 THEN Unread ELSE Read(f[k - 1], text[k])]

\* leading_keywords can go over any text.
LEMMA ScanExists ==
  ASSUME NEW text, NEW m \in Nat
  PROVE  \E f : IsScan(f, text, m)
<1> DEFINE T == {n \in Nat : ~ \E f : IsScan(f, text, n)}
<1>1. CASE T # {}
  <2>1. PICK n \in T : \A k \in T : n <= k
    BY <1>1, LeastOne
  <2>2. CASE n = 0
    <3> DEFINE f == [k \in 0 .. 0 |-> Unread]
    <3>1. IsScan(f, text, 0)
      BY DEF IsScan
    <3>2. QED
      BY <2>1, <2>2, <3>1
  <2>3. CASE n # 0
    <3>1. n \in Nat /\ n - 1 \in Nat /\ n - 1 \notin T
      BY <2>1, <2>3
    <3>2. PICK g : IsScan(g, text, n - 1)
      BY <3>1
    <3> DEFINE f == [k \in 0 .. n |-> IF k = n THEN Read(g[n - 1], text[n]) ELSE g[k]]
    <3>3. f[n - 1] = g[n - 1]
      BY <3>1
    <3>4. \A k \in 0 .. n - 1 : g[k] = IF k = 0 THEN Unread ELSE Read(g[k - 1], text[k])
      BY <3>1, <3>2 DEF IsScan
    <3>5. \A k \in 0 .. n : f[k] = IF k = 0 THEN Unread ELSE Read(f[k - 1], text[k])
      BY <2>3, <3>1, <3>3, <3>4
    <3>6. IsScan(f, text, n)
      BY <3>5 DEF IsScan
    <3>7. QED
      BY <2>1, <3>6
  <2>4. QED
    BY <2>2, <2>3
<1>2. QED
  BY <1>1

\* The first words of a sequence.
Keys(c, n) == SubSeq(c, 1, IF Len(c) < n THEN Len(c) ELSE n)

\* The keywords are the first words of what a scan ends with.
LEMMA ScanIs ==
  ASSUME NEW text, Len(text) \in Nat
  PROVE  \E f : /\ IsScan(f, text, Len(text))
                /\ \A n : LeadingKeywords(text, n) = Keys(f[Len(text)].words, n)
<1>1. \E f : IsScan(f, text, Len(text))
  BY ScanExists
<1> DEFINE f == CHOOSE u : u = [k \in 0 .. Len(text) |-> IF k = 0 THEN Unread ELSE Read(u[k - 1], text[k])]
<1>2. ASSUME NEW n PROVE LeadingKeywords(text, n) = Keys(f[Len(text)].words, n)
  BY DEF LeadingKeywords, Keys
<1>3. IsScan(f, text, Len(text))
  BY <1>1 DEF IsScan
<1>4. QED
  BY <1>2, <1>3

\* Beginnings of the server's words that the plugin reads as they are, and brackets.
Straight(w, k) == \A i \in 1 .. k : w[i] \notin Punctuation /\ w[i] \notin Quotes
Brackets(w, k) == \A i \in 1 .. k : w[i] = "("
Stopped(w) == \E k \in 1 .. Len(w) : w[k] \in Quotes

\* What the plugin's words c have to do with the server's words w: they begin alike up
\* to a literal, a bracket or an operator; a literal is the end; and the first word in
\* brackets comes first.
Follows(c, w) ==
  /\ \A k \in 0 .. Len(w) : Straight(w, k) => k <= Len(c) /\ \A i \in 1 .. k : c[i] = w[i]
  /\ \A k \in 0 .. Len(w) : Straight(w, k) /\ (k = Len(w) \/ w[k + 1] \in Quotes) => Len(c) = k
  /\ \A k \in 1 .. Len(w) : Brackets(w, k - 1) /\ w[k] \notin Punctuation /\ w[k] \notin Quotes =>
       1 <= Len(c) /\ c[1] = w[k]
  /\ Brackets(w, Len(w)) => Len(c) = 0

\* A word more.
More(v, w, d) ==
  /\ v \in Text /\ Len(w) \in Nat /\ Len(v) \in Nat /\ Len(v) = Len(w) + 1 /\ v[Len(v)] = d
  /\ \A i \in 1 .. Len(v) : i = Len(v) \/ (i \in 1 .. Len(w) /\ v[i] = w[i])

\* Appended, a word is one more.
LEMMA OneWordMore ==
  ASSUME NEW w \in Text, NEW d, d \in STRING
  PROVE  More(Append(w, d), w, d)
<1>1. w \in Seq(STRING) /\ Len(w) \in Nat
  BY LenProperties DEF Text
<1>2. Append(w, d) \in Seq(STRING) /\ Len(Append(w, d)) = Len(w) + 1
  BY <1>1, AppendProperties
<1>3. Append(w, d)[Len(w) + 1] = d
  BY <1>1, AppendProperties
<1>4. \A i \in 1 .. Len(w) : Append(w, d)[i] = w[i]
  BY <1>1, AppendProperties
<1> DEFINE v == Append(w, d)
<1>5. /\ v \in Seq(STRING) /\ Len(v) = Len(w) + 1 /\ v[Len(w) + 1] = d
      /\ \A i \in 1 .. Len(w) : v[i] = w[i]
  BY <1>2, <1>3, <1>4
<1> HIDE DEF v
<1>6. v[Len(v)] = d /\ \A i \in 1 .. Len(v) : i = Len(v) \/ (i \in 1 .. Len(w) /\ v[i] = w[i])
  BY <1>1, <1>5
<1>7. More(v, w, d)
  BY <1>1, <1>5, <1>6 DEF Text, More
<1>8. QED
  BY <1>7 DEF v

\* Nothing follows the end that a literal was.
LEMMA FollowsStopped ==
  ASSUME NEW c \in Text, NEW w \in Text, NEW d, d \in STRING, Follows(c, w), Stopped(w)
  PROVE  Follows(c, Append(w, d)) /\ Stopped(Append(w, d))
<1> DEFINE v == Append(w, d)
<1>1. /\ v \in Text /\ Len(w) \in Nat /\ Len(v) \in Nat /\ Len(v) = Len(w) + 1 /\ v[Len(v)] = d
      /\ \A i \in 1 .. Len(v) : i = Len(v) \/ (i \in 1 .. Len(w) /\ v[i] = w[i])
  <2>1. More(v, w, d)
    BY OneWordMore
  <2> HIDE DEF v
  <2>2. QED
    BY <2>1 DEF More
<1>2. PICK m \in 1 .. Len(w) : w[m] \in Quotes
  BY DEF Stopped
<1> HIDE DEF v
<1>3. v[m] \in Quotes /\ v[m] # "(" /\ m \in 1 .. Len(v)
  BY <1>1, <1>2 DEF Quotes
<1>4. \A k \in 0 .. Len(v) : Straight(v, k) => k \in 0 .. Len(w) /\ Straight(w, k) /\ k # Len(w) /\ v[k + 1] = w[k + 1]
  <2>1. ASSUME NEW k \in 0 .. Len(v), Straight(v, k) PROVE k < m
    BY <1>1, <1>3, <2>1 DEF Straight
  <2>2. ASSUME NEW k \in 0 .. Len(v), k < m PROVE k \in 0 .. Len(w) /\ k # Len(w) /\ k + 1 \in 1 .. Len(w) /\ k + 1 # Len(v)
    BY <1>1, <2>2
  <2>3. ASSUME NEW k \in 0 .. Len(v), Straight(v, k), k < m PROVE Straight(w, k)
    <3>1. \A i \in 1 .. k : i \in 1 .. Len(v) /\ i # Len(v)
      BY <1>1, <2>3
    <3>2. QED
      BY <1>1, <2>3, <3>1 DEF Straight
  <2>4. \A i \in 1 .. Len(w) : i \in 1 .. Len(v) /\ i # Len(v)
    BY <1>1
  <2>5. \A i \in 1 .. Len(w) : v[i] = w[i]
    BY <1>1, <2>4
  <2>6. QED
    BY <2>1, <2>2, <2>3, <2>5
<1>5. \A k \in 1 .. Len(v) : Brackets(v, k - 1) => k \in 1 .. Len(w) /\ Brackets(w, k - 1) /\ v[k] = w[k]
  BY <1>1, <1>3 DEF Brackets
<1>6. ~Brackets(v, Len(v))
  BY <1>3 DEF Brackets
<1>7. \A k \in 0 .. Len(v) : Straight(v, k) => k <= Len(c) /\ \A i \in 1 .. k : c[i] = v[i]
  BY <1>1, <1>4 DEF Follows
<1>8. \A k \in 0 .. Len(v) : Straight(v, k) /\ (k = Len(v) \/ v[k + 1] \in Quotes) => Len(c) = k
  BY <1>1, <1>4 DEF Follows
<1>9. \A k \in 1 .. Len(v) : Brackets(v, k - 1) /\ v[k] \notin Punctuation /\ v[k] \notin Quotes =>
        1 <= Len(c) /\ c[1] = v[k]
  BY <1>5 DEF Follows
<1>10. Follows(c, v) /\ Stopped(v)
  BY <1>3, <1>6, <1>7, <1>8, <1>9 DEF Follows, Stopped
<1>11. QED
  BY <1>10 DEF v

\* A literal is not read, and neither is a bracket or an operator.
LEMMA FollowsUnread ==
  ASSUME NEW c \in Text, NEW w \in Text, NEW d, d \in STRING, Follows(c, w), ~Stopped(w),
         d \in Quotes \/ d \in Punctuation
  PROVE  /\ Follows(c, Append(w, d))
         /\ Stopped(Append(w, d)) <=> d \in Quotes
<1> DEFINE v == Append(w, d)
<1>1. /\ v \in Text /\ Len(w) \in Nat /\ Len(v) \in Nat /\ Len(v) = Len(w) + 1 /\ v[Len(v)] = d
      /\ \A i \in 1 .. Len(v) : i = Len(v) \/ (i \in 1 .. Len(w) /\ v[i] = w[i])
  <2>1. More(v, w, d)
    BY OneWordMore
  <2> HIDE DEF v
  <2>2. QED
    BY <2>1 DEF More
<1>2. \A k \in 1 .. Len(w) : w[k] \notin Quotes
  BY DEF Stopped
<1> HIDE DEF v
<1>0. Len(v) \in 1 .. Len(v) /\ (v[Len(v)] \in Quotes \/ v[Len(v)] \in Punctuation)
  <2>1. Len(v) \in 1 .. Len(v)
    BY <1>1
  <2>2. v[Len(v)] = d
    BY <1>1
  <2>3. QED
    BY <2>1, <2>2, Zenon
<1>3. \A k \in 0 .. Len(v) : Straight(v, k) => k \in 0 .. Len(w) /\ Straight(w, k)
  <2>1. ~Straight(v, Len(v))
    BY <1>0 DEF Straight
  <2>2. \A k \in 0 .. Len(w) : Straight(v, k) => Straight(w, k)
    <3>1. \A i \in 1 .. Len(w) : i \in 1 .. Len(v) /\ i # Len(v)
      BY <1>1
    <3>2. QED
      BY <1>1, <3>1 DEF Straight
  <2>3. QED
    BY <1>1, <2>1, <2>2
<1>4. \A k \in 0 .. Len(v) : Straight(v, k) => k <= Len(c) /\ \A i \in 1 .. k : c[i] = v[i]
  BY <1>1, <1>3 DEF Follows
<1>5. ASSUME NEW k \in 0 .. Len(v), Straight(v, k), k = Len(v) \/ v[k + 1] \in Quotes
      PROVE  Len(c) = k
  <2>1. k \in 0 .. Len(w) /\ Straight(w, k) /\ v[k + 1] \in Quotes
    <3>1. k \in 0 .. Len(w) /\ Straight(w, k)
      BY <1>3, <1>5
    <3>2. k # Len(v)
      BY <1>1, <3>1
    <3>3. QED
      BY <1>5, <3>1, <3>2
  <2>2. k = Len(w)
    <3>1. ASSUME k # Len(w) PROVE FALSE
      <4>1. k + 1 \in 1 .. Len(w) /\ k + 1 \in 1 .. Len(v) /\ k + 1 # Len(v)
        BY <1>1, <2>1, <3>1
      <4>2. v[k + 1] = w[k + 1]
        BY <1>1, <4>1
      <4>3. QED
        BY <1>2, <2>1, <4>1, <4>2
    <3>2. QED
      BY <3>1
  <2>3. QED
    BY <2>1, <2>2 DEF Follows
<1>6. ASSUME NEW k \in 1 .. Len(v), Brackets(v, k - 1), v[k] \notin Punctuation, v[k] \notin Quotes
      PROVE  1 <= Len(c) /\ c[1] = v[k]
  <2>1. k \in 1 .. Len(w) /\ v[k] = w[k] /\ Brackets(w, k - 1)
    BY <1>1, <1>6 DEF Brackets
  <2>2. QED
    BY <1>6, <2>1 DEF Follows
<1>7. Brackets(v, Len(v)) => Len(c) = 0
  BY <1>1 DEF Follows, Brackets
<1>8. Stopped(v) <=> d \in Quotes
  <2>1. d \in Quotes => Stopped(v)
    BY <1>0, <1>1 DEF Stopped
  <2>2. ASSUME Stopped(v) PROVE d \in Quotes
    <3>1. PICK k \in 1 .. Len(v) : v[k] \in Quotes
      BY <2>2 DEF Stopped
    <3>2. QED
      BY <1>1, <1>2, <3>1
  <2>3. QED
    BY <2>1, <2>2
<1>9. Follows(c, v)
  BY <1>4, <1>5, <1>6, <1>7 DEF Follows
<1>10. QED
  BY <1>8, <1>9 DEF v

\* Another word is read by both.
LEMMA FollowsWord ==
  ASSUME NEW c \in Text, NEW w \in Text, NEW d, d \in STRING, Follows(c, w), ~Stopped(w),
         d \notin Quotes, d \notin Punctuation
  PROVE  Follows(Append(c, d), Append(w, d)) /\ ~Stopped(Append(w, d))
<1> DEFINE v == Append(w, d)
           e == Append(c, d)
<1>1. /\ v \in Text /\ Len(w) \in Nat /\ Len(v) \in Nat /\ Len(v) = Len(w) + 1 /\ v[Len(v)] = d
      /\ \A i \in 1 .. Len(v) : i = Len(v) \/ (i \in 1 .. Len(w) /\ v[i] = w[i])
  <2>1. More(v, w, d)
    BY OneWordMore
  <2> HIDE DEF v
  <2>2. QED
    BY <2>1 DEF More
<1>2. /\ e \in Text /\ Len(c) \in Nat /\ Len(e) \in Nat /\ Len(e) = Len(c) + 1 /\ e[Len(e)] = d
      /\ \A i \in 1 .. Len(e) : i = Len(e) \/ (i \in 1 .. Len(c) /\ e[i] = c[i])
  <2>1. More(e, c, d)
    BY OneWordMore
  <2> HIDE DEF e
  <2>2. QED
    BY <2>1 DEF More
<1>3. \A k \in 1 .. Len(w) : w[k] \notin Quotes
  BY DEF Stopped
<1>4. ~Stopped(v)
  BY <1>1, <1>3 DEF Stopped
<1> HIDE DEF v, e
<1>5. ASSUME NEW k \in 0 .. Len(v), Straight(v, k)
      PROVE  /\ k <= Len(e) /\ \A i \in 1 .. k : e[i] = v[i]
             /\ k = Len(v) => Len(e) = k
  <2>1. CASE k = Len(v)
    <3>1. Straight(w, Len(w))
      BY <1>1, <1>5, <2>1 DEF Straight
    <3>2. Len(c) = Len(w) /\ \A i \in 1 .. Len(w) : c[i] = w[i]
      BY <1>1, <3>1 DEF Follows
    <3>3. Len(e) = k /\ e[k] = v[k]
      BY <1>1, <1>2, <2>1, <3>2
    <3>4. \A i \in 1 .. k : i = k \/ (i \in 1 .. Len(w) /\ i \in 1 .. Len(c) /\ i # Len(v) /\ i # Len(e))
      BY <1>1, <1>2, <2>1, <3>2
    <3>5. \A i \in 1 .. k : e[i] = v[i]
      BY <1>1, <1>2, <3>2, <3>3, <3>4
    <3>6. QED
      BY <3>3, <3>5
  <2>2. CASE k # Len(v)
    <3>1. k \in 0 .. Len(w) /\ Straight(w, k)
      BY <1>1, <1>5, <2>2 DEF Straight
    <3>2. k <= Len(c) /\ \A i \in 1 .. k : c[i] = w[i]
      BY <3>1 DEF Follows
    <3>3. QED
      BY <1>1, <1>2, <2>2, <3>1, <3>2
  <2>3. QED
    BY <2>1, <2>2
<1>6. \A k \in 0 .. Len(v) : v[k + 1] \in Quotes => k = Len(v)
  BY <1>1, <1>4 DEF Stopped
<1>7. ASSUME NEW k \in 1 .. Len(v), Brackets(v, k - 1), v[k] \notin Punctuation, v[k] \notin Quotes
      PROVE  1 <= Len(e) /\ e[1] = v[k]
  <2>1. CASE k = Len(v)
    <3>1. Brackets(w, Len(w))
      BY <1>1, <1>7, <2>1 DEF Brackets
    <3>2. Len(c) = 0
      BY <3>1 DEF Follows
    <3>3. Len(e) = 1
      BY <1>2, <3>2
    <3>4. e[Len(e)] = d /\ v[Len(v)] = d
      BY <1>1, <1>2
    <3>5. e[1] = v[k]
      BY <2>1, <3>3, <3>4, Zenon
    <3>6. QED
      BY <3>3, <3>5
  <2>2. CASE k # Len(v)
    <3>1. k \in 1 .. Len(w) /\ v[k] = w[k] /\ Brackets(w, k - 1)
      BY <1>1, <1>7, <2>2 DEF Brackets
    <3>2. 1 <= Len(c) /\ c[1] = w[k]
      BY <1>7, <3>1 DEF Follows
    <3>3. 1 \in 1 .. Len(e) /\ 1 # Len(e)
      BY <1>2, <3>2
    <3>4. QED
      BY <1>2, <3>1, <3>2, <3>3
  <2>3. QED
    BY <2>1, <2>2
<1>8. ~Brackets(v, Len(v))
  <2>1. d # "("
    BY DEF Punctuation
  <2>2. QED
    BY <1>1, <2>1 DEF Brackets
<1>9. Follows(e, v)
  BY <1>5, <1>6, <1>7, <1>8 DEF Follows
<1>10. QED
  BY <1>4, <1>9 DEF v, e

\* What the server has read only grows.
LEMMA WordsGrow ==
  ASSUME NEW text \in Text, NEW n \in 0 .. Len(text), NEW m \in n .. Len(text)
  PROVE  /\ Len(Outside(Prefix(text, n)).words) <= Len(Outside(Prefix(text, m)).words)
         /\ \A i \in 1 .. Len(Outside(Prefix(text, n)).words) :
              Outside(Prefix(text, m)).words[i] = Outside(Prefix(text, n)).words[i]
<1> DEFINE words(k) == Outside(Prefix(text, k)).words
           Grown(k) == Len(words(n)) <= Len(words(k)) /\ \A i \in 1 .. Len(words(n)) : words(k)[i] = words(n)[i]
           T == {k \in n .. Len(text) : ~Grown(k)}
<1>1. Len(text) \in Nat /\ \A i \in 1 .. Len(text) : text[i] \in STRING
  BY LenProperties, ElementOfSeq DEF Text
<1>2. \A k \in 0 .. Len(text) : words(k) \in Text /\ Len(words(k)) \in Nat
  BY <1>1, OutsideType, LenProperties DEF LexState, Text
<1>3. ASSUME NEW k \in 1 .. Len(text) PROVE words(k) = words(k - 1) \/ words(k) = Append(words(k - 1), text[k])
  <2>1. \A s : \A c : Lex(s, c).words = s.words \/ Lex(s, c).words = Append(s.words, c)
    <3> SUFFICES ASSUME NEW s, NEW c PROVE Lex(s, c).words = s.words \/ Lex(s, c).words = Append(s.words, c)
      OBVIOUS
    <3>1. QED
      BY DEF Lex
  <2>2. QED
    BY <2>1, OutsideStep
<1>4. CASE T # {}
  <2>1. T \in SUBSET Nat
    BY <1>1
  <2>2. PICK k \in T : \A j \in T : k <= j
    BY <1>4, <2>1, LeastOne, Zenon
  <2>3. k # n
    BY <1>2, <2>2
  <2>4. k \in 1 .. Len(text) /\ k - 1 \in n .. Len(text) /\ k - 1 \in 0 .. Len(text) /\ k \in 0 .. Len(text)
    BY <1>1, <2>2, <2>3
  <2>5. Grown(k - 1)
    <3> HIDE DEF T, Grown
    <3>1. ~(k <= k - 1)
      BY <1>1, <2>4
    <3>2. k - 1 \notin T
      BY <2>2, <3>1
    <3>3. QED
      BY <2>4, <3>2 DEF T
  <2>6. PICK u : u = words(k - 1)
    OBVIOUS
  <2>7. PICK v : v = words(k)
    OBVIOUS
  <2>8. PICK w : w = words(n)
    OBVIOUS
  <2>9. u \in Text /\ v \in Text /\ Len(u) \in Nat /\ Len(v) \in Nat /\ Len(w) \in Nat
    BY <1>1, <1>2, <2>4, <2>6, <2>7, <2>8
  <2>10. v = u \/ v = Append(u, text[k])
    BY <1>3, <2>4, <2>6, <2>7
  <2>11. Len(w) <= Len(u) /\ \A i \in 1 .. Len(w) : u[i] = w[i]
    BY <2>5, <2>6, <2>8
  <2>12. Len(w) <= Len(v) /\ \A i \in 1 .. Len(w) : v[i] = w[i]
    <3>1. CASE v = u
      BY <2>11, <3>1
    <3>2. CASE v = Append(u, text[k])
      <4>1. More(v, u, text[k])
        BY <1>1, <2>4, <2>9, <3>2, OneWordMore
      <4>2. Len(v) = Len(u) + 1 /\ \A i \in 1 .. Len(v) : i = Len(v) \/ v[i] = u[i]
        BY <4>1 DEF More
      <4>3. \A i \in 1 .. Len(w) : i \in 1 .. Len(v) /\ i # Len(v)
        BY <2>9, <2>11, <4>2
      <4>4. QED
        BY <2>9, <2>11, <4>2, <4>3
    <3>3. QED
      BY <2>10, <3>1, <3>2
  <2>13. QED
    BY <2>2, <2>7, <2>8, <2>12
<1>5. QED
  BY <1>4

\* In a text of one statement a semicolon is the last that is not a comment.
LEMMA OneEnds ==
  ASSUME NEW text \in Text, One(text), NEW n \in 1 .. Len(text), text[n] = Semicolon,
         Outer(Outside(Prefix(text, n - 1))), NEW m \in n - 1 .. Len(text)
  PROVE  Outside(Prefix(text, m)).words = Outside(text).words
<1>1. Len(text) \in Nat /\ n - 1 \in 0 .. Len(text) /\ m \in 0 .. Len(text) /\ Len(text) \in 0 .. Len(text)
      /\ Len(text) \in m .. Len(text)
  BY WholePrefix
<1> DEFINE u == Outside(Prefix(text, n - 1)).words
           v == Outside(Prefix(text, m)).words
           w == Outside(text).words
<1>2. w = u
  BY Zenon DEF One, Prefix
<1>3. w = Outside(Prefix(text, Len(text))).words
  BY WholePrefix
<1>4. Len(u) <= Len(v) /\ \A i \in 1 .. Len(u) : v[i] = u[i]
  BY <1>1, WordsGrow
<1>5. Len(v) <= Len(w)
  BY <1>1, <1>3, WordsGrow
<1>6. u \in Text /\ v \in Text /\ Len(u) \in Nat /\ Len(v) \in Nat
  BY <1>1, OutsideType, LenProperties DEF LexState, Text
<1> HIDE DEF u, v, w
<1>7. Len(v) = Len(u)
  BY <1>2, <1>4, <1>5, <1>6
<1>8. v = u
  BY <1>4, <1>6, <1>7, SeqEqual DEF Text
<1>9. v = w
  BY <1>2, <1>8
<1>10. QED
  BY <1>9 DEF v, w

\* The states of the two readers at the same place of a text whose words are final.
Alike(s, x, final) ==
  /\ s \in ScanState /\ x \in LexState
  /\ Follows(s.words, x.words)
  /\ ~s.over => s.depth = x.depth /\ s.line = x.line /\ x.quote = {} /\ ~Stopped(x.words)
  /\ s.over => s.depth = 0 /\ ~s.line /\ (Stopped(x.words) \/ x.words = final)

\* A token read by both leaves them alike.
LEMMA AlikeStep ==
  ASSUME NEW s, NEW x, NEW final, Alike(s, x, final), NEW c, c \in STRING,
         x.words = final /\ s.over => Lex(x, c).words = final,
         c = Semicolon /\ Outer(x) => x.words = final
  PROVE  Alike(Read(s, c), Lex(x, c), final)
<1>1. s \in ScanState /\ x \in LexState /\ Follows(s.words, x.words) /\ Lex(x, c) \in LexState
  BY LexType DEF Alike
<1>2. /\ s.words \in Text /\ x.words \in Text /\ s.depth \in Int /\ s.line \in BOOLEAN /\ s.over \in BOOLEAN
      /\ x.depth \in Int /\ x.line \in BOOLEAN
  BY <1>1 DEF ScanState, LexState
<1>3. CASE s.over
  <2>1. s.depth = 0 /\ ~s.line /\ (Stopped(x.words) \/ x.words = final)
    BY <1>3 DEF Alike
  <2>2. Read(s, c) = s
    BY <1>3, <2>1 DEF Read
  <2>3. Lex(x, c).words = x.words \/ Lex(x, c).words = Append(x.words, c)
    BY DEF Lex
  <2>4. Follows(s.words, Lex(x, c).words) /\ (Stopped(Lex(x, c).words) \/ Lex(x, c).words = final)
    <3>1. CASE Lex(x, c).words = x.words
      BY <1>1, <2>1, <3>1
    <3>2. CASE x.words = final
      BY <1>1, <1>3, <3>2
    <3>3. CASE Stopped(x.words) /\ Lex(x, c).words = Append(x.words, c)
      BY <1>1, <1>2, <3>3, FollowsStopped
    <3>4. QED
      BY <2>1, <2>3, <3>1, <3>2, <3>3
  <2>5. QED
    BY <1>1, <1>3, <2>1, <2>2, <2>4 DEF Alike
<1>4. CASE ~s.over
  <2>1. s.depth = x.depth /\ s.line = x.line /\ x.quote = {} /\ ~Stopped(x.words)
    BY <1>4 DEF Alike
  <2>2. CASE s.depth # 0
    <3>1. /\ Read(s, c) = [s EXCEPT !.depth = IF c = "*/" THEN @ - 1 ELSE IF c = "/*" THEN @ + 1 ELSE @]
          /\ Lex(x, c) = [x EXCEPT !.depth = IF c = "/*" THEN @ + 1 ELSE IF c = "*/" THEN @ - 1 ELSE @]
      BY <2>1, <2>2 DEF Read, Lex
    <3>2. Read(s, c).depth = Lex(x, c).depth /\ Read(s, c).depth \in Int
      BY <1>1, <1>2, <2>1, <3>1 DEF ScanState, LexState
    <3>3. /\ Read(s, c).line = s.line /\ Read(s, c).over = s.over /\ Read(s, c).words = s.words
          /\ Lex(x, c).line = x.line /\ Lex(x, c).quote = x.quote /\ Lex(x, c).words = x.words
      BY <1>1, <3>1 DEF ScanState, LexState
    <3>4. Read(s, c) \in ScanState
      BY <1>1, <1>2, <3>1 DEF ScanState
    <3>5. QED
      BY <1>1, <1>4, <2>1, <3>2, <3>3, <3>4 DEF Alike
  <2>3. CASE s.depth = 0 /\ s.line
    <3>1. Read(s, c) = [s EXCEPT !.line = c # EndOfLine] /\ Lex(x, c) = [x EXCEPT !.line = c # EndOfLine]
      BY <2>1, <2>3 DEF Read, Lex
    <3>2. /\ Read(s, c).depth = s.depth /\ Read(s, c).over = s.over /\ Read(s, c).words = s.words
          /\ Lex(x, c).depth = x.depth /\ Lex(x, c).quote = x.quote /\ Lex(x, c).words = x.words
          /\ Read(s, c).line = (c # EndOfLine) /\ Lex(x, c).line = (c # EndOfLine)
      BY <1>1, <3>1 DEF ScanState, LexState
    <3>3. Read(s, c) \in ScanState
      BY <1>1, <1>2, <3>1 DEF ScanState
    <3>4. QED
      BY <1>1, <1>4, <2>1, <3>2, <3>3 DEF Alike
  <2>4. CASE s.depth = 0 /\ ~s.line /\ c \in {"/*", "--"}
    <3>1. \/ Read(s, c) = [s EXCEPT !.depth = 1] /\ Lex(x, c) = [x EXCEPT !.depth = 1]
          \/ Read(s, c) = [s EXCEPT !.line = TRUE] /\ Lex(x, c) = [x EXCEPT !.line = TRUE]
      BY <1>4, <2>1, <2>4 DEF Read, Lex, EndOfLine
    <3>2. /\ Read(s, c).depth = Lex(x, c).depth /\ Read(s, c).line = Lex(x, c).line
          /\ Read(s, c).over = s.over /\ Read(s, c).words = s.words
          /\ Lex(x, c).quote = x.quote /\ Lex(x, c).words = x.words
      BY <1>1, <2>1, <3>1 DEF ScanState, LexState
    <3>3. Read(s, c) \in ScanState
      <4>1. CASE Read(s, c) = [s EXCEPT !.depth = 1]
        BY <1>1, <1>2, <4>1 DEF ScanState
      <4>2. CASE Read(s, c) = [s EXCEPT !.line = TRUE]
        BY <1>1, <1>2, <4>2 DEF ScanState
      <4>3. QED
        BY <3>1, <4>1, <4>2
    <3>4. QED
      BY <1>1, <1>4, <2>1, <3>2, <3>3 DEF Alike
  <2>5. CASE s.depth = 0 /\ ~s.line /\ c = EndOfLine
    <3>1. Read(s, c) = s /\ Lex(x, c) = x
      <4>1. c \in Ignored /\ c # "/*" /\ c # "--" /\ c # "'" /\ c # "$"
        BY <2>5, Zenon DEF Ignored, EndOfLine
      <4>2. QED
        BY <1>4, <2>1, <2>5, <4>1 DEF Read, Lex
    <3>2. QED
      BY <3>1
  <2>6. CASE s.depth = 0 /\ ~s.line /\ c = Semicolon
    <3>1. c \in Ignored /\ c \notin {EndOfLine, "*/", "("} /\ c # "/*" /\ c # "--" /\ c # "'" /\ c # "$"
      BY <2>6, Zenon DEF Ignored, EndOfLine, Semicolon
    <3>2. Read(s, c) = [s EXCEPT !.over = TRUE]
      BY <1>4, <2>6, <3>1 DEF Read
    <3>3. Lex(x, c) = x
      BY <2>1, <2>6, <3>1 DEF Lex
    <3>4. x.words = final
      BY <2>1, <2>6 DEF Outer
    <3>5. Read(s, c) \in ScanState /\ Read(s, c).over /\ Read(s, c).depth = 0 /\ ~Read(s, c).line /\ Read(s, c).words = s.words
      BY <1>1, <1>2, <2>6, <3>2 DEF ScanState
    <3>6. QED
      BY <1>1, <3>3, <3>4, <3>5 DEF Alike
  <2>7. CASE s.depth = 0 /\ ~s.line /\ c \in Punctuation
    <3>1. c \notin Ignored /\ c \in {EndOfLine, "*/", "("} /\ c # "/*" /\ c # "--" /\ c # "'" /\ c # "$"
      BY <2>7, Zenon DEF Ignored, EndOfLine, Semicolon, Punctuation
    <3>2. Read(s, c) = s
      BY <2>7, <3>1 DEF Read
    <3>3. Lex(x, c) = [x EXCEPT !.words = Append(@, c)]
      BY <2>1, <2>7, <3>1 DEF Lex
    <3>4. c \notin Quotes
      BY <2>7 DEF Punctuation, Quotes
    <3>5. Follows(s.words, Append(x.words, c)) /\ ~Stopped(Append(x.words, c))
      BY <1>1, <1>2, <2>1, <2>7, <3>4, FollowsUnread
    <3>6. Lex(x, c).depth = x.depth /\ Lex(x, c).line = x.line /\ Lex(x, c).quote = x.quote /\ Lex(x, c).words = Append(x.words, c)
      BY <1>1, <3>3 DEF LexState
    <3>7. QED
      BY <1>1, <1>4, <2>1, <3>2, <3>5, <3>6 DEF Alike
  <2>8. CASE s.depth = 0 /\ ~s.line /\ c \in Quotes
    <3>1. c \notin Ignored /\ c \notin {EndOfLine, "*/", "("} /\ c # "/*" /\ c # "--"
      BY <2>8, Zenon DEF Ignored, EndOfLine, Semicolon, Quotes
    <3>2. Read(s, c) = [s EXCEPT !.over = TRUE]
      BY <1>4, <2>8, <3>1 DEF Read
    <3>3. Lex(x, c).words = Append(x.words, c)
      BY <1>1, <2>1, <2>8, <3>1 DEF Lex, LexState
    <3>4. Follows(s.words, Append(x.words, c)) /\ Stopped(Append(x.words, c))
      BY <1>1, <1>2, <2>1, <2>8, FollowsUnread
    <3>5. Read(s, c) \in ScanState /\ Read(s, c).over /\ Read(s, c).depth = 0 /\ ~Read(s, c).line /\ Read(s, c).words = s.words
      BY <1>1, <1>2, <2>8, <3>2 DEF ScanState
    <3>6. QED
      BY <1>1, <3>3, <3>4, <3>5 DEF Alike
  <2>9. CASE /\ s.depth = 0 /\ ~s.line /\ c \notin {"/*", "--"} /\ c # EndOfLine /\ c # Semicolon
             /\ c \notin Punctuation /\ c \notin Quotes
    <3>1. /\ c \notin Ignored /\ c \notin {EndOfLine, "*/", "("} /\ c # "/*" /\ c # "--" /\ c # "'" /\ c # "$"
          /\ c \notin Quotes \cup {Semicolon}
      BY <2>9, Zenon DEF Ignored, Punctuation, Quotes
    <3>2. Read(s, c) = [s EXCEPT !.words = Append(@, c)]
      BY <1>4, <2>9, <3>1 DEF Read
    <3>3. Lex(x, c) = [x EXCEPT !.words = Append(@, c)]
      BY <2>1, <2>9, <3>1 DEF Lex
    <3>4. Follows(Append(s.words, c), Append(x.words, c)) /\ ~Stopped(Append(x.words, c))
      BY <1>1, <1>2, <2>1, <2>9, FollowsWord
    <3>5. Lex(x, c).depth = x.depth /\ Lex(x, c).line = x.line /\ Lex(x, c).quote = x.quote /\ Lex(x, c).words = Append(x.words, c)
      BY <1>1, <3>3 DEF LexState
    <3>6. Append(s.words, c) \in Text
      BY <1>2, OneWordMore DEF More
    <3>7. /\ Read(s, c) \in ScanState /\ Read(s, c).depth = s.depth /\ Read(s, c).line = s.line
          /\ Read(s, c).over = s.over /\ Read(s, c).words = Append(s.words, c)
      BY <1>1, <1>2, <3>2, <3>6 DEF ScanState
    <3>8. QED
      BY <1>1, <1>4, <2>1, <3>4, <3>5, <3>7 DEF Alike
  <2>10. QED
    BY <1>2, <2>2, <2>3, <2>4, <2>5, <2>6, <2>7, <2>8, <2>9
<1>5. QED
  BY <1>2, <1>3, <1>4

\* The plugin's words of a text of one statement.
LEMMA KeywordsAre ==
  ASSUME NEW text \in Text, One(text)
  PROVE  \E c \in Text : /\ Follows(c, Outside(text).words)
                        /\ \A n : LeadingKeywords(text, n) = Keys(c, n)
<1>1. Len(text) \in Nat /\ \A i \in 1 .. Len(text) : text[i] \in STRING
  BY LenProperties, ElementOfSeq DEF Text
<1>2. PICK f : /\ IsScan(f, text, Len(text))
               /\ \A n : LeadingKeywords(text, n) = Keys(f[Len(text)].words, n)
  BY <1>1, ScanIs
<1>3. f[0] = Unread /\ \A k \in 1 .. Len(text) : f[k] = Read(f[k - 1], text[k])
  BY <1>1, <1>2 DEF IsScan
<1> DEFINE final == Outside(text).words
           x(k) == Outside(Prefix(text, k))
           A(k) == Alike(f[k], x(k), final)
           T == {k \in 0 .. Len(text) : ~A(k)}
<1>4. ASSUME T # {} PROVE FALSE
  <2>1. T \in SUBSET Nat
    BY <1>1
  <2>2. PICK k \in T : \A j \in T : k <= j
    BY <1>4, <2>1, LeastOne, Zenon
  <2>3. CASE k = 0
    <3>1. x(0) = Unlexed /\ f[0] = Unread /\ x(0) \in LexState
      BY <1>1, <1>3, OutsideNothing, OutsideType
    <3>2. <<>> \in Text /\ Len(<<>>) = 0
      BY EmptySeq DEF Text
    <3>3. Unread \in ScanState
      BY <3>2 DEF Unread, ScanState
    <3>4. Follows(<<>>, <<>>) /\ ~Stopped(<<>>)
      BY <3>2 DEF Follows, Stopped
    <3>5. /\ Unread.words = <<>> /\ Unread.depth = 0 /\ Unread.line = FALSE /\ Unread.over = FALSE
          /\ Unlexed.words = <<>> /\ Unlexed.depth = 0 /\ Unlexed.line = FALSE /\ Unlexed.quote = {}
      BY DEF Unread, Unlexed
    <3>6. Alike(Unread, Unlexed, final)
      BY <3>1, <3>3, <3>4, <3>5 DEF Alike
    <3>7. A(k)
      BY <2>3, <3>1, <3>6
    <3>8. QED
      BY <2>2, <3>7
  <2>4. CASE k # 0
    <3>1. k \in 1 .. Len(text) /\ k - 1 \in 0 .. Len(text) /\ k \in k - 1 .. Len(text) /\ k \in 0 .. Len(text)
          /\ k - 1 \in k - 1 .. Len(text) /\ Len(text) \in k .. Len(text) /\ Len(text) \in 0 .. Len(text)
      BY <1>1, <2>2, <2>4
    <3>2. A(k - 1)
      <4> HIDE DEF T, A
      <4>1. ~(k <= k - 1)
        BY <1>1, <3>1
      <4>2. k - 1 \notin T
        BY <2>2, <4>1
      <4>3. QED
        BY <3>1, <4>2 DEF T
    <3>3. f[k] = Read(f[k - 1], text[k]) /\ x(k) = Lex(x(k - 1), text[k]) /\ text[k] \in STRING
      BY <1>1, <1>3, <3>1, OutsideStep
    <3>4. ASSUME x(k - 1).words = final PROVE x(k).words = final
      <4>1. Len(x(k - 1).words) <= Len(x(k).words) /\ \A i \in 1 .. Len(x(k - 1).words) : x(k).words[i] = x(k - 1).words[i]
        BY <3>1, WordsGrow
      <4>2. Len(x(k).words) <= Len(final)
        BY <3>1, WordsGrow, WholePrefix
      <4>3. x(k).words \in Text /\ Len(x(k).words) \in Nat /\ x(k - 1).words \in Text /\ Len(x(k - 1).words) \in Nat
        BY <3>1, OutsideType, LenProperties DEF LexState, Text
      <4> HIDE DEF x, final
      <4>4. Len(x(k).words) = Len(x(k - 1).words)
        BY <3>4, <4>1, <4>2, <4>3
      <4>5. x(k).words = x(k - 1).words
        BY <4>1, <4>3, <4>4, SeqEqual DEF Text
      <4>6. QED
        BY <3>4, <4>5
    <3>5. ASSUME text[k] = Semicolon, Outer(x(k - 1)) PROVE x(k - 1).words = final
      BY <3>1, <3>5, OneEnds
    <3> HIDE DEF x, final
    <3>6. Alike(Read(f[k - 1], text[k]), Lex(x(k - 1), text[k]), final)
      BY <3>2, <3>3, <3>4, <3>5, AlikeStep
    <3>7. A(k)
      BY <3>3, <3>6
    <3>8. QED
      BY <2>2, <3>7
  <2>5. QED
    BY <2>3, <2>4
<1>5. Alike(f[Len(text)], Outside(text), final)
  <2>1. x(Len(text)) = Outside(text)
    BY WholePrefix
  <2>0. Len(text) \in 0 .. Len(text)
    BY <1>1
  <2>2. T = {}
    <3> HIDE DEF T
    <3>1. QED
      BY <1>4
  <2>3. A(Len(text))
    <3> HIDE DEF A
    <3>1. QED
      BY <2>0, <2>2
  <2>4. QED
    BY <2>1, <2>3
<1>6. f[Len(text)].words \in Text /\ Follows(f[Len(text)].words, final)
  BY <1>5 DEF Alike, ScanState
<1>7. QED
  BY <1>2, <1>6

-----------------------------------------------------------------------------
(* From the words to what the plugin makes of them. *)

\* The first words, one by one.
LEMMA KeysAre ==
  ASSUME NEW c \in Text, NEW n \in Nat
  PROVE  /\ Keys(c, n) \in Text /\ Len(Keys(c, n)) \in Nat /\ Len(c) \in Nat
         /\ Len(Keys(c, n)) = IF Len(c) < n THEN Len(c) ELSE n
         /\ \A k \in 1 .. n : Word(Keys(c, n), k) = Word(c, k)
<1>1. Len(c) \in Nat
  BY LenProperties DEF Text
<1>2. PICK m \in 0 .. Len(c) : m = IF Len(c) < n THEN Len(c) ELSE n
  BY <1>1
<1>3. Keys(c, n) = Prefix(c, m)
  BY <1>2 DEF Keys, Prefix
<1>4. Prefix(c, m) \in Text /\ Len(Prefix(c, m)) = m /\ \A i \in 1 .. m : Prefix(c, m)[i] = c[i]
  BY PrefixIs
<1>5. ASSUME NEW k \in 1 .. n PROVE Word(Prefix(c, m), k) = Word(c, k)
  <2>1. CASE k <= Len(c)
    <3>1. k \in 1 .. m /\ k <= Len(Prefix(c, m))
      BY <1>1, <1>2, <1>4, <2>1
    <3>2. QED
      BY <1>4, <2>1, <3>1 DEF Word
  <2>2. CASE ~(k <= Len(c))
    <3>1. ~(k <= Len(Prefix(c, m)))
      BY <1>1, <1>2, <1>4, <2>2
    <3>2. QED
      BY <2>2, <3>1 DEF Word
  <2>3. QED
    BY <2>1, <2>2
<1>6. QED
  BY <1>1, <1>2, <1>3, <1>4, <1>5

\* The words that decide anything.
Keyword == {"BEGIN", "START", "TRANSACTION", "COMMIT", "END", "ROLLBACK", "ABORT", "PREPARE", "PREPARED", "TO", "WORK",
            "SET", "CREATE", "LOCAL", "GLOBAL", "CONSTRAINTS", "TEMP", "TEMPORARY", "TABLE"}

\* The plugin's word and the server's at one place decide alike.
Agree(c, w, k) == \A x \in Keyword : Word(c, k) = x <=> Word(w, k) = x

\* They do where nothing but words comes before, and no bracket or operator stands.
LEMMA AgreeAfter ==
  ASSUME NEW c \in Text, NEW w \in Text, Follows(c, w), NEW k \in Nat \ {0},
         \A i \in 1 .. k - 1 : i <= Len(w) => w[i] \in Keyword, k <= Len(w) => w[k] \notin Punctuation
  PROVE  Agree(c, w, k)
<1>1. Len(w) \in Nat /\ Len(c) \in Nat
  BY LenProperties DEF Text
<1>2. \A x \in Keyword : x \notin Punctuation /\ x \notin Quotes /\ x # NoWord
  BY Zenon DEF Keyword, Punctuation, Quotes, NoWord
<1>3. \A m \in 0 .. Len(w) : m <= k - 1 => Straight(w, m)
  BY <1>1, <1>2 DEF Straight
<1>4. CASE Len(w) < k
  <2>1. Straight(w, Len(w))
    BY <1>1, <1>3, <1>4
  <2>2. Len(c) = Len(w)
    BY <1>1, <2>1 DEF Follows
  <2>3. Word(c, k) = NoWord /\ Word(w, k) = NoWord
    BY <1>1, <1>4, <2>2 DEF Word
  <2>4. QED
    BY <2>3 DEF Agree
<1>5. CASE k <= Len(w) /\ w[k] \in Quotes
  <2>1. k - 1 \in 0 .. Len(w) /\ Straight(w, k - 1) /\ w[(k - 1) + 1] \in Quotes
    BY <1>1, <1>3, <1>5
  <2>2. Len(c) = k - 1
    BY <2>1 DEF Follows
  <2>3. Word(c, k) = NoWord /\ Word(w, k) \in Quotes
    BY <1>1, <1>5, <2>2 DEF Word
  <2>4. QED
    BY <1>2, <2>3 DEF Agree
<1>6. CASE k <= Len(w) /\ w[k] \notin Quotes
  <2>1. Straight(w, k - 1) /\ k \in 1 .. Len(w)
    BY <1>1, <1>3, <1>6
  <2>2. Straight(w, k)
    <3>1. \A i \in 1 .. k : i = k \/ i \in 1 .. k - 1
      BY <1>1
    <3>2. QED
      BY <1>6, <2>1, <3>1 DEF Straight
  <2>3. k <= Len(c) /\ c[k] = w[k]
    BY <1>1, <2>1, <2>2 DEF Follows
  <2>4. QED
    BY <1>6, <2>3 DEF Agree, Word
<1>7. QED
  BY <1>1, <1>4, <1>5, <1>6

\* The verb's place, with the noise word after it.
Skip(c) == IF Word(c, 1) \in EndVerbs /\ Word(c, 2) \in {"WORK", "TRANSACTION"} THEN 2 ELSE 1
ChainedIn(c) == \E k \in Skip(c) + 1 .. 5 : Word(c, k) = "AND" /\ Word(c, k + 1) = "CHAIN"

\* transaction_effect by the words it read.
Taken(c) ==
  LET verb == Word(c, 1)
      second == Word(c, Skip(c) + 1)
  IN  IF verb = "BEGIN" \/ (verb = "START" /\ second = "TRANSACTION") THEN "Opens"
      ELSE IF verb \in {"COMMIT", "ROLLBACK"} /\ second = "PREPARED" THEN "None"
      ELSE IF verb = "ROLLBACK" /\ second = "TO" THEN "None"
      ELSE IF verb \in EndVerbs THEN IF ChainedIn(c) THEN "Chains" ELSE "Closes"
      ELSE IF verb = "PREPARE" /\ second = "TRANSACTION" THEN "Closes"
      ELSE "None"

\* The words after a place.
LEMMA RestIs ==
  ASSUME NEW t \in Text, NEW s \in {1, 2}
  PROVE  \E rest \in Text :
           /\ rest = SubSeq(t, s + 1, Len(t)) /\ Len(rest) \in Nat /\ Len(t) \in Nat
           /\ Len(rest) = IF s <= Len(t) THEN Len(t) - s ELSE 0
           /\ \A i \in 1 .. Len(rest) : rest[i] = t[s + i]
<1> DEFINE rest == SubSeq(t, s + 1, Len(t))
<1>1. Len(t) \in Nat /\ t \in Seq(STRING)
  BY LenProperties DEF Text
<1>2. ASSUME s <= Len(t)
      PROVE  rest \in Seq(STRING) /\ Len(rest) = Len(t) - s /\ \A i \in 1 .. Len(t) - s : rest[i] = t[s + i]
  <2>1. s + 1 \in 1 .. Len(t) + 1 /\ Len(t) \in (s + 1) - 1 .. Len(t)
    BY <1>1, <1>2
  <2>2. rest \in Seq(STRING)
    BY <1>1, <2>1, SubSeqProperties
  <2>3. Len(rest) = Len(t) - s
    BY <1>1, <1>2, <2>1, SubSeqProperties
  <2>4. \A i \in 1 .. Len(t) - s : rest[i] = t[s + i]
    BY <1>1, <1>2, <2>1, SubSeqProperties
  <2>5. QED
    BY <2>2, <2>3, <2>4
<1>3. ASSUME ~(s <= Len(t))
      PROVE  rest \in Seq(STRING) /\ Len(rest) = 0
  <2>1. rest = <<>>
    BY <1>1, <1>3
  <2>2. QED
    BY <2>1, EmptySeq
<1> HIDE DEF rest
<1>4. /\ rest \in Text /\ Len(rest) \in Nat /\ Len(t) \in Nat
      /\ Len(rest) = IF s <= Len(t) THEN Len(t) - s ELSE 0
  BY <1>1, <1>2, <1>3 DEF Text
<1>5. \A i \in 1 .. Len(rest) : rest[i] = t[s + i]
  <2>1. CASE s <= Len(t)
    BY <1>2, <2>1
  <2>2. CASE ~(s <= Len(t))
    BY <1>3, <2>2
  <2>3. QED
    BY <2>1, <2>2
<1>6. QED
  BY <1>4, <1>5 DEF rest

\* What the plugin takes a text for goes by the words it read of it.
LEMMA EffectOfIs ==
  ASSUME NEW text, NEW c \in Text, LeadingKeywords(text, 6) = Keys(c, 6)
  PROVE  EffectOf(text) = Taken(c)
<1> DEFINE t == LeadingKeywords(text, 6)
           s == Skip(c)
<1>1. t \in Text /\ Len(t) \in Nat /\ \A k \in 1 .. 6 : Word(t, k) = Word(c, k)
  BY KeysAre
<1>2. Len(t) = IF Len(c) < 6 THEN Len(c) ELSE 6
  BY KeysAre
<1>3. s \in {1, 2} /\ Len(c) \in Nat
  BY LenProperties DEF Skip, Text
<1>4. Word(t, 1) = Word(c, 1) /\ Word(t, 2) = Word(c, 2)
  BY <1>1
<1> HIDE DEF t, s
<1>5. PICK rest \in Text :
           /\ rest = SubSeq(t, s + 1, Len(t)) /\ Len(rest) \in Nat
           /\ Len(rest) = IF s <= Len(t) THEN Len(t) - s ELSE 0
           /\ \A i \in 1 .. Len(rest) : rest[i] = t[s + i]
  BY <1>1, <1>3, RestIs
<1>6. \A k \in 1 .. 4 : Word(rest, k) = Word(t, s + k)
  BY <1>1, <1>3, <1>5 DEF Word
<1>7. Word(rest, 1) = Word(c, s + 1)
  BY <1>1, <1>3, <1>6
<1>8. (\E k \in 1 .. Len(rest) - 1 : rest[k] = "AND" /\ rest[k + 1] = "CHAIN") <=> ChainedIn(c)
  <2>1. ASSUME NEW k \in 1 .. Len(rest) - 1, rest[k] = "AND", rest[k + 1] = "CHAIN" PROVE ChainedIn(c)
    <3>1. s + k \in s + 1 .. 5 /\ s + k \in 1 .. 6 /\ (s + k) + 1 \in 1 .. 6 /\ s + k <= Len(t) /\ (s + k) + 1 <= Len(t)
      <4>1. k \in Nat /\ 1 <= k /\ k + 1 <= Len(rest) /\ s <= Len(t) /\ Len(rest) = Len(t) - s
        BY <1>1, <1>3, <1>5, <2>1
      <4>2. Len(t) <= 6
        BY <1>2, <1>3
      <4>3. QED
        BY <1>1, <1>3, <4>1, <4>2
    <3>2. k \in 1 .. Len(rest) /\ k + 1 \in 1 .. Len(rest) /\ s + (k + 1) = (s + k) + 1
      BY <1>3, <1>5, <2>1
    <3>3. t[s + k] = "AND" /\ t[(s + k) + 1] = "CHAIN"
      BY <1>5, <2>1, <3>2
    <3>4. Word(c, s + k) = "AND" /\ Word(c, (s + k) + 1) = "CHAIN"
      BY <1>1, <3>1, <3>3 DEF Word
    <3>5. QED
      BY <3>1, <3>4 DEF ChainedIn, s
  <2>2. ASSUME ChainedIn(c) PROVE \E k \in 1 .. Len(rest) - 1 : rest[k] = "AND" /\ rest[k + 1] = "CHAIN"
    <3>1. PICK k \in s + 1 .. 5 : Word(c, k) = "AND" /\ Word(c, k + 1) = "CHAIN"
      BY <2>2 DEF ChainedIn, s
    <3>2. Word(t, k) = "AND" /\ Word(t, k + 1) = "CHAIN"
      BY <1>1, <1>3, <3>1
    <3>3. k + 1 <= Len(t) /\ k <= Len(t) /\ t[k] = "AND" /\ t[k + 1] = "CHAIN"
      BY <1>1, <1>3, <3>1, <3>2 DEF Word, NoWord
    <3>4. k - s \in 1 .. Len(rest) - 1 /\ k - s \in 1 .. Len(rest) /\ (k - s) + 1 \in 1 .. Len(rest)
          /\ s + (k - s) = k /\ s + ((k - s) + 1) = k + 1
      BY <1>1, <1>3, <1>5, <3>1, <3>3
    <3>5. rest[k - s] = "AND" /\ rest[(k - s) + 1] = "CHAIN"
      BY <1>5, <3>3, <3>4
    <3>6. QED
      BY <3>4, <3>5
  <2>3. QED
    BY <2>1, <2>2
<1>9. rest = SubSeq(t, IF Word(t, 1) \in EndVerbs /\ Word(t, 2) \in {"WORK", "TRANSACTION"} THEN 3 ELSE 2, Len(t))
  <2>1. s = IF Word(t, 1) \in EndVerbs /\ Word(t, 2) \in {"WORK", "TRANSACTION"} THEN 2 ELSE 1
    BY <1>4 DEF s, Skip
  <2>2. s + 1 = IF Word(t, 1) \in EndVerbs /\ Word(t, 2) \in {"WORK", "TRANSACTION"} THEN 3 ELSE 2
    BY <2>1
  <2>3. QED
    BY <1>5, <2>2
<1>10. Word(rest, 1) = Word(c, Skip(c) + 1)
  BY <1>7 DEF s
<1>11. QED
  BY <1>4, <1>8, <1>9, <1>10 DEF EffectOf, Taken, t

\* Two sequences, one after the other.
LEMMA Joined ==
  ASSUME NEW S, NEW a \in Seq(S), NEW b \in Seq(S)
  PROVE  /\ a \o b \in Seq(S) /\ Len(a) \in Nat /\ Len(b) \in Nat
         /\ Len(a \o b) = Len(a) + Len(b)
         /\ \A i \in 1 .. Len(a) : (a \o b)[i] = a[i]
         /\ \A i \in 1 .. Len(b) : (a \o b)[Len(a) + i] = b[i]
<1>1. Len(a) \in Nat /\ Len(b) \in Nat
  BY LenProperties
<1>2. a \o b \in Seq(S)
  BY <1>1, ConcatProperties
<1>3. Len(a \o b) = Len(a) + Len(b)
  BY <1>1, ConcatProperties
<1>4. \A i \in 1 .. Len(a) + Len(b) : (a \o b)[i] = IF i <= Len(a) THEN a[i] ELSE b[i - Len(a)]
  BY <1>1, ConcatProperties
<1> DEFINE v == a \o b
<1> HIDE DEF v
<1>5. /\ \A i \in 1 .. Len(a) : v[i] = a[i]
      /\ \A i \in 1 .. Len(b) : v[Len(a) + i] = b[i]
  <2>1. \A i \in 1 .. Len(a) + Len(b) : v[i] = IF i <= Len(a) THEN a[i] ELSE b[i - Len(a)]
    BY <1>4 DEF v
  <2>2. ASSUME NEW i \in 1 .. Len(a) PROVE v[i] = a[i]
    BY <1>1, <2>1
  <2>3. ASSUME NEW i \in 1 .. Len(b) PROVE v[Len(a) + i] = b[i]
    <3>1. Len(a) + i \in 1 .. Len(a) + Len(b) /\ ~(Len(a) + i <= Len(a)) /\ (Len(a) + i) - Len(a) = i
      BY <1>1, <2>3
    <3>2. QED
      BY <2>1, <3>1
  <2>4. QED
    BY <2>2, <2>3
<1>6. QED
  BY <1>1, <1>2, <1>3, <1>5 DEF v

\* A statement that begins with a verb, and the noise word after it.
Shape(w, s, tail) ==
  /\ s \in {1, 2} /\ Len(w) = s + Len(tail) /\ Len(tail) \in Nat
  /\ s = 2 => w[2] \in {"WORK", "TRANSACTION"}
  /\ \A i \in 1 .. Len(tail) : w[s + i] = tail[i]

\* Put together, a statement has its shape.
LEMMA ShapeOf ==
  ASSUME NEW S, NEW verb \in S, NEW noise \in Noise, NEW tail \in Seq(S), "WORK" \in S, "TRANSACTION" \in S
  PROVE  /\ <<verb>> \o noise \o tail \in Seq(S)
         /\ (<<verb>> \o noise \o tail)[1] = verb
         /\ \E s \in {1, 2} : Shape(<<verb>> \o noise \o tail, s, tail)
<1> DEFINE a == <<verb>>
           b == a \o noise
           v == b \o tail
<1>1. a \in Seq(S) /\ Len(a) = 1 /\ a[1] = verb
  OBVIOUS
<1>2. noise \in Seq(S) /\ Len(noise) \in {0, 1} /\ (Len(noise) = 1 => noise[1] \in {"WORK", "TRANSACTION"})
  <2>1. CASE noise = <<>>
    BY <2>1, EmptySeq
  <2>2. \A x \in S : <<x>> \in Seq(S) /\ Len(<<x>>) = 1 /\ <<x>>[1] = x
    OBVIOUS
  <2>3. CASE noise # <<>>
    <3>1. PICK x \in S : noise = <<x>> /\ x \in {"WORK", "TRANSACTION"}
      BY <2>3, Zenon DEF Noise
    <3>2. QED
      BY <2>2, <3>1
  <2>4. QED
    BY <2>1, <2>3
<1> HIDE DEF a, b, v
<1>4. b \in Seq(S) /\ Len(b) = 1 + Len(noise) /\ Len(b) \in {1, 2} /\ b[1] = verb /\ (Len(b) = 2 => b[2] \in {"WORK", "TRANSACTION"})
  <2>1. /\ b \in Seq(S) /\ Len(b) = Len(a) + Len(noise)
        /\ \A i \in 1 .. Len(a) : b[i] = a[i]
        /\ \A i \in 1 .. Len(noise) : b[Len(a) + i] = noise[i]
    BY <1>1, <1>2, Joined DEF b
  <2>2. QED
    BY <1>1, <1>2, <2>1
<1>5. /\ v \in Seq(S) /\ Len(tail) \in Nat /\ Len(v) = Len(b) + Len(tail)
      /\ \A i \in 1 .. Len(b) : v[i] = b[i]
      /\ \A i \in 1 .. Len(tail) : v[Len(b) + i] = tail[i]
  BY <1>4, Joined DEF v
<1>6. v[1] = verb /\ Shape(v, Len(b), tail)
  BY <1>4, <1>5 DEF Shape
<1>7. QED
  BY <1>4, <1>5, <1>6 DEF v, b, a

\* The words of an end of a transaction, whole.
LEMMA EndIs ==
  ASSUME NEW w, NEW S, NEW tail \in Seq(S), EndOf(w, tail), EndVerbs \cup {"WORK", "TRANSACTION"} \subseteq S
  PROVE  w[1] \in EndVerbs /\ \E s \in {1, 2} : Shape(w, s, tail)
<1>1. PICK verb \in EndVerbs, noise \in Noise : w = <<verb>> \o noise \o tail
  BY DEF EndOf, EndVerbs
<1>2. verb \in S /\ "WORK" \in S /\ "TRANSACTION" \in S
  OBVIOUS
<1>3. QED
  BY <1>1, <1>2, ShapeOf

\* The words of a return to a savepoint, up to its name.
LEMMA ToIs ==
  ASSUME NEW w, ToSavepoint(w)
  PROVE  /\ w[1] = "ROLLBACK"
         /\ \E s \in {1, 2} : /\ Len(w) >= s + 1 /\ w[s + 1] = "TO" /\ Len(w) \in Nat
                              /\ s = 2 => w[2] \in {"WORK", "TRANSACTION"}
<1>1. PICK noise \in Noise, to \in {<<"TO">>, <<"TO", "SAVEPOINT">>}, name \in Range(w) :
           w = <<"ROLLBACK">> \o noise \o to \o <<name>>
  BY DEF ToSavepoint
<1> DEFINE S == {"ROLLBACK", "WORK", "TRANSACTION", "TO", "SAVEPOINT", name}
<1>2. /\ name \in S /\ "ROLLBACK" \in S /\ "WORK" \in S /\ "TRANSACTION" \in S /\ "TO" \in S /\ "SAVEPOINT" \in S
  OBVIOUS
<1> HIDE DEF S
<1>3. to \in Seq(S) /\ Len(to) \in {1, 2} /\ to[1] = "TO"
  <2>1. \A x \in S : <<x>> \in Seq(S) /\ Len(<<x>>) = 1 /\ <<x>>[1] = x
    OBVIOUS
  <2>2. \A x \in S, y \in S : <<x, y>> \in Seq(S) /\ Len(<<x, y>>) = 2 /\ <<x, y>>[1] = x
    OBVIOUS
  <2>3. CASE to = <<"TO">>
    BY <1>2, <2>1, <2>3
  <2>4. CASE to = <<"TO", "SAVEPOINT">>
    BY <1>2, <2>2, <2>4
  <2>5. QED
    BY <2>3, <2>4
<1> DEFINE a == <<"ROLLBACK">> \o noise \o to
           d == <<name>>
<1>4. PICK s \in {1, 2} : Shape(a, s, to)
  BY <1>2, <1>3, ShapeOf
<1>5. a \in Seq(S) /\ a[1] = "ROLLBACK"
  BY <1>2, <1>3, ShapeOf
<1>6. d \in Seq(S)
  BY <1>2
<1>7. w = a \o d
  BY <1>1
<1> HIDE DEF a, d
<1>8. /\ Len(a) = s + Len(to) /\ (s = 2 => a[2] \in {"WORK", "TRANSACTION"}) /\ a[s + 1] = "TO"
  <2>1. Len(a) = s + Len(to) /\ (s = 2 => a[2] \in {"WORK", "TRANSACTION"})
    BY <1>4 DEF Shape
  <2>2. 1 \in 1 .. Len(to)
    BY <1>3
  <2>3. a[s + 1] = to[1]
    BY <1>4, <2>2 DEF Shape
  <2>4. QED
    BY <1>3, <2>1, <2>3
<1>9. /\ Len(w) = Len(a) + Len(d) /\ Len(d) \in Nat
      /\ \A i \in 1 .. Len(a) : w[i] = a[i]
  BY <1>5, <1>6, <1>7, Joined
<1>10. 1 \in 1 .. Len(a) /\ s + 1 \in 1 .. Len(a) /\ 2 \in 1 .. Len(a)
  BY <1>3, <1>8
<1>11. w[1] = "ROLLBACK" /\ w[s + 1] = "TO" /\ w[2] = a[2]
  BY <1>5, <1>8, <1>9, <1>10
<1>12. Len(w) >= s + 1 /\ Len(w) \in Nat
  <2>1. Len(to) \in {1, 2}
    BY <1>3
  <2>2. Len(a) = s + Len(to) /\ Len(w) = Len(a) + Len(d) /\ Len(d) \in Nat
    BY <1>8, <1>9
  <2>3. PICK l : l = Len(to)
    OBVIOUS
  <2>4. QED
    BY <2>1, <2>2, <2>3
<1>13. QED
  BY <1>8, <1>11, <1>12

\* A statement's own noise word, and whether it could end a transaction.
Noisy(w) == IF Word(w, 2) \in {"WORK", "TRANSACTION"} THEN 2 ELSE 1

\* The noise word is told by the second word.
LEMMA ShapeIs ==
  ASSUME NEW w \in Text, NEW s, NEW tail, Shape(w, s, tail), Len(tail) > 0 => tail[1] = "AND"
  PROVE  s = Noisy(w)
<1>1. /\ s \in {1, 2} /\ Len(w) = s + Len(tail) /\ Len(tail) \in Nat
      /\ s = 2 => w[2] \in {"WORK", "TRANSACTION"}
  BY DEF Shape
<1>2. CASE s = 2
  <2>1. Word(w, 2) = w[2]
    BY <1>1, <1>2 DEF Word
  <2>2. QED
    BY <1>1, <1>2, <2>1 DEF Noisy
<1>3. CASE s = 1 /\ Len(tail) = 0
  <2>1. Word(w, 2) = NoWord
    BY <1>1, <1>3 DEF Word
  <2>2. QED
    BY <1>3, <2>1 DEF Noisy, NoWord
<1>4. CASE s = 1 /\ Len(tail) > 0
  <2>1. 1 \in 1 .. Len(tail) /\ 2 <= Len(w) /\ s + 1 = 2
    BY <1>1, <1>4
  <2>2. w[2] = "AND"
    BY <1>4, <2>1 DEF Shape
  <2>3. Word(w, 2) = "AND"
    BY <2>1, <2>2 DEF Word
  <2>4. QED
    BY <1>4, <2>3 DEF Noisy
<1>5. QED
  BY <1>1, <1>2, <1>3, <1>4

Verbal == EndVerbs \cup {"WORK", "TRANSACTION", "AND", "NO", "CHAIN"}
\* An end without a chain clause.
LEMMA EndsPlain ==
  ASSUME NEW w \in Text, EndOf(w, <<>>)
  PROVE  w[1] \in EndVerbs /\ Len(w) = Noisy(w)
<1>1. <<>> \in Seq(Verbal) /\ Len(<<>>) = 0 /\ EndVerbs \cup {"WORK", "TRANSACTION"} \subseteq Verbal
  BY EmptySeq DEF Verbal
<1>2. w[1] \in EndVerbs /\ \E s \in {1, 2} : Shape(w, s, <<>>)
  BY <1>1, EndIs
<1>3. PICK s \in {1, 2} : Shape(w, s, <<>>)
  BY <1>2
<1>4. s = Noisy(w)
  BY <1>1, <1>3, ShapeIs
<1>5. Len(w) = s + 0
  BY <1>1, <1>3 DEF Shape
<1>6. QED
  BY <1>2, <1>4, <1>5

\* An end that asks for no new transaction.
LEMMA EndsNoChain ==
  ASSUME NEW w \in Text, EndOf(w, <<"AND", "NO", "CHAIN">>)
  PROVE  /\ w[1] \in EndVerbs /\ Len(w) = Noisy(w) + 3
         /\ w[Noisy(w) + 1] = "AND" /\ w[Noisy(w) + 2] = "NO" /\ w[Noisy(w) + 3] = "CHAIN"
<1> DEFINE tail == <<"AND", "NO", "CHAIN">>
<1>1. tail \in Seq(Verbal) /\ EndVerbs \cup {"WORK", "TRANSACTION"} \subseteq Verbal
  <2>1. \A x \in Verbal, y \in Verbal, z \in Verbal : <<x, y, z>> \in Seq(Verbal)
    OBVIOUS
  <2>2. "AND" \in Verbal /\ "NO" \in Verbal /\ "CHAIN" \in Verbal
    BY DEF Verbal
  <2>3. EndVerbs \cup {"WORK", "TRANSACTION"} \subseteq Verbal
    BY DEF Verbal
  <2>4. QED
    BY <2>1, <2>2, <2>3
<1>2. \A x, y, z : <<x, y, z>>[1] = x /\ <<x, y, z>>[2] = y /\ <<x, y, z>>[3] = z /\ Len(<<x, y, z>>) = 3
  OBVIOUS
<1>3. tail[1] = "AND" /\ tail[2] = "NO" /\ tail[3] = "CHAIN" /\ Len(tail) = 3
  BY <1>2, Zenon
<1>4. EndOf(w, tail)
  OBVIOUS
<1> HIDE DEF tail
<1>5. w[1] \in EndVerbs /\ \E s \in {1, 2} : Shape(w, s, tail)
  BY <1>1, <1>4, EndIs
<1>6. PICK s \in {1, 2} : Shape(w, s, tail)
  BY <1>5
<1>7. s = Noisy(w)
  BY <1>3, <1>6, ShapeIs
<1>8. Len(w) = s + 3
  BY <1>3, <1>6 DEF Shape
<1>9. w[s + 1] = tail[1] /\ w[s + 2] = tail[2] /\ w[s + 3] = tail[3]
  BY <1>3, <1>6 DEF Shape
<1>10. QED
  BY <1>3, <1>5, <1>7, <1>8, <1>9

\* An end that asks for a new transaction.
LEMMA EndsChain ==
  ASSUME NEW w \in Text, EndOf(w, <<"AND", "CHAIN">>)
  PROVE  /\ w[1] \in EndVerbs /\ Len(w) = Noisy(w) + 2
         /\ w[Noisy(w) + 1] = "AND" /\ w[Noisy(w) + 2] = "CHAIN"
<1> DEFINE tail == <<"AND", "CHAIN">>
<1>1. tail \in Seq(Verbal) /\ EndVerbs \cup {"WORK", "TRANSACTION"} \subseteq Verbal
  <2>1. \A x \in Verbal, y \in Verbal : <<x, y>> \in Seq(Verbal)
    OBVIOUS
  <2>2. "AND" \in Verbal /\ "CHAIN" \in Verbal
    BY DEF Verbal
  <2>3. EndVerbs \cup {"WORK", "TRANSACTION"} \subseteq Verbal
    BY DEF Verbal
  <2>4. QED
    BY <2>1, <2>2, <2>3
<1>2. \A x, y : <<x, y>>[1] = x /\ <<x, y>>[2] = y /\ Len(<<x, y>>) = 2
  OBVIOUS
<1>3. tail[1] = "AND" /\ tail[2] = "CHAIN" /\ Len(tail) = 2
  BY <1>2, Zenon
<1>4. EndOf(w, tail)
  OBVIOUS
<1> HIDE DEF tail
<1>5. w[1] \in EndVerbs /\ \E s \in {1, 2} : Shape(w, s, tail)
  BY <1>1, <1>4, EndIs
<1>6. PICK s \in {1, 2} : Shape(w, s, tail)
  BY <1>5
<1>7. s = Noisy(w)
  BY <1>3, <1>6, ShapeIs
<1>8. Len(w) = s + 2
  BY <1>3, <1>6 DEF Shape
<1>9. w[s + 1] = tail[1] /\ w[s + 2] = tail[2]
  BY <1>3, <1>6 DEF Shape
<1>10. QED
  BY <1>3, <1>5, <1>7, <1>8, <1>9

\* A savepoint's name, and a prepared transaction's, follow these.
LEMMA EndsTo ==
  ASSUME NEW w \in Text, ToSavepoint(w)
  PROVE  w[1] = "ROLLBACK" /\ Len(w) >= Noisy(w) + 1 /\ Len(w) \in Nat /\ w[Noisy(w) + 1] = "TO"
<1>1. PICK s \in {1, 2} : /\ Len(w) >= s + 1 /\ w[s + 1] = "TO" /\ Len(w) \in Nat
                          /\ s = 2 => w[2] \in {"WORK", "TRANSACTION"}
  BY ToIs
<1>2. Word(w, 2) = w[2]
  BY <1>1 DEF Word
<1>3. s = Noisy(w)
  BY <1>1, <1>2 DEF Noisy
<1>4. QED
  BY <1>1, <1>3, ToIs

\* The words of an end of a prepared transaction.
LEMMA EndsPrepared ==
  ASSUME NEW w \in Text, EndOfPrepared(w)
  PROVE  w[1] \in {"COMMIT", "ROLLBACK"} /\ Len(w) = 3 /\ w[2] = "PREPARED" /\ w[3] \in Quotes
<1>1. PICK verb \in {"COMMIT", "ROLLBACK"}, id \in Literals : w = <<verb, "PREPARED", id>>
  BY DEF EndOfPrepared
<1>2. \A x, y, z : <<x, y, z>>[1] = x /\ <<x, y, z>>[2] = y /\ <<x, y, z>>[3] = z /\ Len(<<x, y, z>>) = 3
  OBVIOUS
<1>3. w[1] = verb /\ w[2] = "PREPARED" /\ w[3] = id /\ Len(w) = 3
  BY <1>1, <1>2, Zenon
<1>4. QED
  BY <1>3 DEF Literals, Quotes

\* The words of PREPARE TRANSACTION.
LEMMA PreparedIs ==
  ASSUME NEW w \in Text, Prepared(w)
  PROVE  w[1] = "PREPARE" /\ Len(w) = 3 /\ w[2] = "TRANSACTION"
<1>1. PICK id \in Literals : w = <<"PREPARE", "TRANSACTION", id>>
  BY DEF Prepared
<1>2. \A x, y, z : <<x, y, z>>[1] = x /\ <<x, y, z>>[2] = y /\ <<x, y, z>>[3] = z /\ Len(<<x, y, z>>) = 3
  OBVIOUS
<1>3. w[1] = "PREPARE" /\ w[2] = "TRANSACTION" /\ Len(w) = 3
  BY <1>1, <1>2, Zenon
<1>4. QED
  BY <1>3

\* What an end of a transaction is, by the words after its verb and its noise word.
LEMMA Ending ==
  ASSUME NEW w \in Text, Word(w, 1) \in EndVerbs
  PROVE  LET s == Noisy(w)
         IN  /\ PlainEnd(w) => Len(w) = s \/ (Len(w) = s + 3 /\ w[s + 1] = "AND" /\ w[s + 2] = "NO")
             /\ ChainedEnd(w) => Len(w) = s + 2 /\ w[s + 1] = "AND" /\ w[s + 2] = "CHAIN"
             /\ ToSavepoint(w) => Len(w) >= s + 1 /\ w[s + 1] = "TO"
             /\ EndOfPrepared(w) => s = 1 /\ Len(w) = 3 /\ w[2] = "PREPARED"
<1>1. PlainEnd(w) => Len(w) = Noisy(w) \/ (Len(w) = Noisy(w) + 3 /\ w[Noisy(w) + 1] = "AND" /\ w[Noisy(w) + 2] = "NO")
  BY EndsPlain, EndsNoChain DEF PlainEnd
<1>2. ChainedEnd(w) => Len(w) = Noisy(w) + 2 /\ w[Noisy(w) + 1] = "AND" /\ w[Noisy(w) + 2] = "CHAIN"
  BY EndsChain DEF ChainedEnd
<1>3. ToSavepoint(w) => Len(w) >= Noisy(w) + 1 /\ w[Noisy(w) + 1] = "TO"
  BY EndsTo
<1>4. ASSUME EndOfPrepared(w) PROVE Noisy(w) = 1 /\ Len(w) = 3 /\ w[2] = "PREPARED"
  <2>1. Len(w) = 3 /\ w[2] = "PREPARED"
    BY <1>4, EndsPrepared
  <2>2. Word(w, 2) = "PREPARED"
    BY <2>1 DEF Word
  <2>3. QED
    BY <2>1, <2>2 DEF Noisy
<1>5. QED
  BY <1>1, <1>2, <1>3, <1>4

\* Words that are read alike have the same noise word.
LEMMA SameNoise ==
  ASSUME NEW w \in Text, NEW c \in Text, Len(w) \in Nat, Len(c) \in Nat, NEW k \in 1 .. Len(w),
         k <= Len(c), \A i \in 1 .. k : c[i] = w[i], k = Len(c) \/ k >= 2, k = Len(c) => k = Len(w) \/ k >= 2,
         Word(w, 1) \in EndVerbs
  PROVE  Word(c, 1) = Word(w, 1) /\ Skip(c) = Noisy(w)
<1>1. 1 <= Len(c) /\ 1 <= Len(w) /\ c[1] = w[1]
  OBVIOUS
<1>2. Word(c, 1) = Word(w, 1)
  BY <1>1 DEF Word
<1>3. Word(c, 2) = Word(w, 2)
  <2>1. CASE k >= 2
    <3>1. 2 <= Len(c) /\ 2 <= Len(w) /\ c[2] = w[2]
      BY <2>1
    <3>2. QED
      BY <3>1 DEF Word
  <2>2. CASE k < 2
    <3>1. ~(2 <= Len(c)) /\ ~(2 <= Len(w))
      BY <2>2
    <3>2. QED
      BY <3>1 DEF Word
  <2>3. QED
    BY <2>1, <2>2
<1>4. QED
  BY <1>2, <1>3 DEF Skip, Noisy

\* An end of a transaction is taken for what it is.
LEMMA EndRight ==
  ASSUME NEW c \in Text, NEW w \in Text, Follows(c, w), Accepted(w), Word(w, 1) \in EndVerbs
  PROVE  Taken(c) = Effect(w)
<1> DEFINE s == Noisy(w)
<1>1. Len(w) \in Nat /\ Len(c) \in Nat /\ s \in {1, 2}
  BY LenProperties DEF Text, Noisy
<1>2. 1 <= Len(w) /\ w[1] = Word(w, 1)
  BY <1>1 DEF Word, NoWord, EndVerbs
<1>3. \A x \in EndVerbs \cup {"WORK", "TRANSACTION", "AND", "NO", "CHAIN", "TO", "PREPARED"} :
        x \notin Punctuation /\ x \notin Quotes
  BY Zenon DEF EndVerbs, Punctuation, Quotes
<1>4. s = 2 => 2 <= Len(w) /\ w[2] \in {"WORK", "TRANSACTION"}
  BY <1>1 DEF Noisy, Word, NoWord
<1>5. Straight(w, s)
  <2>1. \A i \in 1 .. s : w[i] \in EndVerbs \cup {"WORK", "TRANSACTION"}
    BY <1>1, <1>2, <1>4
  <2>2. QED
    BY <1>3, <2>1 DEF Straight
<1>6. ~(Word(w, 1) \in {"BEGIN", "START", "PREPARE"})
  BY DEF EndVerbs
<1>7. ~Prepared(w)
  <2>1. Prepared(w) => w[1] = "PREPARE"
    BY PreparedIs
  <2>2. QED
    BY <1>2, <1>6, <2>1
<1>8. Effect(w) = IF PlainEnd(w) THEN "Closes" ELSE IF ChainedEnd(w) THEN "Chains" ELSE "None"
  BY <1>6, <1>7 DEF Effect
<1>9. /\ PlainEnd(w) => Len(w) = s \/ (Len(w) = s + 3 /\ w[s + 1] = "AND" /\ w[s + 2] = "NO")
      /\ ChainedEnd(w) => Len(w) = s + 2 /\ w[s + 1] = "AND" /\ w[s + 2] = "CHAIN"
      /\ ToSavepoint(w) => Len(w) >= s + 1 /\ w[s + 1] = "TO"
      /\ EndOfPrepared(w) => s = 1 /\ Len(w) = 3 /\ w[2] = "PREPARED"
  BY Ending
<1>10. PlainEnd(w) \/ ChainedEnd(w) \/ ToSavepoint(w) \/ EndOfPrepared(w)
  BY DEF Accepted, EndVerbs
<1>11. \A k \in 0 .. Len(w) : Straight(w, k) => k <= Len(c) /\ \A i \in 1 .. k : c[i] = w[i]
  BY DEF Follows
<1>12. Straight(w, Len(w)) => Len(c) = Len(w)
  BY <1>1 DEF Follows
<1> HIDE DEF s
<1>13. CASE EndOf(w, <<>>)
  <2>1. Len(w) = s
    BY <1>13, EndsPlain DEF s
  <2>2. Len(c) = Len(w) /\ \A i \in 1 .. s : c[i] = w[i]
    BY <1>1, <1>5, <1>11, <1>12, <2>1
  <2>3. Word(c, 1) = Word(w, 1) /\ Skip(c) = s
    BY <1>1, <2>1, <2>2, SameNoise DEF s
  <2>4. \A k \in s + 1 .. 5 : Word(c, k) = NoWord
    BY <1>1, <2>1, <2>2 DEF Word
  <2>5. ~ChainedIn(c) /\ Word(c, Skip(c) + 1) = NoWord
    <3>1. \A k \in s + 1 .. 5 : Word(c, k) # "AND"
      BY <2>4 DEF NoWord
    <3>2. QED
      BY <1>1, <2>3, <2>4, <3>1 DEF ChainedIn
  <2>6. Taken(c) = "Closes"
    BY <2>3, <2>5, <1>6 DEF Taken, NoWord
  <2>7. PlainEnd(w)
    BY <1>13 DEF PlainEnd
  <2>8. QED
    BY <1>8, <2>6, <2>7
<1>14. CASE EndOf(w, <<"AND", "NO", "CHAIN">>)
  <2>1. Len(w) = s + 3 /\ w[s + 1] = "AND" /\ w[s + 2] = "NO" /\ w[s + 3] = "CHAIN"
    BY <1>14, EndsNoChain DEF s
  <2>2. Straight(w, Len(w))
    <3>1. \A i \in 1 .. Len(w) : i \in 1 .. s \/ i = s + 1 \/ i = s + 2 \/ i = s + 3
      BY <1>1, <2>1
    <3>2. w[s + 1] \in Verbal /\ w[s + 2] \in Verbal /\ w[s + 3] \in Verbal
      BY <2>1 DEF Verbal
    <3>3. \A x \in Verbal : x \notin Punctuation /\ x \notin Quotes
      BY <1>3 DEF Verbal
    <3>4. QED
      BY <1>5, <3>1, <3>2, <3>3 DEF Straight
  <2>3. Len(c) = Len(w) /\ \A i \in 1 .. Len(w) : c[i] = w[i]
    BY <1>1, <1>11, <1>12, <2>2
  <2>4. Word(c, 1) = Word(w, 1) /\ Skip(c) = s
    BY <1>1, <2>1, <2>3, SameNoise DEF s
  <2>5. c[s + 1] = "AND" /\ c[s + 2] = "NO" /\ c[s + 3] = "CHAIN"
    BY <1>1, <2>1, <2>3
  <2>6. Word(c, s + 1) = "AND" /\ Word(c, s + 2) = "NO" /\ Word(c, s + 3) = "CHAIN"
    BY <1>1, <2>1, <2>3, <2>5 DEF Word
  <2>7. \A k \in s + 4 .. 6 : Word(c, k) = NoWord
    BY <1>1, <2>1, <2>3 DEF Word
  <2>8. \A k \in s + 1 .. 5 : ~(Word(c, k) = "AND" /\ Word(c, k + 1) = "CHAIN")
    <3>1. \A k \in s + 1 .. 5 : k = s + 1 \/ k = s + 2 \/ k = s + 3 \/ k \in s + 4 .. 6
      BY <1>1
    <3>2. (s + 1) + 1 = s + 2
      BY <1>1
    <3>3. QED
      BY <2>6, <2>7, <3>1, <3>2 DEF NoWord
  <2>9. ~ChainedIn(c)
    BY <2>4, <2>8 DEF ChainedIn
  <2>10. Taken(c) = "Closes"
    BY <1>6, <2>4, <2>6, <2>9 DEF Taken
  <2>11. PlainEnd(w)
    BY <1>14 DEF PlainEnd
  <2>12. QED
    BY <1>8, <2>10, <2>11
<1>15. CASE ChainedEnd(w)
  <2>1. Len(w) = s + 2 /\ w[s + 1] = "AND" /\ w[s + 2] = "CHAIN"
    BY <1>9, <1>15
  <2>2. Straight(w, Len(w))
    <3>1. \A i \in 1 .. Len(w) : i \in 1 .. s \/ i = s + 1 \/ i = s + 2
      BY <1>1, <2>1
    <3>2. w[s + 1] \in Verbal /\ w[s + 2] \in Verbal
      BY <2>1 DEF Verbal
    <3>3. \A x \in Verbal : x \notin Punctuation /\ x \notin Quotes
      BY <1>3 DEF Verbal
    <3>4. QED
      BY <1>5, <3>1, <3>2, <3>3 DEF Straight
  <2>3. Len(c) = Len(w) /\ \A i \in 1 .. Len(w) : c[i] = w[i]
    BY <1>1, <1>11, <1>12, <2>2
  <2>4. Word(c, 1) = Word(w, 1) /\ Skip(c) = s
    BY <1>1, <2>1, <2>3, SameNoise DEF s
  <2>5. c[s + 1] = "AND" /\ c[s + 2] = "CHAIN"
    BY <1>1, <2>1, <2>3
  <2>6. Word(c, s + 1) = "AND" /\ Word(c, s + 2) = "CHAIN"
    BY <1>1, <2>1, <2>3, <2>5 DEF Word
  <2>7. s + 1 \in s + 1 .. 5 /\ (s + 1) + 1 = s + 2
    BY <1>1
  <2>8. ChainedIn(c)
    BY <2>4, <2>6, <2>7 DEF ChainedIn
  <2>9. Taken(c) = "Chains"
    BY <1>6, <2>4, <2>6, <2>8 DEF Taken
  <2>10. ~PlainEnd(w)
    BY <1>1, <1>9, <2>1
  <2>11. QED
    BY <1>8, <1>15, <2>9, <2>10
<1>16. CASE ToSavepoint(w)
  <2>1. Len(w) >= s + 1 /\ w[s + 1] = "TO" /\ w[1] = "ROLLBACK"
    BY <1>9, <1>16, EndsTo
  <2>2. Straight(w, s + 1)
    <3>1. \A i \in 1 .. s + 1 : i \in 1 .. s \/ i = s + 1
      BY <1>1
    <3>2. w[s + 1] \notin Punctuation /\ w[s + 1] \notin Quotes
      BY <1>3, <2>1
    <3>3. QED
      BY <1>5, <3>1, <3>2 DEF Straight
  <2>3. s + 1 <= Len(c) /\ \A i \in 1 .. s + 1 : c[i] = w[i]
    BY <1>1, <1>11, <2>1, <2>2
  <2>4. Word(c, 1) = Word(w, 1) /\ Skip(c) = s
    <3>1. s + 1 \in 1 .. Len(w) /\ s + 1 >= 2
      BY <1>1, <2>1
    <3>2. QED
      BY <1>1, <2>3, <3>1, SameNoise DEF s
  <2>5. c[s + 1] = "TO"
    BY <1>1, <2>1, <2>3
  <2>6. Word(c, s + 1) = "TO"
    BY <2>3, <2>5 DEF Word
  <2>7. Taken(c) = "None"
    BY <1>2, <1>6, <2>1, <2>4, <2>6 DEF Taken
  <2>8. ~PlainEnd(w) /\ ~ChainedEnd(w)
    BY <1>1, <1>9, <2>1
  <2>9. QED
    BY <1>8, <2>7, <2>8
<1>17. CASE EndOfPrepared(w)
  <2>1. s = 1 /\ Len(w) = 3 /\ w[2] = "PREPARED" /\ w[1] \in {"COMMIT", "ROLLBACK"}
    BY <1>9, <1>17, EndsPrepared
  <2>2. Straight(w, 2)
    <3>1. \A i \in 1 .. 2 : i \in 1 .. s \/ i = 2
      BY <2>1
    <3>2. w[2] \notin Punctuation /\ w[2] \notin Quotes
      BY <1>3, <2>1
    <3>3. QED
      BY <1>5, <3>1, <3>2 DEF Straight
  <2>3. 2 <= Len(c) /\ \A i \in 1 .. 2 : c[i] = w[i]
    BY <1>1, <1>11, <2>1, <2>2
  <2>4. Word(c, 1) = Word(w, 1) /\ Skip(c) = s
    <3>1. 2 \in 1 .. Len(w)
      BY <1>1, <2>1
    <3>2. QED
      BY <1>1, <2>3, <3>1, SameNoise DEF s
  <2>5. c[2] = "PREPARED"
    BY <2>1, <2>3
  <2>6. Word(c, s + 1) = "PREPARED"
    BY <2>1, <2>3, <2>5 DEF Word
  <2>7. Taken(c) = "None"
    BY <1>2, <1>6, <2>1, <2>4, <2>6 DEF Taken
  <2>8. ~PlainEnd(w) /\ ~ChainedEnd(w)
    BY <1>1, <1>9, <2>1
  <2>9. QED
    BY <1>8, <2>7, <2>8
<1>18. QED
  BY <1>10, <1>13, <1>14, <1>15, <1>16, <1>17 DEF PlainEnd

\* Where a query stands in brackets, its own word is the plugin's first.
LEMMA FirstInBrackets ==
  ASSUME NEW c \in Text, NEW w \in Text, Follows(c, w), InBrackets(w)
  PROVE  Word(c, 1) \in {"SELECT", "VALUES", "TABLE", "WITH"}
<1>1. PICK k \in 2 .. Len(w) : /\ \A j \in 1 .. k - 1 : w[j] = "("
                              /\ w[k] \in {"SELECT", "VALUES", "TABLE", "WITH"}
  BY DEF InBrackets
<1>2. Len(w) \in Nat
  BY LenProperties DEF Text
<1>3. k \in 1 .. Len(w) /\ Brackets(w, k - 1)
  BY <1>1, <1>2 DEF Brackets
<1>4. w[k] \notin Punctuation /\ w[k] \notin Quotes
  BY <1>1 DEF Punctuation, Quotes
<1>5. 1 <= Len(c) /\ c[1] = w[k]
  BY <1>3, <1>4 DEF Follows
<1>6. QED
  BY <1>1, <1>5 DEF Word

\* Any statement has the effect it is taken to have.
LEMMA EffectRight ==
  ASSUME NEW c \in Text, NEW w \in Text, Follows(c, w), Accepted(w)
  PROVE  Taken(c) = Effect(w)
<1>1. Len(w) \in Nat /\ Len(c) \in Nat
  BY LenProperties DEF Text
<1>2. CASE Word(w, 1) \in EndVerbs
  BY <1>2, EndRight
<1>3. ASSUME Word(w, 1) \notin EndVerbs PROVE ~PlainEnd(w) /\ ~ChainedEnd(w)
  <2>1. PlainEnd(w) \/ ChainedEnd(w) => w[1] \in EndVerbs /\ 1 <= Len(w)
    <3>1. PlainEnd(w) => w[1] \in EndVerbs /\ Len(w) >= Noisy(w)
      BY EndsPlain, EndsNoChain DEF PlainEnd, Noisy
    <3>2. ChainedEnd(w) => w[1] \in EndVerbs /\ Len(w) >= Noisy(w)
      BY EndsChain DEF ChainedEnd, Noisy
    <3>3. QED
      BY <1>1, <3>1, <3>2 DEF Noisy
  <2>2. QED
    BY <1>3, <2>1 DEF Word
<1>4. Prepared(w) => Word(w, 1) = "PREPARE" /\ Word(w, 2) = "TRANSACTION"
  <2>1. Prepared(w) => w[1] = "PREPARE" /\ w[2] = "TRANSACTION" /\ 1 <= Len(w) /\ 2 <= Len(w)
    BY PreparedIs
  <2>2. QED
    BY <2>1 DEF Word
<1>5. CASE Word(w, 1) = "("
  <2>1. InBrackets(w)
    BY <1>5 DEF Accepted
  <2>2. Word(c, 1) \in {"SELECT", "VALUES", "TABLE", "WITH"}
    BY <2>1, FirstInBrackets
  <2>3. Taken(c) = "None"
    BY <2>2 DEF Taken, EndVerbs
  <2>4. Effect(w) = "None"
    <3>1. "(" \notin EndVerbs
      BY DEF EndVerbs
    <3>2. QED
      BY <1>3, <1>4, <1>5, <3>1 DEF Effect
  <2>5. QED
    BY <2>3, <2>4
<1>6. CASE Word(w, 1) \notin EndVerbs /\ Word(w, 1) # "("
  <2>1. Agree(c, w, 1)
    <3>1. 1 <= Len(w) => w[1] \notin Punctuation
      BY <1>6 DEF Accepted, Word, Punctuation
    <3>2. \A i \in 1 .. 1 - 1 : i <= Len(w) => w[i] \in Keyword
      OBVIOUS
    <3>3. QED
      BY <3>1, <3>2, AgreeAfter
  <2>2. \A x \in {"BEGIN", "START", "PREPARE"} \cup EndVerbs : Word(c, 1) = x <=> Word(w, 1) = x
    <3>1. \A x \in {"BEGIN", "START", "PREPARE"} \cup EndVerbs : x \in Keyword
      BY Zenon DEF EndVerbs, Keyword
    <3>2. QED
      BY <2>1, <3>1 DEF Agree
  <2>3. Word(c, 1) \notin EndVerbs /\ Skip(c) = 1
    BY <1>6, <2>2 DEF Skip
  <2>4. ASSUME Word(w, 1) \in {"START", "PREPARE"}
        PROVE  Word(c, 2) = "TRANSACTION" <=> Word(w, 2) = "TRANSACTION"
    <3>1. 1 <= Len(w) /\ w[1] \in {"START", "PREPARE"}
      BY <2>4 DEF Word, NoWord
    <3>2. w[1] \in Keyword /\ w[1] \in Leading /\ "TRANSACTION" \in Keyword
      BY <3>1, Zenon DEF Keyword, Leading
    <3>3. 2 <= Len(w) => w[2] \notin Punctuation
      <4>1. ASSUME 2 <= Len(w) PROVE w[2] \notin Punctuation
        <5>1. 2 \in 2 .. Len(w) /\ \A j \in 1 .. 2 - 1 : w[j] \in Leading
          BY <1>1, <3>2, <4>1
        <5>2. QED
          BY <5>1 DEF Accepted
      <4>2. QED
        BY <4>1
    <3>4. \A i \in 1 .. 2 - 1 : i <= Len(w) => w[i] \in Keyword
      BY <3>2
    <3>5. Agree(c, w, 2)
      BY <3>3, <3>4, AgreeAfter
    <3>6. QED
      BY <3>2, <3>5 DEF Agree
  <2>5. ASSUME Word(w, 1) = "PREPARE", Word(w, 2) = "TRANSACTION" PROVE Prepared(w)
    <3>1. BeginsWith(w, <<"PREPARE", "TRANSACTION">>)
      BY <2>5 DEF BeginsWith
    <3>2. QED
      BY <3>1 DEF Accepted
  <2>6. ~PlainEnd(w) /\ ~ChainedEnd(w)
    BY <1>3, <1>6
  <2>7. Effect(w) = IF Word(w, 1) = "BEGIN" \/ (Word(w, 1) = "START" /\ Word(w, 2) = "TRANSACTION") THEN "Opens"
                    ELSE IF Word(w, 1) = "PREPARE" /\ Word(w, 2) = "TRANSACTION" THEN "Closes" ELSE "None"
    BY <1>4, <2>5, <2>6 DEF Effect
  <2>8. Taken(c) = IF Word(c, 1) = "BEGIN" \/ (Word(c, 1) = "START" /\ Word(c, 2) = "TRANSACTION") THEN "Opens"
                   ELSE IF Word(c, 1) = "PREPARE" /\ Word(c, 2) = "TRANSACTION" THEN "Closes" ELSE "None"
    <3>1. 1 + 1 = 2
      OBVIOUS
    <3>2. Word(c, 1) \notin {"COMMIT", "ROLLBACK"}
      BY <2>3 DEF EndVerbs
    <3>3. QED
      BY <2>3, <3>1, <3>2 DEF Taken
  <2>9. Word(c, 1) = "BEGIN" <=> Word(w, 1) = "BEGIN"
    BY <2>2
  <2>10. Word(c, 1) = "START" <=> Word(w, 1) = "START"
    BY <2>2
  <2>11. Word(c, 1) = "PREPARE" <=> Word(w, 1) = "PREPARE"
    BY <2>2
  <2>12. QED
    BY <2>4, <2>7, <2>8, <2>9, <2>10, <2>11
<1>7. QED
  BY <1>2, <1>5, <1>6

\* A temporary table, or a SET, by the words alone.
Made(w, k) == Word(w, k) \in {"TEMP", "TEMPORARY"} /\ Word(w, k + 1) = "TABLE"
Local(w) ==
  \/ Word(w, 1) = "SET" /\ Word(w, 2) \notin {"LOCAL", "TRANSACTION", "CONSTRAINTS"}
  \/ Word(w, 1) = "CREATE" /\ (Made(w, 2) \/ (Word(w, 2) \in {"GLOBAL", "LOCAL"} /\ Made(w, 3)))

\* What the plugin takes for local state goes by the words it read of the text.
LEMMA LocalIs ==
  ASSUME NEW text, NEW c \in Text, LeadingKeywords(text, 4) = Keys(c, 4)
  PROVE  SetsSessionLocalState(text) = Local(c)
<1> DEFINE t == LeadingKeywords(text, 4)
<1>1. \A k \in 1 .. 4 : Word(t, k) = Word(c, k)
  BY KeysAre
<1> HIDE DEF t
<1>2. Word(t, 1) = Word(c, 1) /\ Word(t, 2) = Word(c, 2) /\ Word(t, 3) = Word(c, 3) /\ Word(t, 4) = Word(c, 4)
  BY <1>1
<1>3. 2 + 1 = 3 /\ 3 + 1 = 4
  OBVIOUS
<1>4. QED
  BY <1>2, <1>3 DEF SetsSessionLocalState, Local, Made, t

\* The words of CREATE with a scope or with none.
LEMMA ScopedIs ==
  ASSUME NEW w, NEW temp
  PROVE  /\ BeginsWith(w, <<"CREATE">> \o <<>> \o <<temp, "TABLE">>) <=>
              Word(w, 1) = "CREATE" /\ Word(w, 2) = temp /\ Word(w, 3) = "TABLE"
         /\ \A scope : BeginsWith(w, <<"CREATE">> \o <<scope>> \o <<temp, "TABLE">>) <=>
              Word(w, 1) = "CREATE" /\ Word(w, 2) = scope /\ Word(w, 3) = temp /\ Word(w, 4) = "TABLE"
<1>1. ASSUME NEW x, NEW y, NEW z
      PROVE  /\ Len(<<x>> \o <<>> \o <<y, z>>) = 3 /\ (<<x>> \o <<>> \o <<y, z>>)[1] = x
             /\ (<<x>> \o <<>> \o <<y, z>>)[2] = y /\ (<<x>> \o <<>> \o <<y, z>>)[3] = z
  <2> DEFINE S == {x, y, z}
             a == <<x>> \o <<>>
             b == <<y, z>>
  <2>1. <<x>> \in Seq(S) /\ b \in Seq(S) /\ Len(b) = 2 /\ b[1] = y /\ b[2] = z /\ <<x>>[1] = x
    OBVIOUS
  <2>2. a = <<x>>
    BY <2>1, ConcatEmptySeq
  <2>3. a \in Seq(S) /\ Len(a) = 1 /\ a[1] = x
    BY <2>1, <2>2
  <2> HIDE DEF a, b, S
  <2>4. /\ Len(a \o b) = Len(a) + Len(b)
        /\ \A i \in 1 .. Len(a) : (a \o b)[i] = a[i]
        /\ \A i \in 1 .. Len(b) : (a \o b)[Len(a) + i] = b[i]
    <3>1. a \in Seq(S) /\ b \in Seq(S)
      BY <2>1, <2>3
    <3>2. QED
      BY <3>1, Joined
  <2>5. Len(a \o b) = 3 /\ (a \o b)[1] = x /\ (a \o b)[2] = y /\ (a \o b)[3] = z
    BY <2>1, <2>3, <2>4
  <2>6. QED
    BY <2>5 DEF a, b
<1>2. ASSUME NEW x, NEW v, NEW y, NEW z
      PROVE  /\ Len(<<x>> \o <<v>> \o <<y, z>>) = 4 /\ (<<x>> \o <<v>> \o <<y, z>>)[1] = x
             /\ (<<x>> \o <<v>> \o <<y, z>>)[2] = v
             /\ (<<x>> \o <<v>> \o <<y, z>>)[3] = y /\ (<<x>> \o <<v>> \o <<y, z>>)[4] = z
  <2> DEFINE S == {x, v, y, z}
             d == <<x>>
             e == <<v>>
             a == d \o e
             b == <<y, z>>
  <2>1. b \in Seq(S) /\ Len(b) = 2 /\ b[1] = y /\ b[2] = z
    OBVIOUS
  <2>2. d \in Seq(S) /\ Len(d) = 1 /\ d[1] = x
    OBVIOUS
  <2>3. e \in Seq(S) /\ Len(e) = 1 /\ e[1] = v
    OBVIOUS
  <2> HIDE DEF a, b, S, d, e
  <2>4. /\ a \in Seq(S) /\ Len(a) = Len(d) + Len(e)
        /\ \A i \in 1 .. Len(d) : a[i] = d[i]
        /\ \A i \in 1 .. Len(e) : a[Len(d) + i] = e[i]
    BY <2>2, <2>3, Joined DEF a
  <2>5. a \in Seq(S) /\ Len(a) = 2 /\ a[1] = x /\ a[2] = v
    BY <2>2, <2>3, <2>4
  <2>6. /\ Len(a \o b) = Len(a) + Len(b)
        /\ \A i \in 1 .. Len(a) : (a \o b)[i] = a[i]
        /\ \A i \in 1 .. Len(b) : (a \o b)[Len(a) + i] = b[i]
    <3>1. a \in Seq(S) /\ b \in Seq(S)
      BY <2>1, <2>5
    <3>2. QED
      BY <3>1, Joined
  <2>7. Len(a \o b) = 4 /\ (a \o b)[1] = x /\ (a \o b)[2] = v /\ (a \o b)[3] = y /\ (a \o b)[4] = z
    BY <2>1, <2>5, <2>6
  <2>8. QED
    BY <2>7 DEF a, b, d, e
<1>3. ASSUME NEW s, Len(s) = 3
      PROVE  BeginsWith(w, s) <=> Word(w, 1) = s[1] /\ Word(w, 2) = s[2] /\ Word(w, 3) = s[3]
  BY <1>3 DEF BeginsWith
<1>4. ASSUME NEW s, Len(s) = 4
      PROVE  BeginsWith(w, s) <=> Word(w, 1) = s[1] /\ Word(w, 2) = s[2] /\ Word(w, 3) = s[3] /\ Word(w, 4) = s[4]
  BY <1>4 DEF BeginsWith
<1>5. ASSUME NEW x, NEW y, NEW z
      PROVE  BeginsWith(w, <<x>> \o <<>> \o <<y, z>>) <=> Word(w, 1) = x /\ Word(w, 2) = y /\ Word(w, 3) = z
  <2> DEFINE s == <<x>> \o <<>> \o <<y, z>>
  <2>1. Len(s) = 3 /\ s[1] = x /\ s[2] = y /\ s[3] = z
    BY <1>1
  <2> HIDE DEF s
  <2>2. BeginsWith(w, s) <=> Word(w, 1) = x /\ Word(w, 2) = y /\ Word(w, 3) = z
    BY <1>3, <2>1
  <2>3. QED
    BY <2>2 DEF s
<1>6. ASSUME NEW x, NEW v, NEW y, NEW z
      PROVE  BeginsWith(w, <<x>> \o <<v>> \o <<y, z>>) <=>
               Word(w, 1) = x /\ Word(w, 2) = v /\ Word(w, 3) = y /\ Word(w, 4) = z
  <2> DEFINE s == <<x>> \o <<v>> \o <<y, z>>
  <2>1. Len(s) = 4 /\ s[1] = x /\ s[2] = v /\ s[3] = y /\ s[4] = z
    BY <1>2
  <2> HIDE DEF s
  <2>2. BeginsWith(w, s) <=> Word(w, 1) = x /\ Word(w, 2) = v /\ Word(w, 3) = y /\ Word(w, 4) = z
    BY <1>4, <2>1
  <2>3. QED
    BY <2>2 DEF s
<1>7. QED
  BY <1>5, <1>6, Zenon

\* What the grammar makes local state goes by the same words.
LEMMA LocalStateIs ==
  ASSUME NEW w
  PROVE  LocalState(w) <=> Local(w)
<1> DEFINE S == Word(w, 1) = "SET" /\ Word(w, 2) \notin {"LOCAL", "TRANSACTION", "CONSTRAINTS"}
           Begun(scope, temp) == BeginsWith(w, <<"CREATE">> \o scope \o <<temp, "TABLE">>)
           Temps == {"TEMP", "TEMPORARY"}
<1>1. LocalState(w) <=> S \/ \E scope \in {<<>>, <<"GLOBAL">>, <<"LOCAL">>}, temp \in Temps : Begun(scope, temp)
  BY DEF LocalState
<1>2. Local(w) <=> S \/ (Word(w, 1) = "CREATE" /\ (Made(w, 2) \/ (Word(w, 2) \in {"GLOBAL", "LOCAL"} /\ Made(w, 3))))
  BY DEF Local
<1>3. \A temp : Begun(<<>>, temp) <=> Word(w, 1) = "CREATE" /\ Word(w, 2) = temp /\ Word(w, 3) = "TABLE"
  BY ScopedIs
<1>4. \A temp, scope : Begun(<<scope>>, temp) <=>
        Word(w, 1) = "CREATE" /\ Word(w, 2) = scope /\ Word(w, 3) = temp /\ Word(w, 4) = "TABLE"
  BY ScopedIs
<1> HIDE DEF S, Begun
<1>5. 2 + 1 = 3 /\ 3 + 1 = 4
  OBVIOUS
<1>6. Made(w, 2) <=> Word(w, 2) \in Temps /\ Word(w, 3) = "TABLE"
  BY <1>5 DEF Made
<1>7. Made(w, 3) <=> Word(w, 3) \in Temps /\ Word(w, 4) = "TABLE"
  BY <1>5 DEF Made
<1> HIDE DEF Temps
<1>8. (\E temp \in Temps : Begun(<<>>, temp)) <=> Word(w, 1) = "CREATE" /\ Made(w, 2)
  BY <1>3, <1>6
<1>9. \A scope : (\E temp \in Temps : Begun(<<scope>>, temp)) <=> Word(w, 1) = "CREATE" /\ Word(w, 2) = scope /\ Made(w, 3)
  BY <1>4, <1>7
<1>10. (\E scope \in {<<>>, <<"GLOBAL">>, <<"LOCAL">>}, temp \in Temps : Begun(scope, temp)) <=>
         \/ \E temp \in Temps : Begun(<<>>, temp)
         \/ \E temp \in Temps : Begun(<<"GLOBAL">>, temp)
         \/ \E temp \in Temps : Begun(<<"LOCAL">>, temp)
  BY Zenon
<1>11. QED
  BY <1>1, <1>2, <1>8, <1>9, <1>10

\* Any statement's local state is what it is taken to be.
LEMMA LocalRight ==
  ASSUME NEW c \in Text, NEW w \in Text, Follows(c, w), Accepted(w)
  PROVE  Local(c) <=> Local(w)
<1>1. Len(w) \in Nat /\ Len(c) \in Nat
  BY LenProperties DEF Text
<1>2. CASE Word(w, 1) = "("
  <2>1. InBrackets(w)
    BY <1>2 DEF Accepted
  <2>2. Word(c, 1) \in {"SELECT", "VALUES", "TABLE", "WITH"}
    BY <2>1, FirstInBrackets
  <2>3. QED
    BY <1>2, <2>2 DEF Local
<1>3. CASE Word(w, 1) # "("
  <2>1. Agree(c, w, 1)
    <3>1. 1 <= Len(w) => w[1] \notin Punctuation
      BY <1>3 DEF Accepted, Word, Punctuation
    <3>2. \A i \in 1 .. 1 - 1 : i <= Len(w) => w[i] \in Keyword
      OBVIOUS
    <3>3. QED
      BY <3>1, <3>2, AgreeAfter
  <2>2. \A x \in Leading : x \in Keyword /\ x # NoWord
    BY Zenon DEF Leading, Keyword, NoWord
  <2>3. ASSUME NEW k \in 1 .. 3, \A j \in 1 .. k : Word(w, j) \in Leading PROVE Agree(c, w, k + 1)
    <3>1. \A j \in 1 .. k : j <= Len(w) /\ w[j] \in Leading
      BY <2>2, <2>3 DEF Word
    <3>2. k + 1 <= Len(w) => w[k + 1] \notin Punctuation
      <4>1. ASSUME k + 1 <= Len(w) PROVE w[k + 1] \notin Punctuation
        <5>1. k + 1 \in 2 .. Len(w) /\ \A j \in 1 .. (k + 1) - 1 : w[j] \in Leading
          BY <1>1, <3>1, <4>1
        <5>2. QED
          BY <5>1 DEF Accepted
      <4>2. QED
        BY <4>1
    <3>3. \A i \in 1 .. (k + 1) - 1 : i <= Len(w) => w[i] \in Keyword
      BY <2>2, <3>1
    <3>4. k + 1 \in Nat \ {0}
      OBVIOUS
    <3>5. QED
      BY <3>2, <3>3, <3>4, AgreeAfter
  <2>4. Word(w, 1) \in Leading => Agree(c, w, 2)
    <3>1. ASSUME Word(w, 1) \in Leading PROVE Agree(c, w, 1 + 1)
      <4>1. \A j \in 1 .. 1 : Word(w, j) \in Leading
        BY <3>1
      <4>2. QED
        BY <2>3, <4>1
    <3>2. QED
      BY <3>1
  <2>5. Word(w, 1) \in Leading /\ Word(w, 2) \in Leading => Agree(c, w, 3)
    <3>1. ASSUME Word(w, 1) \in Leading, Word(w, 2) \in Leading PROVE Agree(c, w, 2 + 1)
      <4>1. \A j \in 1 .. 2 : Word(w, j) \in Leading
        BY <3>1
      <4>2. QED
        BY <2>3, <4>1
    <3>2. QED
      BY <3>1
  <2>6. Word(w, 1) \in Leading /\ Word(w, 2) \in Leading /\ Word(w, 3) \in Leading => Agree(c, w, 4)
    <3>1. ASSUME Word(w, 1) \in Leading, Word(w, 2) \in Leading, Word(w, 3) \in Leading PROVE Agree(c, w, 3 + 1)
      <4>1. \A j \in 1 .. 3 : Word(w, j) \in Leading
        BY <3>1
      <4>2. QED
        BY <2>3, <4>1
    <3>2. QED
      BY <3>1
  <2>7. /\ {"SET", "CREATE", "GLOBAL", "LOCAL", "TEMP", "TEMPORARY"} \subseteq Leading
        /\ {"SET", "CREATE", "GLOBAL", "LOCAL", "TEMP", "TEMPORARY", "TRANSACTION", "CONSTRAINTS", "TABLE"} \subseteq Keyword
    BY Zenon DEF Leading, Keyword
  <2>8. 2 + 1 = 3 /\ 3 + 1 = 4
    OBVIOUS
  <2>9. /\ Word(c, 1) = "SET" <=> Word(w, 1) = "SET"
        /\ Word(c, 1) = "CREATE" <=> Word(w, 1) = "CREATE"
    BY <2>1, <2>7 DEF Agree
  <2>10. CASE Word(w, 1) = "SET"
    <3>1. Agree(c, w, 2)
      BY <2>4, <2>7, <2>10
    <3>2. Word(c, 2) \in {"LOCAL", "TRANSACTION", "CONSTRAINTS"} <=> Word(w, 2) \in {"LOCAL", "TRANSACTION", "CONSTRAINTS"}
      BY <2>7, <3>1 DEF Agree
    <3>3. QED
      BY <2>9, <2>10, <3>2 DEF Local
  <2>11. CASE Word(w, 1) = "CREATE"
    <3>1. Agree(c, w, 2) /\ Word(w, 1) \in Leading
      BY <2>4, <2>7, <2>11
    <3>2. \A x \in {"GLOBAL", "LOCAL", "TEMP", "TEMPORARY"} : Word(c, 2) = x <=> Word(w, 2) = x
      BY <2>7, <3>1 DEF Agree
    <3>3. Made(c, 2) <=> Made(w, 2)
      <4>1. CASE Word(w, 2) \in {"TEMP", "TEMPORARY"}
        <5>1. Agree(c, w, 3)
          BY <2>5, <2>7, <3>1, <4>1
        <5>2. Word(c, 3) = "TABLE" <=> Word(w, 3) = "TABLE"
          BY <2>7, <5>1 DEF Agree
        <5>3. QED
          BY <2>8, <3>2, <4>1, <5>2 DEF Made
      <4>2. CASE Word(w, 2) \notin {"TEMP", "TEMPORARY"}
        BY <3>2, <4>2 DEF Made
      <4>3. QED
        BY <4>1, <4>2
    <3>4. Word(c, 2) \in {"GLOBAL", "LOCAL"} /\ Made(c, 3) <=> Word(w, 2) \in {"GLOBAL", "LOCAL"} /\ Made(w, 3)
      <4>1. CASE Word(w, 2) \in {"GLOBAL", "LOCAL"}
        <5>1. Agree(c, w, 3) /\ Word(w, 2) \in Leading
          BY <2>5, <2>7, <3>1, <4>1
        <5>2. \A x \in {"TEMP", "TEMPORARY"} : Word(c, 3) = x <=> Word(w, 3) = x
          BY <2>7, <5>1 DEF Agree
        <5>3. CASE Word(w, 3) \in {"TEMP", "TEMPORARY"}
          <6>1. Agree(c, w, 4)
            BY <2>6, <2>7, <3>1, <5>1, <5>3
          <6>2. Word(c, 4) = "TABLE" <=> Word(w, 4) = "TABLE"
            BY <2>7, <6>1 DEF Agree
          <6>3. QED
            BY <2>8, <3>2, <4>1, <5>2, <5>3, <6>2 DEF Made
        <5>4. CASE Word(w, 3) \notin {"TEMP", "TEMPORARY"}
          BY <5>2, <5>4 DEF Made
        <5>5. QED
          BY <5>3, <5>4
      <4>2. CASE Word(w, 2) \notin {"GLOBAL", "LOCAL"}
        BY <3>2, <4>2
      <4>3. QED
        BY <4>1, <4>2
    <3>5. QED
      BY <2>9, <2>11, <3>3, <3>4 DEF Local
  <2>12. CASE Word(w, 1) # "SET" /\ Word(w, 1) # "CREATE"
    BY <2>9, <2>12 DEF Local
  <2>13. QED
    BY <2>10, <2>11, <2>12
<1>4. QED
  BY <1>2, <1>3

-----------------------------------------------------------------------------
(* Where a statement starts. *)

\* Past the next such mark.
After(text, mark, k) ==
  LET at == {j \in k .. Len(text) : text[j] = mark}
  IN  IF at = {} THEN Len(text) + 1 ELSE Least(at) + 1
Starts(f, text, i) ==
  f = [k \in i .. Len(text) + 1 |->
        IF k = Len(text) + 1 THEN Len(text) + 1
        ELSE IF text[k] = EndOfLine THEN f[k + 1]
        ELSE IF text[k] = "--" THEN f[After(text, EndOfLine, k)]
        ELSE IF text[k] = "/*" THEN f[After(text, "*/", k)]
        ELSE k]

\* The place after a mark, and that nothing before it is one.
LEMMA AfterIs ==
  ASSUME NEW text, Len(text) \in Nat, NEW mark, NEW k \in 1 .. Len(text)
  PROVE  /\ After(text, mark, k) \in k + 1 .. Len(text) + 1
         /\ \/ After(text, mark, k) = Len(text) + 1 /\ \A j \in k .. Len(text) : text[j] # mark
            \/ /\ After(text, mark, k) - 1 \in k .. Len(text) /\ text[After(text, mark, k) - 1] = mark
               /\ \A j \in k .. After(text, mark, k) - 2 : text[j] # mark
<1> DEFINE at == {j \in k .. Len(text) : text[j] = mark}
<1>1. CASE at = {}
  <2>1. After(text, mark, k) = Len(text) + 1
    BY <1>1 DEF After
  <2>2. QED
    BY <1>1, <2>1
<1>2. CASE at # {}
  <2>1. at \in SUBSET Nat /\ at \subseteq k .. Len(text)
    OBVIOUS
  <2>2. \E n \in at : \A m \in at : n <= m
    <3> HIDE DEF at
    <3>1. QED
      BY <1>2, <2>1, LeastOne
  <2>3. Least(at) \in at /\ \A m \in at : Least(at) <= m
    <3> HIDE DEF at
    <3>1. QED
      BY <2>2 DEF Least
  <2>4. After(text, mark, k) = Least(at) + 1
    BY <1>2 DEF After
  <2>5. PICK l : l = Least(at)
    OBVIOUS
  <2>6. l \in k .. Len(text) /\ text[l] = mark /\ \A m \in at : l <= m
    BY <2>3, <2>5
  <2>7. \A j \in k .. l - 1 : text[j] # mark
    BY <2>6
  <2>8. PICK a : a = After(text, mark, k)
    OBVIOUS
  <2>9. a = l + 1 /\ a - 1 = l /\ a - 2 = l - 1 /\ a \in k + 1 .. Len(text) + 1
    BY <2>4, <2>5, <2>6, <2>8
  <2>10. QED
    BY <2>6, <2>7, <2>8, <2>9
<1>3. QED
  BY <1>1, <1>2

\* strip_leading_sql_comments comes to an end.
LEMMA StartExists ==
  ASSUME NEW text, Len(text) \in Nat
  PROVE  \E f : Starts(f, text, 1)
<1> DEFINE end == Len(text) + 1
           T == {d \in 0 .. Len(text) : ~ \E f : Starts(f, text, end - d)}
<1>1. ASSUME T # {} PROVE FALSE
  <2>1. T \in SUBSET Nat
    OBVIOUS
  <2>2. PICK d \in T : \A j \in T : d <= j
    <3> HIDE DEF T
    <3>1. QED
      BY <1>1, <2>1, LeastOne
  <2>3. d \in 0 .. Len(text) /\ ~ \E f : Starts(f, text, end - d)
    BY <2>2
  <2>4. CASE d = 0
    <3> DEFINE f == [k \in end .. end |-> end]
    <3>1. f = [k \in end .. Len(text) + 1 |->
                IF k = Len(text) + 1 THEN Len(text) + 1
                ELSE IF text[k] = EndOfLine THEN f[k + 1]
                ELSE IF text[k] = "--" THEN f[After(text, EndOfLine, k)]
                ELSE IF text[k] = "/*" THEN f[After(text, "*/", k)]
                ELSE k]
      OBVIOUS
    <3>2. end - d = end
      BY <2>4
    <3>3. Starts(f, text, end - d)
      BY <3>1, <3>2 DEF Starts
    <3>4. QED
      BY <2>3, <3>3
  <2>5. CASE d # 0
    <3>1. d - 1 \in 0 .. Len(text) /\ d - 1 \notin T
      <4>1. d - 1 \in 0 .. Len(text) /\ ~(d <= d - 1)
        BY <2>3, <2>5
      <4>2. d - 1 \notin T
        <5> HIDE DEF T
        <5>1. QED
          BY <2>2, <4>1
      <4>3. QED
        BY <4>1, <4>2
    <3>2. PICK g : Starts(g, text, end - (d - 1))
      BY <3>1
    <3>3. PICK i : i = end - d
      OBVIOUS
    <3>4. i \in 1 .. Len(text) /\ end - (d - 1) = i + 1
      BY <2>3, <2>5, <3>3
    <3> DEFINE Rule(f, k) == IF k = Len(text) + 1 THEN Len(text) + 1
                             ELSE IF text[k] = EndOfLine THEN f[k + 1]
                             ELSE IF text[k] = "--" THEN f[After(text, EndOfLine, k)]
                             ELSE IF text[k] = "/*" THEN f[After(text, "*/", k)]
                             ELSE k
               f == [k \in i .. end |-> IF k = i THEN Rule(g, k) ELSE g[k]]
    <3>5. g = [k \in i + 1 .. end |-> Rule(g, k)]
      BY <3>2, <3>4 DEF Starts
    <3>6. \A k \in i + 1 .. end : f[k] = g[k]
      BY <3>4
    <3>7. \A k \in i .. Len(text) : /\ k + 1 \in i + 1 .. end
                                    /\ After(text, EndOfLine, k) \in i + 1 .. end
                                    /\ After(text, "*/", k) \in i + 1 .. end
      <4>1. ASSUME NEW k \in i .. Len(text) PROVE k \in 1 .. Len(text) /\ k + 1 \in i + 1 .. end
        BY <3>4
      <4>2. ASSUME NEW k \in i .. Len(text), NEW mark PROVE After(text, mark, k) \in i + 1 .. end
        <5>1. After(text, mark, k) \in k + 1 .. Len(text) + 1
          BY <4>1, AfterIs
        <5>2. QED
          BY <3>4, <5>1
      <4>3. QED
        BY <4>1, <4>2
    <3>8. \A k \in i .. end : Rule(f, k) = Rule(g, k)
      <4> HIDE DEF f
      <4>1. ASSUME NEW k \in i .. end PROVE Rule(f, k) = Rule(g, k)
        <5>1. CASE k = end
          BY <5>1
        <5>2. CASE k # end
          <6>1. k \in i .. Len(text)
            BY <3>4, <5>2
          <6>2. f[k + 1] = g[k + 1] /\ f[After(text, EndOfLine, k)] = g[After(text, EndOfLine, k)]
                /\ f[After(text, "*/", k)] = g[After(text, "*/", k)]
            BY <3>6, <3>7, <6>1
          <6>3. QED
            BY <6>2
        <5>3. QED
          BY <5>1, <5>2
      <4>2. QED
        BY <4>1
    <3>9. \A k \in i + 1 .. end : g[k] = Rule(g, k)
      <4> HIDE DEF Rule
      <4>1. QED
        BY <3>5
    <3>10. f = [k \in i .. end |-> Rule(f, k)]
      <4>1. \A k \in i .. end : f[k] = Rule(f, k)
        <5> HIDE DEF Rule
        <5>1. ASSUME NEW k \in i .. end PROVE f[k] = Rule(g, k)
          <6>1. k = i \/ k \in i + 1 .. end
            BY <3>4
          <6>2. QED
            BY <3>9, <6>1
        <5>2. QED
          BY <3>8, <5>1
      <4>2. f = [k \in i .. end |-> f[k]]
        OBVIOUS
      <4> HIDE DEF f, Rule
      <4>3. QED
        BY <4>1, <4>2
    <3>11. Starts(f, text, i)
      <4> HIDE DEF f
      <4>1. QED
        BY <3>10 DEF Starts
    <3>12. QED
      BY <2>3, <3>3, <3>11
  <2>6. QED
    BY <2>4, <2>5
<1>2. Len(text) \in 0 .. Len(text) /\ end - Len(text) = 1
  OBVIOUS
<1>3. QED
  BY <1>1, <1>2

Comments == {EndOfLine, "--", "/*"}
Following(text, k) ==
  IF text[k] = EndOfLine THEN k + 1
  ELSE IF text[k] = "--" THEN After(text, EndOfLine, k) ELSE After(text, "*/", k)

\* The start is where no comment is left to skip.
LEMMA StartIs ==
  ASSUME NEW text, Len(text) \in Nat
  PROVE  \E f : /\ Start(text) = f[1] /\ f[Len(text) + 1] = Len(text) + 1
                /\ \A k \in 1 .. Len(text) : f[k] = IF text[k] \in Comments THEN f[Following(text, k)] ELSE k
<1>1. \E f : Starts(f, text, 1)
  BY StartExists
<1> DEFINE f == CHOOSE u : u = [k \in 1 .. Len(text) + 1 |->
                  IF k = Len(text) + 1 THEN Len(text) + 1
                  ELSE IF text[k] = EndOfLine THEN u[k + 1]
                  ELSE IF text[k] = "--" THEN u[After(text, EndOfLine, k)]
                  ELSE IF text[k] = "/*" THEN u[After(text, "*/", k)]
                  ELSE k]
<1>2. Start(text) = f[1]
  BY DEF Start, After
<1>3. Starts(f, text, 1)
  BY <1>1, Zenon DEF Starts
<1> HIDE DEF f
<1>4. f[Len(text) + 1] = Len(text) + 1
  BY <1>3 DEF Starts
<1>5. ASSUME NEW k \in 1 .. Len(text)
      PROVE  f[k] = IF text[k] \in Comments THEN f[Following(text, k)] ELSE k
  <2>1. f[k] = IF k = Len(text) + 1 THEN Len(text) + 1
               ELSE IF text[k] = EndOfLine THEN f[k + 1]
               ELSE IF text[k] = "--" THEN f[After(text, EndOfLine, k)]
               ELSE IF text[k] = "/*" THEN f[After(text, "*/", k)]
               ELSE k
    BY <1>3 DEF Starts
  <2>2. k # Len(text) + 1
    OBVIOUS
  <2>3. QED
    BY <2>1, <2>2 DEF Comments, Following
<1>6. QED
  BY <1>2, <1>4, <1>5

\* No word yet, and outside a comment or at the end.
Wordless(text, k) ==
  /\ k \in 1 .. Len(text) + 1 /\ Outside(Prefix(text, k - 1)).words = <<>>
  /\ k <= Len(text) => Outer(Outside(Prefix(text, k - 1)))

\* The reader's state within a comment that began before any word.
Within(x, depth, line) == x \in LexState /\ x.depth = depth /\ x.line = line /\ x.quote = {} /\ x.words = <<>>

\* A comment up to the end of the line, token by token.
LEMMA WithinLine ==
  ASSUME NEW x, NEW c
  PROVE  /\ Within(x, 0, TRUE) /\ c # EndOfLine => Within(Lex(x, c), 0, TRUE)
         /\ Within(x, 0, TRUE) /\ c = EndOfLine => Within(Lex(x, c), 0, FALSE)
<1>1. ASSUME Within(x, 0, TRUE) PROVE Lex(x, c) = [x EXCEPT !.line = c # EndOfLine]
  BY <1>1 DEF Lex, Within
<1>2. QED
  BY <1>1 DEF Within, LexState

\* A block comment without another in it, token by token.
LEMMA WithinBlock ==
  ASSUME NEW x, NEW c, c # "/*"
  PROVE  /\ Within(x, 1, FALSE) /\ c # "*/" => Within(Lex(x, c), 1, FALSE)
         /\ Within(x, 1, FALSE) /\ c = "*/" => Within(Lex(x, c), 0, FALSE)
<1>1. ASSUME Within(x, 1, FALSE) PROVE Lex(x, c) = [x EXCEPT !.depth = IF c = "*/" THEN @ - 1 ELSE @]
  BY <1>1 DEF Lex, Within
<1>2. ASSUME Within(x, 1, FALSE), c # "*/" PROVE Within(Lex(x, c), 1, FALSE)
  <2>1. Lex(x, c) = [x EXCEPT !.depth = @]
    BY <1>1, <1>2
  <2>2. Lex(x, c) = x
    BY <1>2, <2>1 DEF Within, LexState
  <2>3. QED
    BY <1>2, <2>2
<1>3. ASSUME Within(x, 1, FALSE), c = "*/" PROVE Within(Lex(x, c), 0, FALSE)
  <2>1. Lex(x, c) = [x EXCEPT !.depth = @ - 1]
    BY <1>1, <1>3
  <2>2. QED
    BY <1>3, <2>1 DEF Within, LexState
<1>4. QED
  BY <1>2, <1>3

\* Where comments begin.
LEMMA WithinOuter ==
  ASSUME NEW x, NEW c, Within(x, 0, FALSE)
  PROVE  /\ c = "/*" => Within(Lex(x, c), 1, FALSE)
         /\ c = "--" => Within(Lex(x, c), 0, TRUE)
         /\ c = EndOfLine => Within(Lex(x, c), 0, FALSE)
<1>1. c = "/*" => Lex(x, c) = [x EXCEPT !.depth = 1]
  BY DEF Lex, Within
<1>2. c = "--" => Lex(x, c) = [x EXCEPT !.line = TRUE]
  BY DEF Lex, Within
<1>3. c = EndOfLine => Lex(x, c) = x
  <2>1. ASSUME c = EndOfLine PROVE c # "/*" /\ c # "--" /\ c \notin {"'", "$"} /\ c \in Ignored
    BY <2>1, Zenon DEF EndOfLine, Ignored
  <2>2. QED
    BY <2>1 DEF Lex, Within
<1>4. [x EXCEPT !.depth = 1] \in LexState /\ Within([x EXCEPT !.depth = 1], 1, FALSE)
  BY DEF Within, LexState
<1>5. Within([x EXCEPT !.line = TRUE], 0, TRUE)
  BY DEF Within, LexState
<1>6. QED
  BY <1>1, <1>2, <1>3, <1>4, <1>5

\* A state lasts from one place to another where every token between keeps it.
LEMMA Lasting ==
  ASSUME NEW text \in Text, NEW depth, NEW line, NEW k \in 0 .. Len(text), NEW m \in k .. Len(text),
         Within(Outside(Prefix(text, k)), depth, line),
         \A j \in k + 1 .. m :
           Within(Outside(Prefix(text, j - 1)), depth, line) => Within(Outside(Prefix(text, j)), depth, line)
  PROVE  Within(Outside(Prefix(text, m)), depth, line)
<1>1. Len(text) \in Nat
  BY WholePrefix
<1> DEFINE W(j) == Within(Outside(Prefix(text, j)), depth, line)
           T == {j \in k .. m : ~W(j)}
<1>2. ASSUME T # {} PROVE FALSE
  <2>1. T \in SUBSET Nat
    BY <1>1
  <2>2. PICK j \in T : \A i \in T : j <= i
    <3> HIDE DEF T
    <3>1. QED
      BY <1>2, <2>1, LeastOne
  <2>3. j \in k .. m /\ ~W(j) /\ j # k
    BY <2>2
  <2>4. j \in 1 .. Len(text) /\ j - 1 \in k .. m /\ ~(j <= j - 1) /\ j \in k + 1 .. m
    BY <1>1, <2>3
  <2>5. j - 1 \notin T
    <3> HIDE DEF T
    <3>1. QED
      BY <2>2, <2>4
  <2>6. W(j - 1)
    BY <2>4, <2>5
  <2>8. W(j)
    BY <2>4, <2>6
  <2>9. QED
    BY <2>3, <2>8
<1>3. m \in k .. m
  BY <1>1
<1>4. QED
  BY <1>2, <1>3

\* What is skipped before the statement holds no word of it.
LEMMA SkippedWordless ==
  ASSUME NEW text \in Text, ~NestedComment(text), NEW k \in 1 .. Len(text), Wordless(text, k), text[k] \in Comments
  PROVE  Wordless(text, Following(text, k)) /\ Following(text, k) \in k + 1 .. Len(text) + 1
<1>1. Len(text) \in Nat /\ k - 1 \in 0 .. Len(text) /\ k \in 0 .. Len(text)
  BY WholePrefix
<1> DEFINE x(j) == Outside(Prefix(text, j))
<1>2. Within(x(k - 1), 0, FALSE)
  <2>1. x(k - 1) \in LexState
    BY <1>1, OutsideType
  <2>2. QED
    BY <1>1, <2>1 DEF Wordless, Within, Outer, LexState
<1>3. x(k) = Lex(x(k - 1), text[k])
  BY OutsideStep
<1>4. ASSUME NEW m \in 0 .. Len(text), Within(x(m), 0, FALSE) PROVE Wordless(text, m + 1)
  BY <1>1, <1>4 DEF Within, Wordless, Outer
<1>5. ASSUME NEW depth, NEW line, Within(x(Len(text)), depth, line) PROVE Wordless(text, Len(text) + 1)
  <2>1. (Len(text) + 1) - 1 = Len(text) /\ Len(text) + 1 \in 1 .. Len(text) + 1 /\ ~(Len(text) + 1 <= Len(text))
    BY <1>1
  <2>2. QED
    BY <1>5, <2>1 DEF Within, Wordless
<1>6. ASSUME NEW mark, mark \in {EndOfLine, "*/"}, NEW depth, NEW line, Within(x(k), depth, line), text[k] # mark,
             \A j \in k + 1 .. Len(text) :
               /\ Within(x(j - 1), depth, line) /\ text[j] # mark => Within(x(j), depth, line)
               /\ Within(x(j - 1), depth, line) /\ text[j] = mark => Within(x(j), 0, FALSE)
      PROVE  Wordless(text, After(text, mark, k)) /\ After(text, mark, k) \in k + 1 .. Len(text) + 1
  <2>1. PICK a : a = After(text, mark, k)
    OBVIOUS
  <2>2. /\ a \in k + 1 .. Len(text) + 1
        /\ \/ a = Len(text) + 1 /\ \A j \in k .. Len(text) : text[j] # mark
           \/ a - 1 \in k .. Len(text) /\ text[a - 1] = mark /\ \A j \in k .. a - 2 : text[j] # mark
    BY <1>1, <2>1, AfterIs
  <2>3. CASE a = Len(text) + 1 /\ \A j \in k .. Len(text) : text[j] # mark
    <3>1. Len(text) \in k .. Len(text) /\ \A j \in k + 1 .. Len(text) : text[j] # mark
      BY <1>1, <2>3
    <3>2. \A j \in k + 1 .. Len(text) : Within(x(j - 1), depth, line) => Within(x(j), depth, line)
      BY <1>6, <3>1
    <3>3. Within(x(Len(text)), depth, line)
      <4> HIDE DEF Within
      <4>1. QED
        BY <1>1, <1>6, <3>1, <3>2, Lasting
    <3>4. QED
      BY <1>5, <2>1, <2>2, <2>3, <3>3
  <2>4. CASE a - 1 \in k .. Len(text) /\ text[a - 1] = mark /\ \A j \in k .. a - 2 : text[j] # mark
    <3>1. a - 1 # k
      BY <1>6, <2>4
    <3>2. PICK m : m = a - 2
      OBVIOUS
    <3>3. /\ m \in k .. Len(text) /\ m + 1 \in 1 .. Len(text) /\ m + 1 \in k + 1 .. Len(text) /\ m + 1 = a - 1 /\ (m + 1) - 1 = m
          /\ m + 1 \in 0 .. Len(text) /\ (m + 1) + 1 = a
          /\ \A j \in k + 1 .. m : j \in k + 1 .. Len(text) /\ j \in k .. a - 2
      BY <1>1, <2>2, <2>4, <3>1, <3>2
    <3>4. \A j \in k + 1 .. m : Within(x(j - 1), depth, line) => Within(x(j), depth, line)
      BY <1>6, <2>4, <3>3
    <3>5. Within(x(m), depth, line)
      BY <1>1, <1>6, <3>3, <3>4, Lasting
    <3>7. text[m + 1] = mark
      BY <2>4, <3>3
    <3>8. Within(x(m + 1), 0, FALSE)
      BY <1>6, <3>3, <3>5, <3>7
    <3>9. Wordless(text, (m + 1) + 1)
      BY <1>4, <3>3, <3>8
    <3>10. QED
      BY <2>1, <2>2, <3>3, <3>9
  <2>5. QED
    BY <2>2, <2>3, <2>4
<1>7. \A j \in k + 1 .. Len(text) : x(j) = Lex(x(j - 1), text[j]) /\ j \in 1 .. Len(text)
  <2>1. ASSUME NEW j \in k + 1 .. Len(text) PROVE j \in 1 .. Len(text)
    BY <1>1
  <2>2. QED
    BY <2>1, OutsideStep
<1>8. CASE text[k] = EndOfLine
  <2>1. Within(x(k), 0, FALSE)
    BY <1>2, <1>3, <1>8, WithinOuter
  <2>2. Following(text, k) = k + 1
    BY <1>8 DEF Following
  <2>3. Wordless(text, k + 1)
    BY <1>1, <1>4, <2>1
  <2>4. k + 1 \in k + 1 .. Len(text) + 1
    BY <1>1
  <2>5. QED
    BY <2>2, <2>3, <2>4
<1>9. CASE text[k] = "--"
  <2>1. Within(x(k), 0, TRUE) /\ text[k] # EndOfLine
    BY <1>2, <1>3, <1>9, WithinOuter DEF EndOfLine
  <2>2. Following(text, k) = After(text, EndOfLine, k)
    BY <1>9, <2>1 DEF Following
  <2>3. \A j \in k + 1 .. Len(text) :
          /\ Within(x(j - 1), 0, TRUE) /\ text[j] # EndOfLine => Within(x(j), 0, TRUE)
          /\ Within(x(j - 1), 0, TRUE) /\ text[j] = EndOfLine => Within(x(j), 0, FALSE)
    BY <1>7, WithinLine
  <2> HIDE DEF x
  <2>4. QED
    BY <1>6, <2>1, <2>2, <2>3
<1>10. CASE text[k] = "/*"
  <2>1. Within(x(k), 1, FALSE) /\ text[k] # EndOfLine /\ text[k] # "--" /\ text[k] # "*/"
    BY <1>2, <1>3, <1>10, WithinOuter DEF EndOfLine
  <2>2. Following(text, k) = After(text, "*/", k)
    BY <2>1 DEF Following
  <2>3. ASSUME NEW j \in k + 1 .. Len(text), Within(x(j - 1), 1, FALSE) PROVE text[j] # "/*"
    <3>1. x(j - 1).depth > 0 /\ x(j - 1).words = <<>>
      BY <2>3 DEF Within
    <3>2. j \in 1 .. Len(text)
      BY <1>7
    <3>3. QED
      BY <3>1, <3>2 DEF NestedComment, Prefix
  <2>4. \A j \in k + 1 .. Len(text) :
          /\ Within(x(j - 1), 1, FALSE) /\ text[j] # "*/" => Within(x(j), 1, FALSE)
          /\ Within(x(j - 1), 1, FALSE) /\ text[j] = "*/" => Within(x(j), 0, FALSE)
    BY <1>7, <2>3, WithinBlock
  <2> HIDE DEF x
  <2>5. QED
    BY <1>6, <2>1, <2>2, <2>4
<1>11. QED
  BY <1>8, <1>9, <1>10 DEF Comments

\* Where the statement starts there is a token of its own, or none.
LEMMA StartWordless ==
  ASSUME NEW text \in Text, ~NestedComment(text)
  PROVE  /\ Wordless(text, Start(text))
         /\ Start(text) <= Len(text) => text[Start(text)] \notin Comments
<1>1. Len(text) \in Nat
  BY WholePrefix
<1>2. PICK f : /\ Start(text) = f[1] /\ f[Len(text) + 1] = Len(text) + 1
               /\ \A k \in 1 .. Len(text) : f[k] = IF text[k] \in Comments THEN f[Following(text, k)] ELSE k
  BY <1>1, StartIs
<1> DEFINE end == Len(text) + 1
           Right(k) == Wordless(text, f[k]) /\ (f[k] <= Len(text) => text[f[k]] \notin Comments)
           T == {d \in 0 .. Len(text) : Wordless(text, end - d) /\ ~Right(end - d)}
<1>3. ASSUME T # {} PROVE FALSE
  <2>1. T \in SUBSET Nat
    OBVIOUS
  <2>2. PICK d \in T : \A i \in T : d <= i
    <3> HIDE DEF T
    <3>1. QED
      BY <1>3, <2>1, LeastOne
  <2>3. PICK k : k = end - d
    OBVIOUS
  <2>4. d \in 0 .. Len(text) /\ k \in 1 .. end /\ Wordless(text, k) /\ ~Right(k)
    BY <1>1, <2>2, <2>3
  <2>5. CASE k = end
    <3>1. f[k] = k
      BY <1>2, <2>5
    <3>2. Right(k)
      BY <1>1, <2>4, <2>5, <3>1
    <3>3. QED
      BY <2>4, <3>2
  <2>6. CASE k # end /\ text[k] \notin Comments
    <3>1. k \in 1 .. Len(text)
      BY <1>1, <2>4, <2>6
    <3>2. f[k] = k
      BY <1>2, <2>6, <3>1
    <3>3. Right(k)
      BY <2>4, <2>6, <3>2
    <3>4. QED
      BY <2>4, <3>3
  <2>7. CASE k # end /\ text[k] \in Comments
    <3>1. k \in 1 .. Len(text)
      BY <1>1, <2>4, <2>7
    <3>2. PICK m : m = Following(text, k)
      OBVIOUS
    <3>3. f[k] = f[m]
      BY <1>2, <2>7, <3>1, <3>2
    <3>4. Wordless(text, m) /\ m \in k + 1 .. Len(text) + 1
      BY <2>4, <2>7, <3>1, <3>2, SkippedWordless
    <3>5. end - m \in 0 .. Len(text) /\ ~(d <= end - m) /\ end - (end - m) = m
      BY <1>1, <2>3, <2>4, <3>4
    <3>6. end - m \notin T
      <4> HIDE DEF T
      <4>1. QED
        BY <2>2, <3>5
    <3>7. Right(m)
      <4> HIDE DEF Right
      <4>1. QED
        BY <3>4, <3>5, <3>6
    <3>8. QED
      BY <2>4, <3>3, <3>7
  <2>8. QED
    BY <2>5, <2>6, <2>7
<1>4. Wordless(text, 1)
  <2>1. Outside(Prefix(text, 0)) = Unlexed /\ 1 - 1 = 0 /\ 1 \in 1 .. Len(text) + 1
    BY <1>1, OutsideNothing
  <2>2. QED
    BY <2>1 DEF Wordless, Unlexed, Outer
<1>5. Len(text) \in 0 .. Len(text) /\ end - Len(text) = 1
  BY <1>1
<1>6. Right(1)
  <2>1. Len(text) \notin T
    <3> HIDE DEF T
    <3>1. QED
      BY <1>3
  <2> HIDE DEF Right
  <2>2. QED
    BY <1>4, <1>5, <2>1
<1>7. QED
  BY <1>2, <1>6

\* A statement's first word is the token it starts with.
LEMMA FirstIs ==
  ASSUME NEW text \in Text, ~NestedComment(text), One(text)
  PROVE  \/ Outside(text).words = <<>> /\ FirstToken(text) \in {NoWord, Semicolon}
         \/ /\ Len(Outside(text).words) \in Nat /\ 1 <= Len(Outside(text).words)
            /\ Outside(text).words[1] = FirstToken(text)
<1>1. Len(text) \in Nat /\ (\A i \in 1 .. Len(text) : text[i] \in STRING) /\ Outside(Prefix(text, Len(text))) = Outside(text)
  BY WholePrefix, LenProperties, ElementOfSeq DEF Text
<1>2. PICK p : p = Start(text)
  OBVIOUS
<1>3. Wordless(text, p) /\ p \in 1 .. Len(text) + 1 /\ (p <= Len(text) => text[p] \notin Comments)
  BY <1>2, StartWordless DEF Wordless
<1>4. CASE p = Len(text) + 1
  <2>1. ~(p <= Len(text)) /\ p - 1 = Len(text)
    BY <1>1, <1>4
  <2>2. FirstToken(text) = NoWord
    BY <1>2, <2>1 DEF FirstToken, Word
  <2>3. Outside(text).words = <<>>
    BY <1>1, <1>3, <2>1 DEF Wordless
  <2>4. QED
    BY <2>2, <2>3
<1>5. CASE p # Len(text) + 1
  <2>1. /\ p \in 1 .. Len(text) /\ p <= Len(text) /\ p - 1 \in 0 .. Len(text) /\ p \in 0 .. Len(text)
        /\ Len(text) \in p .. Len(text) /\ Len(text) \in p - 1 .. Len(text)
    BY <1>1, <1>3, <1>5
  <2>2. PICK c : c = text[p]
    OBVIOUS
  <2>3. FirstToken(text) = c
    BY <1>2, <2>1, <2>2 DEF FirstToken, Word
  <2>4. PICK x : x = Outside(Prefix(text, p - 1))
    OBVIOUS
  <2>5. Outer(x) /\ x.words = <<>> /\ x \in LexState
    BY <1>3, <2>1, <2>4, OutsideType DEF Wordless
  <2>6. CASE c = Semicolon
    <3>1. Outside(text).words = x.words
      <4>1. text[p] = Semicolon /\ Outer(Outside(Prefix(text, p - 1)))
        BY <2>2, <2>4, <2>5, <2>6
      <4>2. QED
        BY <2>1, <2>4, <4>1 DEF One, Prefix
    <3>2. QED
      BY <2>3, <2>5, <2>6, <3>1
  <2>7. CASE c # Semicolon
    <3>1. c \notin Ignored /\ c # "/*" /\ c # "--"
      <4>1. c # EndOfLine /\ c # "/*" /\ c # "--"
        BY <1>3, <2>1, <2>2, Zenon DEF Comments
      <4>2. QED
        BY <2>7, <4>1, Zenon DEF Ignored
    <3>2. Lex(x, c).words = Append(x.words, c)
      BY <2>5, <3>1 DEF Lex, Outer, LexState
    <3>3. PICK v : v = Outside(Prefix(text, p)).words
      OBVIOUS
    <3>4. v = Append(x.words, c)
      BY <2>1, <2>2, <2>4, <3>2, <3>3, OutsideStep
    <3>5. x.words \in Text /\ c \in STRING /\ Len(x.words) = 0
      <4>1. x.words \in Text /\ c \in STRING
        BY <1>1, <2>1, <2>2, <2>5 DEF LexState
      <4>2. Len(x.words) = 0
        BY <2>5, EmptySeq
      <4>3. QED
        BY <4>1, <4>2
    <3>6. More(v, x.words, c)
      BY <3>4, <3>5, OneWordMore
    <3>7. Len(v) = 1 /\ v[Len(v)] = c
      BY <3>5, <3>6 DEF More
    <3>8. v[1] = c
      BY <3>7, Zenon
    <3>9. /\ Len(v) <= Len(Outside(text).words)
          /\ \A i \in 1 .. Len(v) : Outside(text).words[i] = v[i]
      BY <1>1, <2>1, <3>3, WordsGrow
    <3>10. Len(Outside(text).words) \in Nat
      <4>1. Len(text) \in 0 .. Len(text)
        BY <1>1
      <4>2. Outside(text).words \in Text
        BY <1>1, <4>1, OutsideType DEF LexState
      <4>3. QED
        BY <4>2, LenProperties DEF Text
    <3>11. 1 \in 1 .. Len(v)
      BY <3>7
    <3>12. QED
      BY <2>3, <3>7, <3>8, <3>9, <3>10, <3>11
  <2>8. QED
    BY <2>6, <2>7
<1>6. QED
  BY <1>4, <1>5


Path == Seq(STRING)
Client == {"none", "free", "busy"}
BackendState == [path : Path, local : SUBSET Path, base : SUBSET Path, txn : {"idle", "open", "failed"},
                 held : Request \cup {None}, stale : BOOLEAN]
Holding == {"clear", "local", "prepare", "fetch", "trail", "end"}
Lent == {"read", "set", "run"}

\* A request is a record of its five fields, whatever it asks and is answered.
IsRequest(q) == q = [pc |-> q.pc, ask |-> q.ask, on |-> q.on, read |-> q.read, result |-> q.result]

\* The types, and what is fixed of a request by where it is.
Types ==
  /\ pooler \in BOOLEAN
  /\ host \in DOMAIN Host
  /\ client \in [Backend -> Client]
  /\ backend \in [Backend -> BackendState]
  /\ req = [r \in Request |-> req[r]]
  /\ \A r \in Request : /\ IsRequest(req[r])
                        /\ req[r].ask.schema \in STRING \cup {None}
                        /\ req[r].pc \in {"read", "set", "local"} => req[r].ask.schema # None
                        /\ req[r].pc \in Lent \cup Holding => req[r].on \in Backend
                        /\ req[r].read \in SUBSET Path
                        /\ req[r].pc \in {"idle", "answered", "take", "connect", "begin"} \cup Lent \cup Holding

\* A backend is held by the request that has it, and a free one is clean.
Holds ==
  /\ \A b \in Backend : backend[b].held # None =>
       req[backend[b].held].on = b /\ req[backend[b].held].pc \in Holding
  /\ \A b \in Backend : backend[b].held = None => backend[b].txn = "idle" /\ backend[b].local = {}
  /\ \A r \in Request :
       /\ req[r].pc \in Holding \ {"trail", "end"} => backend[req[r].on].held = r
       /\ req[r].pc \in {"local", "prepare"} => ~backend[req[r].on].stale

Pins == Types /\ Holds

\* What putting an element before a sequence gives.
LEMMA Prepended ==
  ASSUME NEW S, NEW q \in Seq(S), NEW s \in S
  PROVE  /\ <<s>> \o q \in Seq(S)
         /\ Head(<<s>> \o q) = s
         /\ Tail(<<s>> \o q) = q
<1> DEFINE one == <<s>>
           p == one \o q
<1>1. one \in Seq(S) /\ Len(one) = 1 /\ one[1] = s
  OBVIOUS
<1> HIDE DEF one
<1>2. p \in Seq(S) /\ Len(p) = 1 + Len(q)
  BY <1>1, ConcatProperties, SMTT(20)
<1>3. \A i \in 1 .. Len(one) + Len(q) : p[i] = IF i <= Len(one) THEN one[i] ELSE q[i - Len(one)]
  BY <1>1, ConcatProperties
<1>4. Len(q) \in Nat
  BY LenProperties
<1> HIDE DEF p
<1>5. p[1] = s /\ \A i \in 1 .. Len(q) : p[i + 1] = q[i]
  BY <1>1, <1>3, <1>4
<1>6. p # <<>>
  BY <1>2, <1>4, EmptySeq
<1>7. Tail(p) \in Seq(S) /\ Len(Tail(p)) = Len(p) - 1 /\ \A i \in 1 .. Len(Tail(p)) : Tail(p)[i] = p[i + 1]
  BY <1>2, <1>6, HeadTailProperties
<1>8. Tail(p) = q
  BY <1>2, <1>4, <1>5, <1>7, SeqEqual
<1>9. Head(p) = s
  BY <1>2, <1>5, <1>6
<1> QED BY <1>2, <1>8, <1>9 DEF p, one

-----------------------------------------------------------------------------
(* Isolation. *)

\* It holds at the start.
LEMMA Initially == Init => Pins
<1> SUFFICES ASSUME Init PROVE Pins
  OBVIOUS
<1>1. Fresh \in BackendState
  BY ConstantsOK DEF ConstantsOK, Fresh, BackendState, Path
<1>2. Types
  <2>1. NoAsk.schema = None
    BY Zenon DEF NoAsk
  <2>2. \A r \in Request : /\ IsRequest(req[r]) /\ req[r].ask = NoAsk
                           /\ req[r].read = {} /\ req[r].pc = "idle"
    BY DEF Init, IsRequest
  <2>3. /\ req = [r \in Request |-> req[r]]
        /\ client \in [Backend -> Client]
    BY DEF Init, Client, None
  <2>4. backend \in [Backend -> BackendState] /\ pooler \in BOOLEAN /\ host \in DOMAIN Host
    BY <1>1 DEF Init
  <2> QED BY <2>1, <2>2, <2>3, <2>4 DEF Types, Lent, Holding
<1>3. Holds
  BY DEF Init, Holds, Fresh, Holding
<1> QED BY <1>2, <1>3 DEF Pins

\* The search_path made for a request is a path.
LEMMA SearchPathType ==
  ASSUME Types, NEW b \in Backend, NEW s \in STRING
  PROVE  BaseOf(b) \in Path /\ SearchPath(s, b) = <<s>> \o BaseOf(b) /\ SearchPath(s, b) \in Path
<1>1. backend[b] \in BackendState
  BY DEF Types
<1>2. Effective(b) \in Path
  BY <1>1 DEF Effective, BackendState
<1>3. BaseOf(b) \in Path
  BY <1>1, <1>2 DEF BaseOf, BackendState
<1> QED BY <1>3, Prepended DEF SearchPath, Path

\* What a hook leaves on a backend.
LEMMA HookEffect ==
  ASSUME Types, NEW b \in Backend, Hook(b)
  PROVE  /\ backend' \in [Backend -> BackendState]
         /\ \A c \in Backend : /\ backend'[c].held = backend[c].held
                               /\ backend'[c].txn = backend[c].txn
                               /\ backend'[c].local = backend[c].local
                               /\ backend'[c].stale = backend[c].stale
                               /\ backend'[c].path = backend[c].path
<1>1. backend \in [Backend -> BackendState]
  BY DEF Types
<1>2. Effective(b) \in Path
  BY <1>1 DEF Effective, BackendState
<1>3. backend' = backend \/ backend' = [backend EXCEPT ![b].base = {Effective(b)}]
  BY DEF Hook
<1>4. CASE backend' = backend
  BY <1>1, <1>4
<1>5. CASE backend' = [backend EXCEPT ![b].base = {Effective(b)}]
  BY <1>1, <1>2, <1>5 DEF BackendState
<1> QED BY <1>3, <1>4, <1>5

\* The end of a pinned transaction.
LEMMA RolledEffect ==
  ASSUME Types, NEW b \in Backend
  PROVE  /\ Rolled(b) \in [Backend -> BackendState]
         /\ Rolled(b)[b].held = None /\ Rolled(b)[b].txn = "idle" /\ Rolled(b)[b].local = {}
         /\ \A c \in Backend \ {b} : Rolled(b)[c] = backend[c]
<1> DEFINE one == [backend EXCEPT ![b].txn = "idle"]
           two == [one EXCEPT ![b].local = {}]
           all == [two EXCEPT ![b].held = None]
<1>1. /\ one \in [Backend -> BackendState] /\ one[b].txn = "idle"
      /\ \A c \in Backend \ {b} : one[c] = backend[c]
  BY DEF Types, BackendState
<1> HIDE DEF one
<1>2. /\ two \in [Backend -> BackendState] /\ two[b].txn = "idle" /\ two[b].local = {}
      /\ \A c \in Backend \ {b} : two[c] = backend[c]
  BY <1>1 DEF BackendState
<1> HIDE DEF two
<1>3. /\ all \in [Backend -> BackendState] /\ all[b].txn = "idle" /\ all[b].local = {} /\ all[b].held = None
      /\ \A c \in Backend \ {b} : all[c] = backend[c]
  BY <1>2 DEF BackendState
<1>4. Rolled(b) = all
  BY Zenon DEF Rolled, one, two
<1> HIDE DEF all
<1> QED BY <1>3, <1>4

\* What a step does to the requests: it moves one of them.
Moves(r) ==
  /\ req' = [q \in Request |-> req'[q]]
  /\ \A q \in Request \ {r} : req'[q] = req[q]
  /\ IsRequest(req'[r]) /\ req'[r].ask = req[r].ask

\* The forms in which the actions move a request.
LEMMA GotoEffect ==
  ASSUME Types, NEW r \in Request, NEW pc, Goto(r, pc)
  PROVE  /\ Moves(r) /\ req'[r].pc = pc
         /\ req'[r].on = req[r].on /\ req'[r].read = req[r].read /\ req'[r].result = req[r].result
BY DEF Types, IsRequest, Goto, Moves

\* A request takes a client, or is given a backend.
LEMMA EnterEffect ==
  ASSUME Types, NEW r \in Request, NEW pc, NEW on, req' = [req EXCEPT ![r].pc = pc, ![r].on = on]
  PROVE  /\ Moves(r) /\ req'[r].pc = pc
         /\ req'[r].on = on /\ req'[r].read = req[r].read
<1> DEFINE mid == [pc |-> pc, ask |-> req[r].ask, on |-> req[r].on, read |-> req[r].read, result |-> req[r].result]
           new == [pc |-> pc, ask |-> req[r].ask, on |-> on, read |-> req[r].read, result |-> req[r].result]
           one == [p \in Request |-> IF p = r THEN mid ELSE req[p]]
           both == [p \in Request |-> IF p = r THEN new ELSE req[p]]
<1>1. /\ req = [p \in Request |-> req[p]]
      /\ req[r] = [pc |-> req[r].pc, ask |-> req[r].ask, on |-> req[r].on, read |-> req[r].read,
                   result |-> req[r].result]
  BY DEF Types, IsRequest
<1>2. [req EXCEPT ![r].pc = pc] = one
  BY <1>1
<1>3. [one EXCEPT ![r].on = on] = both
  <2>1. [mid EXCEPT !.on = on] = new
    OBVIOUS
  <2> HIDE DEF mid, new
  <2> QED BY <2>1
<1>4. req' = [[req EXCEPT ![r].pc = pc] EXCEPT ![r].on = on]
  BY Zenon
<1>5. req' = both
  BY <1>2, <1>3, <1>4
<1> QED BY <1>5 DEF Moves, IsRequest

\* A request has read the path it will set.
LEMMA ReadEffect ==
  ASSUME Types, NEW r \in Request, NEW pc, NEW read, req' = [req EXCEPT ![r].pc = pc, ![r].read = read]
  PROVE  /\ Moves(r) /\ req'[r].pc = pc
         /\ req'[r].on = req[r].on /\ req'[r].read = read
<1> DEFINE mid == [pc |-> pc, ask |-> req[r].ask, on |-> req[r].on, read |-> req[r].read, result |-> req[r].result]
           new == [pc |-> pc, ask |-> req[r].ask, on |-> req[r].on, read |-> read, result |-> req[r].result]
           one == [p \in Request |-> IF p = r THEN mid ELSE req[p]]
           both == [p \in Request |-> IF p = r THEN new ELSE req[p]]
<1>1. /\ req = [p \in Request |-> req[p]]
      /\ req[r] = [pc |-> req[r].pc, ask |-> req[r].ask, on |-> req[r].on, read |-> req[r].read,
                   result |-> req[r].result]
  BY DEF Types, IsRequest
<1>2. [req EXCEPT ![r].pc = pc] = one
  BY <1>1
<1>3. [one EXCEPT ![r].read = read] = both
  <2>1. [mid EXCEPT !.read = read] = new
    OBVIOUS
  <2> HIDE DEF mid, new
  <2> QED BY <2>1
<1>4. req' = [[req EXCEPT ![r].pc = pc] EXCEPT ![r].read = read]
  BY Zenon
<1>5. req' = both
  BY <1>2, <1>3, <1>4
<1> QED BY <1>5 DEF Moves, IsRequest

\* A request has a result.
LEMMA ResultEffect ==
  ASSUME Types, NEW r \in Request, NEW pc, NEW result, req' = [req EXCEPT ![r].pc = pc, ![r].result = result]
  PROVE  /\ Moves(r) /\ req'[r].pc = pc
         /\ req'[r].result = result /\ req'[r].on = req[r].on /\ req'[r].read = req[r].read
<1> DEFINE mid == [pc |-> pc, ask |-> req[r].ask, on |-> req[r].on, read |-> req[r].read, result |-> req[r].result]
           new == [pc |-> pc, ask |-> req[r].ask, on |-> req[r].on, read |-> req[r].read, result |-> result]
           one == [p \in Request |-> IF p = r THEN mid ELSE req[p]]
           both == [p \in Request |-> IF p = r THEN new ELSE req[p]]
<1>1. /\ req = [p \in Request |-> req[p]]
      /\ req[r] = [pc |-> req[r].pc, ask |-> req[r].ask, on |-> req[r].on, read |-> req[r].read,
                   result |-> req[r].result]
  BY DEF Types, IsRequest
<1>2. [req EXCEPT ![r].pc = pc] = one
  BY <1>1
<1>3. [one EXCEPT ![r].result = result] = both
  <2>1. [mid EXCEPT !.result = result] = new
    OBVIOUS
  <2> HIDE DEF mid, new
  <2> QED BY <2>1
<1>4. req' = [[req EXCEPT ![r].pc = pc] EXCEPT ![r].result = result]
  BY Zenon
<1>5. req' = both
  BY <1>2, <1>3, <1>4
<1> QED BY <1>5 DEF Moves, IsRequest

\* A request is answered.
LEMMA AnsweredEffect ==
  ASSUME Types, NEW r \in Request, NEW result, Answered(r, result)
  PROVE  /\ Moves(r) /\ req'[r].pc = "answered"
         /\ req'[r].result = result /\ req'[r].on = req[r].on /\ req'[r].read = req[r].read
BY ResultEffect DEF Answered

\* A statement of a pinned transaction fails.
LEMMA FailsEffect ==
  ASSUME Types, NEW r \in Request, req[r].on \in Backend, Fails(r)
  PROVE  /\ Moves(r) /\ req'[r].pc = "end" /\ req'[r].on = req[r].on /\ req'[r].read = req[r].read
         /\ backend' = [backend EXCEPT ![req[r].on].txn = "failed"]
BY DEF Types, IsRequest, Fails, Moves

\* The types need only be shown of the request that moves and of the backends.
LEMMA TypesKept ==
  ASSUME Types, NEW r \in Request, Moves(r),
         req'[r].read \in SUBSET Path,
         req'[r].pc \in {"idle", "answered", "take", "connect", "begin"} \cup Lent \cup Holding,
         req'[r].pc \in {"read", "set", "local"} => req[r].ask.schema # None,
         req'[r].pc \in Lent \cup Holding => req'[r].on \in Backend,
         client' \in [Backend -> Client], backend' \in [Backend -> BackendState],
         UNCHANGED <<pooler, host>>
  PROVE  Types'
BY DEF Types, Moves, IsRequest

\* A step of a request that holds no backend, and that leaves the held ones alone.
LEMMA HoldsKept ==
  ASSUME Pins, NEW r \in Request, Moves(r),
         \A b \in Backend : backend[b].held # r,
         req'[r].pc \notin Holding \ {"trail", "end"},
         backend' \in [Backend -> BackendState],
         \A b \in Backend : /\ backend'[b].held = backend[b].held
                            /\ backend'[b].txn = backend[b].txn
                            /\ backend'[b].local = backend[b].local
                            /\ backend[b].held # None => backend'[b].stale = backend[b].stale
  PROVE  Holds'
<1> USE DEF Pins
<1>1. ASSUME NEW b \in Backend, backend'[b].held # None
      PROVE  req'[backend'[b].held].on = b /\ req'[backend'[b].held].pc \in Holding
  <2>1. backend[b].held \in Request /\ backend[b].held # r
    BY <1>1 DEF Types, BackendState
  <2> QED BY <1>1, <2>1 DEF Holds, Moves
<1>2. ASSUME NEW b \in Backend, backend'[b].held = None
      PROVE  backend'[b].txn = "idle" /\ backend'[b].local = {}
  BY <1>2 DEF Holds
<1>3. ASSUME NEW q \in Request, req'[q].pc \in Holding \ {"trail", "end"}
      PROVE  /\ backend'[req'[q].on].held = q
             /\ req'[q].pc \in {"local", "prepare"} => ~backend'[req'[q].on].stale
  <2>1. q # r /\ req'[q] = req[q] /\ req[q].on \in Backend
    BY <1>3 DEF Moves, Types
  <2>2. q # None
    BY ConstantsOK DEF ConstantsOK
  <2> QED BY <1>3, <2>1, <2>2 DEF Holds
<1> QED BY <1>1, <1>2, <1>3 DEF Holds, Holding

\* A step of a request on the backend it holds, which keeps it or leaves it clean.
LEMMA HeldKept ==
  ASSUME Pins, NEW r \in Request, NEW b \in Backend, Moves(r), backend[b].held = r,
         req'[r].on = b,
         \A c \in Backend \ {b} : backend'[c] = backend[c],
         \/ /\ backend'[b].held = r /\ req'[r].pc \in Holding
            /\ req'[r].pc \in {"local", "prepare"} => ~backend'[b].stale
         \/ /\ backend'[b].held = None /\ backend'[b].txn = "idle" /\ backend'[b].local = {}
            /\ req'[r].pc \notin Holding \ {"trail", "end"}
  PROVE  Holds'
<1> USE DEF Pins
<1>0. r # None
  BY ConstantsOK DEF ConstantsOK
<1>1. ASSUME NEW c \in Backend, backend'[c].held # None
      PROVE  req'[backend'[c].held].on = c /\ req'[backend'[c].held].pc \in Holding
  <2>1. CASE c = b
    BY <1>1, <2>1
  <2>2. CASE c # b
    <3>1. backend[c].held \in Request /\ backend[c].held # r
      BY <1>1, <2>2, <1>0 DEF Types, BackendState, Holds, Moves
    <3> QED BY <1>1, <2>2, <3>1 DEF Holds, Moves
  <2> QED BY <2>1, <2>2
<1>2. ASSUME NEW c \in Backend, backend'[c].held = None
      PROVE  backend'[c].txn = "idle" /\ backend'[c].local = {}
  BY <1>0, <1>2 DEF Holds
<1>3. ASSUME NEW q \in Request, req'[q].pc \in Holding \ {"trail", "end"}
      PROVE  /\ backend'[req'[q].on].held = q
             /\ req'[q].pc \in {"local", "prepare"} => ~backend'[req'[q].on].stale
  <2>1. CASE q = r
    BY <1>3, <2>1, <1>0
  <2>2. CASE q # r
    <3>1. req'[q] = req[q] /\ req[q].on \in Backend
      BY <1>3, <2>2 DEF Moves, Types
    <3>2. backend[req[q].on].held = q
      BY <1>3, <3>1 DEF Holds
    <3> QED BY <1>3, <2>2, <3>1, <3>2 DEF Holds
  <2> QED BY <2>1, <2>2
<1> QED BY <1>1, <1>2, <1>3 DEF Holds, Holding

\* Who is not in a pinned transaction holds nothing; who is, before its end, does.
LEMMA Holder ==
  ASSUME Pins, NEW r \in Request
  PROVE  /\ req[r].pc \notin Holding => \A b \in Backend : backend[b].held # r
         /\ \A b \in Backend : backend[b].held = r => req[r].on = b
         /\ req[r].pc \in Holding => req[r].on \in Backend
         /\ req[r].pc \in Holding \ {"trail", "end"} => backend[req[r].on].held = r
<1>1. r # None
  BY ConstantsOK DEF ConstantsOK
<1> QED BY <1>1 DEF Pins, Holds, Types

\* What is asked next comes from a request that holds nothing.
LEMMA AskKeeps == ASSUME Pins, NEW r \in Request, Ask(r) PROVE Pins'
<1> USE DEF Pins
<1>1. PICK ask \in Host[host][r].asks :
        req' = [req EXCEPT ![r] = [pc |-> IF pooler /\ ReturnsResultSet(ask.text) THEN "connect" ELSE "take",
                                  ask |-> ask, on |-> None, read |-> {}, result |-> NoResult]]
  BY DEF Ask
<1>2. ask.schema \in STRING \cup {None}
  BY ConstantsOK DEF ConstantsOK, Types
<1>3. /\ req'[r].pc \in {"connect", "take"} /\ req'[r].read = {} /\ req'[r].ask = ask /\ IsRequest(req'[r])
      /\ \A q \in Request \ {r} : req'[q] = req[q]
      /\ req' = [q \in Request |-> req'[q]]
  BY <1>1 DEF Types, IsRequest
<1>4. Types'
  <2>1. /\ pooler' \in BOOLEAN /\ host' \in DOMAIN Host
        /\ client' \in [Backend -> Client] /\ backend' \in [Backend -> BackendState]
    BY DEF Ask, Types
  <2> QED BY <1>2, <1>3, <2>1 DEF Types, Lent, Holding
<1>5. Holds'
  BY <1>3 DEF Holds, Ask, Types, Holding
<1> QED BY <1>4, <1>5

\* A client is lent; its hook touches the snapshot only.
LEMMA TakeKeeps == ASSUME Pins, NEW r \in Request, Take(r) PROVE Pins'
<1> USE DEF Pins
<1>1. PICK c \in Backend :
        /\ client' = [client EXCEPT ![c] = "busy"]
        /\ req' = [req EXCEPT ![r].pc = IF req[r].ask.schema # None THEN "read" ELSE "run", ![r].on = c]
        /\ UNCHANGED backend \/ \E b \in Backend : Hook(b)
  BY DEF Take, Free, Types, Client, None
<1>2. /\ Moves(r) /\ req'[r].read = req[r].read /\ req'[r].on = c
      /\ req'[r].pc = IF req[r].ask.schema # None THEN "read" ELSE "run"
  <2> DEFINE pc == IF req[r].ask.schema # None THEN "read" ELSE "run"
  <2>1. req' = [req EXCEPT ![r].pc = pc, ![r].on = c]
    BY <1>1
  <2> HIDE DEF pc
  <2>2. Moves(r) /\ req'[r].read = req[r].read /\ req'[r].pc = pc /\ req'[r].on = c
    BY <2>1, EnterEffect, ZenonT(40)
  <2> QED BY <2>2 DEF pc
<1>3. /\ backend' \in [Backend -> BackendState]
      /\ \A b \in Backend : /\ backend'[b].held = backend[b].held
                            /\ backend'[b].txn = backend[b].txn
                            /\ backend'[b].local = backend[b].local
                            /\ backend'[b].stale = backend[b].stale
  <2>1. CASE UNCHANGED backend
    BY <2>1 DEF Types
  <2>2. CASE \E b \in Backend : Hook(b)
    BY <2>2, HookEffect
  <2> QED BY <1>1, <2>1, <2>2
<1>4. req[r].read \in SUBSET Path /\ client' \in [Backend -> Client]
  BY <1>1 DEF Types, Client
<1>5. Types'
  BY <1>2, <1>3, <1>4, TypesKept DEF Take, Lent
<1>6. Holds'
  BY <1>2, <1>3, Holder, HoldsKept DEF Take, At, Holding
<1> QED BY <1>5, <1>6

\* The statements of a pool client.
LEMMA LentKeeps ==
  ASSUME Pins, NEW r \in Request, ReadPath(r) \/ SetPath(r) \/ Run(r)
  PROVE  Pins'
<1> USE DEF Pins
<1>1. /\ req[r].pc \in Lent /\ req[r].pc \notin Holding /\ UNCHANGED <<pooler, host>>
      /\ req[r].on \in Backend
  BY DEF ReadPath, SetPath, Run, At, Lent, Holding, Types
<1>0. On(r) \subseteq Backend
  BY <1>1 DEF On, Free
<1>2. client' \in [Backend -> Client]
  <2>1. UNCHANGED client \/ Freed(r)
    BY DEF ReadPath, SetPath, Run
  <2> QED BY <2>1 DEF Freed, Types, Client
<1>3. /\ backend' \in [Backend -> BackendState]
      /\ \A b \in Backend : /\ backend'[b].held = backend[b].held
                            /\ backend'[b].txn = backend[b].txn
                            /\ backend'[b].local = backend[b].local
                            /\ backend'[b].stale = backend[b].stale
  <2>1. CASE UNCHANGED backend
    BY <2>1 DEF Types
  <2>2. CASE SetPath(r) /\ ~UNCHANGED backend
    <3>1. PICK b \in On(r), path \in req[r].read : backend' = [backend EXCEPT ![b].path = path]
      BY <2>2 DEF SetPath
    <3>2. path \in Path
      BY <3>1 DEF Types
    <3> QED BY <3>1, <3>2, ZenonT(40) DEF Types, BackendState
  <2> QED BY <2>1, <2>2 DEF ReadPath, Run
<1>4. Moves(r) /\ req'[r].on = req[r].on /\ req'[r].read \in SUBSET Path /\ req'[r].pc \in {"set", "run", "answered"}
      /\ (req'[r].pc = "set" => req[r].pc = "read")
  <2>1. CASE Goto(r, "run")
    BY <2>1, GotoEffect DEF Types
  <2>2. CASE \E result : Answered(r, result)
    BY <2>2, AnsweredEffect DEF Types
  <2>3. CASE ReadPath(r) /\ ~\E result : Answered(r, result)
    <3>1. PICK b \in On(r) : req' = [req EXCEPT ![r].pc = "set", ![r].read = {SearchPath(req[r].ask.schema, b)}]
      BY <2>3 DEF ReadPath
    <3>2. b \in Backend
      BY <1>0
    <3>3. SearchPath(req[r].ask.schema, b) \in Path
      BY <3>2, <2>3, SearchPathType DEF Types, ReadPath, At
    <3>4. /\ Moves(r) /\ req'[r].pc = "set" /\ req'[r].on = req[r].on
          /\ req'[r].read = {SearchPath(req[r].ask.schema, b)}
      BY <3>1, ReadEffect
    <3> QED BY <3>3, <3>4, <2>3 DEF ReadPath, At
  <2> QED BY <2>1, <2>2, <2>3 DEF SetPath, Run
<1>5. Types'
  BY <1>1, <1>2, <1>3, <1>4, TypesKept DEF Lent, Types
<1>6. Holds'
  BY <1>1, <1>3, <1>4, Holder, HoldsKept DEF Holding
<1> QED BY <1>5, <1>6

\* The connection and the BEGIN of a pinned transaction.
LEMMA ConnectKeeps == ASSUME Pins, NEW r \in Request, Connect(r) PROVE Pins'
<1> USE DEF Pins
<1>1. PICK b \in Backend : Hook(b)
  BY DEF Connect, Free
<1>2. /\ Moves(r) /\ req'[r].pc = "begin" /\ req'[r].read = req[r].read
      /\ req[r].pc = "connect"
  BY GotoEffect DEF Connect, At
<1>3. Types'
  BY <1>1, <1>2, HookEffect, TypesKept DEF Connect, Types, Lent, Holding
<1>4. Holds'
  BY <1>1, <1>2, Holder, HookEffect, HoldsKept DEF Holding
<1> QED BY <1>3, <1>4

\* BEGIN pins a free backend, which another request cannot hold.
LEMMA BeginKeeps == ASSUME Pins, NEW r \in Request, Begin(r) PROVE Pins'
<1> USE DEF Pins
<1>1. req[r].pc = "begin" /\ \A b \in Backend : backend[b].held # r
  BY Holder DEF Begin, At, Holding
<1>2. CASE Answered(r, Error("failed")) /\ UNCHANGED backend
  <2>1. Moves(r) /\ req'[r].pc = "answered" /\ req'[r].read = req[r].read
    BY <1>2, AnsweredEffect
  <2>2. Types'
    BY <1>2, <2>1, TypesKept DEF Begin, Types, Lent, Holding
  <2>3. Holds'
    BY <1>1, <1>2, <2>1, HoldsKept DEF Types, Holding
  <2> QED BY <2>2, <2>3
<1>3. ASSUME NEW b \in Free,
             backend' = [backend EXCEPT ![b].held = r, ![b].txn = "open"],
             req' = [req EXCEPT ![r].pc = "clear", ![r].on = b]
      PROVE  Pins'
  <2>1. b \in Backend /\ backend[b].held = None
    BY DEF Free
  <2>2. Moves(r) /\ req'[r].pc = "clear" /\ req'[r].on = b /\ req'[r].read = req[r].read
    BY <1>3, EnterEffect, ZenonT(40)
  <2>3. /\ backend' \in [Backend -> BackendState] /\ backend'[b].held = r
        /\ \A c \in Backend \ {b} : backend'[c] = backend[c]
    <3> DEFINE one == [backend EXCEPT ![b].held = r]
    <3>1. one \in [Backend -> BackendState] /\ \A c \in Backend \ {b} : one[c] = backend[c]
      BY <2>1 DEF Types, BackendState
    <3>2. one[b].held = r
      BY <2>1 DEF Types, BackendState
    <3>3. backend' = [one EXCEPT ![b].txn = "open"]
      BY Zenon, <1>3
    <3> HIDE DEF one
    <3> QED BY <2>1, <3>1, <3>2, <3>3 DEF BackendState
  <2>4. Types'
    BY <2>1, <2>2, <2>3, TypesKept DEF Begin, Types, Lent, Holding
  <2>5. ASSUME NEW c \in Backend, backend'[c].held # None
        PROVE  req'[backend'[c].held].on = c /\ req'[backend'[c].held].pc \in Holding
    <3>1. CASE c = b
      BY <2>2, <2>3, <3>1 DEF Holding
    <3>2. CASE c # b
      <4>1. backend[c].held \in Request /\ backend[c].held # r
        BY <1>1, <2>3, <2>5, <3>2 DEF Types, BackendState
      <4> QED BY <2>2, <2>3, <2>5, <3>2, <4>1 DEF Holds, Moves
    <3> QED BY <3>1, <3>2
  <2>6. ASSUME NEW c \in Backend, backend'[c].held = None
        PROVE  backend'[c].txn = "idle" /\ backend'[c].local = {}
    <3>1. c # b
      BY <2>3, <2>6, ConstantsOK DEF ConstantsOK
    <3> QED BY <2>3, <2>6, <3>1 DEF Holds
  <2>7. ASSUME NEW q \in Request, req'[q].pc \in Holding \ {"trail", "end"}
        PROVE  /\ backend'[req'[q].on].held = q
               /\ req'[q].pc \in {"local", "prepare"} => ~backend'[req'[q].on].stale
    <3>1. CASE q = r
      BY <2>2, <2>3, <3>1
    <3>2. CASE q # r
      <4>1. req'[q] = req[q] /\ req[q].on \in Backend /\ backend[req[q].on].held = q
        BY <2>2, <2>7, <3>2 DEF Moves, Types, Holds
      <4>2. req[q].on # b
        BY <2>1, <4>1, ConstantsOK DEF ConstantsOK
      <4> QED BY <2>3, <2>7, <4>1, <4>2 DEF Holds
    <3> QED BY <3>1, <3>2
  <2>8. Holds'
    BY <2>5, <2>6, <2>7 DEF Holds, Holding
  <2> QED BY <2>4, <2>8
<1> QED BY <1>2, <1>3 DEF Begin

\* A statement of the pinned transaction, on the backend it holds.
LEMMA PinnedKeeps ==
  ASSUME Pins, NEW r \in Request, Clear(r) \/ SetLocal(r) \/ Prepare(r) \/ Fetch(r)
  PROVE  Pins'
<1> USE DEF Pins
<1> DEFINE b == req[r].on
<1>1. req[r].pc \in {"clear", "local", "prepare", "fetch"} /\ UNCHANGED <<host, pooler, client>>
  BY DEF Clear, SetLocal, Prepare, Fetch, At
<1>2. b \in Backend /\ backend[b].held = r /\ r # None
  BY <1>1, Holder, ConstantsOK DEF Holding, ConstantsOK
<1>3. backend \in [Backend -> BackendState] /\ req[r].read \in SUBSET Path
  BY DEF Types
<1>4. CASE Fails(r)
  <2>1. /\ Moves(r) /\ req'[r].pc = "end" /\ req'[r].on = b /\ req'[r].read = req[r].read
        /\ backend' = [backend EXCEPT ![b].txn = "failed"]
    BY <1>2, <1>4, FailsEffect
  <2>2. /\ backend' \in [Backend -> BackendState] /\ backend'[b].held = r
        /\ \A c \in Backend \ {b} : backend'[c] = backend[c]
    BY <1>2, <1>3, <2>1 DEF BackendState
  <2>3. Types'
    BY <1>1, <1>2, <1>3, <2>1, <2>2, TypesKept DEF Types, Lent, Holding
  <2>4. Holds'
    BY <1>2, <2>1, <2>2, HeldKept DEF Holding
  <2> QED BY <2>3, <2>4
<1>5. CASE Clear(r) /\ ~Fails(r)
  <2>1. /\ Moves(r) /\ req'[r].pc = (IF req[r].ask.schema # None THEN "local" ELSE "prepare")
        /\ req'[r].on = b /\ req'[r].read = req[r].read
        /\ backend' = [backend EXCEPT ![b].stale = FALSE]
    BY <1>5, GotoEffect DEF Clear
  <2>2. /\ backend' \in [Backend -> BackendState] /\ backend'[b].held = r /\ ~backend'[b].stale
        /\ \A c \in Backend \ {b} : backend'[c] = backend[c]
    BY <1>2, <1>3, <2>1, ZenonT(40) DEF BackendState
  <2>3. Types'
    BY <1>1, <1>2, <1>3, <2>1, <2>2, TypesKept DEF Types, Lent, Holding
  <2>4. Holds'
    BY <1>2, <2>1, <2>2, HeldKept DEF Holding
  <2> QED BY <2>3, <2>4
<1>6. CASE SetLocal(r) /\ ~Fails(r)
  <2>1. /\ Moves(r) /\ req'[r].pc = "prepare" /\ req'[r].on = b /\ req'[r].read = req[r].read
        /\ backend' = [backend EXCEPT ![b].local = {SearchPath(req[r].ask.schema, b)}]
    BY <1>6, GotoEffect DEF SetLocal
  <2>2. SearchPath(req[r].ask.schema, b) \in Path
    BY <1>2, <1>6, SearchPathType DEF SetLocal, At, Types
  <2>3. /\ backend' \in [Backend -> BackendState] /\ backend'[b].held = r
        /\ backend'[b].stale = backend[b].stale
        /\ \A c \in Backend \ {b} : backend'[c] = backend[c]
    BY <1>2, <1>3, <2>1, <2>2 DEF BackendState
  <2>4. ~backend[b].stale
    BY <1>6 DEF SetLocal, At, Holds
  <2>5. Types'
    BY <1>1, <1>2, <1>3, <2>1, <2>3, TypesKept DEF Types, Lent, Holding
  <2>6. Holds'
    BY <1>2, <2>1, <2>3, <2>4, HeldKept DEF Holding
  <2> QED BY <2>5, <2>6
<1>7. CASE Prepare(r) /\ ~Fails(r)
  <2>1. /\ Moves(r) /\ req'[r].pc = "fetch" /\ req'[r].on = b /\ req'[r].read = req[r].read
        /\ backend' = [backend EXCEPT ![b].stale = TRUE]
    BY <1>7, GotoEffect DEF Prepare
  <2>2. /\ backend' \in [Backend -> BackendState] /\ backend'[b].held = r
        /\ \A c \in Backend \ {b} : backend'[c] = backend[c]
    BY <1>2, <1>3, <2>1, ZenonT(40) DEF BackendState
  <2>3. Types'
    BY <1>1, <1>2, <1>3, <2>1, <2>2, TypesKept DEF Types, Lent, Holding
  <2>4. Holds'
    BY <1>2, <2>1, <2>2, HeldKept DEF Holding
  <2> QED BY <2>3, <2>4
<1>8. CASE Fetch(r)
  <2>1. PICK result : /\ req' = [req EXCEPT ![r].pc = "trail", ![r].result = result]
                      /\ backend' = backend \/ backend' = Rolled(b)
    BY <1>8 DEF Fetch
  <2>2. Moves(r) /\ req'[r].pc = "trail" /\ req'[r].on = b /\ req'[r].read = req[r].read
    BY <2>1, ResultEffect
  <2>3. /\ backend' \in [Backend -> BackendState]
        /\ \A c \in Backend \ {b} : backend'[c] = backend[c]
        /\ \/ backend'[b].held = r
           \/ backend'[b].held = None /\ backend'[b].txn = "idle" /\ backend'[b].local = {}
    <3>1. CASE backend' = backend
      BY <1>2, <1>3, <3>1
    <3>2. CASE backend' = Rolled(b)
      BY <1>2, <3>2, RolledEffect
    <3> QED BY <2>1, <3>1, <3>2
  <2>4. Types'
    BY <1>1, <1>2, <1>3, <2>2, <2>3, TypesKept DEF Types, Lent, Holding
  <2>5. Holds'
    BY <1>2, <2>2, <2>3, HeldKept DEF Holding
  <2> QED BY <2>4, <2>5
<1> QED BY <1>4, <1>5, <1>6, <1>7, <1>8

\* The second DEALLOCATE ALL, on the held backend or on a free one.
LEMMA TrailKeeps == ASSUME Pins, NEW r \in Request, Trail(r) PROVE Pins'
<1> USE DEF Pins
<1> DEFINE b == req[r].on
<1>1. /\ Moves(r) /\ req'[r].pc = "end" /\ req'[r].on = b /\ req'[r].read = req[r].read
      /\ req[r].pc = "trail" /\ UNCHANGED <<host, pooler, client>>
  BY GotoEffect DEF Trail, At
<1>2. b \in Backend /\ r # None /\ backend \in [Backend -> BackendState] /\ req[r].read \in SUBSET Path
  BY <1>1, Holder, ConstantsOK DEF Holding, ConstantsOK, Types
<1>3. CASE backend[b].held = r
  <2>1. \/ backend' = [backend EXCEPT ![b].stale = FALSE]
        \/ backend' = [backend EXCEPT ![b].txn = "failed"]
    BY <1>3 DEF Trail
  <2>2. /\ backend' \in [Backend -> BackendState] /\ backend'[b].held = r
        /\ \A c \in Backend \ {b} : backend'[c] = backend[c]
    <3>1. CASE backend' = [backend EXCEPT ![b].stale = FALSE]
      BY <1>2, <1>3, <3>1, ZenonT(40) DEF BackendState
    <3>2. CASE backend' = [backend EXCEPT ![b].txn = "failed"]
      BY <1>2, <1>3, <3>2 DEF BackendState
    <3> QED BY <2>1, <3>1, <3>2
  <2>3. Types'
    BY <1>1, <1>2, <2>2, TypesKept DEF Types, Lent, Holding
  <2>4. Holds'
    BY <1>1, <1>2, <1>3, <2>2, HeldKept DEF Holding
  <2> QED BY <2>3, <2>4
<1>4. CASE backend[b].held # r
  <2>1. PICK c \in Free : backend' = [backend EXCEPT ![c].stale = FALSE] \/ backend' = backend
    BY <1>4 DEF Trail
  <2>2. c \in Backend /\ backend[c].held = None
    BY DEF Free
  <2>3. /\ backend' \in [Backend -> BackendState]
        /\ \A d \in Backend : /\ backend'[d].held = backend[d].held
                              /\ backend'[d].txn = backend[d].txn
                              /\ backend'[d].local = backend[d].local
                              /\ backend[d].held # None => backend'[d].stale = backend[d].stale
    <3>1. CASE backend' = [backend EXCEPT ![c].stale = FALSE]
      <4>1. backend' \in [Backend -> BackendState] /\ \A d \in Backend \ {c} : backend'[d] = backend[d]
        BY <1>2, <2>2, <3>1, ZenonT(40) DEF BackendState
      <4>2. /\ backend'[c].held = backend[c].held /\ backend'[c].txn = backend[c].txn
            /\ backend'[c].local = backend[c].local
        BY <1>2, <2>2, <3>1 DEF BackendState
      <4> QED BY <2>2, <4>1, <4>2
    <3>2. CASE backend' = backend
      BY <1>2, <3>2
    <3> QED BY <2>1, <3>1, <3>2
  <2>4. \A d \in Backend : backend[d].held # r
    BY <1>4, Holder
  <2>5. Types'
    BY <1>1, <1>2, <2>3, TypesKept DEF Types, Lent, Holding
  <2>6. Holds'
    BY <1>1, <2>3, <2>4, HoldsKept DEF Holding
  <2> QED BY <2>5, <2>6
<1> QED BY <1>3, <1>4

\* The end of a pinned transaction, or of the request that had one.
LEMMA EndKeeps ==
  ASSUME Pins, NEW r \in Request, End(r) \/ TimedOut(r)
  PROVE  Pins'
<1> USE DEF Pins
<1> DEFINE b == req[r].on
<1>1. /\ Moves(r) /\ req'[r].pc = "answered" /\ req'[r].on = b /\ req'[r].read = req[r].read
      /\ UNCHANGED <<host, pooler, client>>
  <2>1. \E result : Answered(r, result)
    BY DEF End, TimedOut
  <2> QED BY <2>1, AnsweredEffect DEF End, TimedOut
<1>2. r # None /\ backend \in [Backend -> BackendState] /\ req[r].read \in SUBSET Path
  BY ConstantsOK DEF ConstantsOK, Types
<1>3. CASE b \in Backend /\ backend[b].held = r
  <2>1. backend' = Rolled(b)
    BY <1>3 DEF End, TimedOut
  <2>2. Types'
    BY <1>1, <1>2, <1>3, <2>1, RolledEffect, TypesKept DEF Types, Lent, Holding
  <2>3. Holds'
    BY <1>1, <1>3, <2>1, RolledEffect, HeldKept DEF Holding
  <2> QED BY <2>2, <2>3
<1>4. CASE ~(b \in Backend /\ backend[b].held = r)
  <2>1. \A d \in Backend : backend[d].held # r
    BY <1>4, Holder
  <2>2. backend' = backend
    <3>1. CASE TimedOut(r)
      BY <2>1, <3>1 DEF TimedOut
    <3>2. CASE End(r)
      <4>1. b \in Backend
        BY <3>2, Holder DEF End, At, Holding
      <4> QED BY <1>4, <3>2, <4>1 DEF End
    <3> QED BY <3>1, <3>2
  <2>3. Types'
    BY <1>1, <1>2, <2>2, TypesKept DEF Types, Lent, Holding
  <2>4. Holds'
    BY <1>1, <1>2, <2>1, <2>2, HoldsKept DEF Holding
  <2> QED BY <2>3, <2>4
<1> QED BY <1>3, <1>4

\* Other processes leave statements on free backends only.
LEMMA LeaveStaleKeeps == ASSUME Pins, LeaveStale PROVE Pins'
<1> USE DEF Pins
<1>1. PICK b \in Free : backend' = [backend EXCEPT ![b].stale = TRUE]
  BY DEF LeaveStale
<1>2. b \in Backend /\ backend[b].held = None /\ backend \in [Backend -> BackendState]
  BY DEF Free, Types
<1>3. /\ backend' \in [Backend -> BackendState]
      /\ \A d \in Backend : /\ backend'[d].held = backend[d].held
                            /\ backend'[d].txn = backend[d].txn
                            /\ backend'[d].local = backend[d].local
                            /\ backend[d].held # None => backend'[d].stale = backend[d].stale
  BY <1>1, <1>2 DEF BackendState
<1>4. Types'
  BY <1>3 DEF Types, LeaveStale
<1>5. req' = req
  BY DEF LeaveStale
<1>6. \A d \in Backend : backend'[d].held # None =>
        req'[backend'[d].held].on = d /\ req'[backend'[d].held].pc \in Holding
  BY <1>3, <1>5 DEF Holds
<1>7. \A d \in Backend : backend'[d].held = None => backend'[d].txn = "idle" /\ backend'[d].local = {}
  BY <1>3 DEF Holds
<1>8. ASSUME NEW r \in Request, req[r].pc \in Holding \ {"trail", "end"}
      PROVE  /\ backend'[req[r].on].held = r
             /\ req[r].pc \in {"local", "prepare"} => ~backend'[req[r].on].stale
  <2>1. req[r].on \in Backend /\ backend[req[r].on].held = r /\ r # None
    BY <1>8, Holder, ConstantsOK DEF ConstantsOK
  <2> QED BY <1>3, <1>8, <2>1 DEF Holds
<1>9. Holds'
  BY <1>5, <1>6, <1>7, <1>8 DEF Holds, Holding
<1> QED BY <1>4, <1>9

\* What pins a backend is inductive.
LEMMA PinsInductive == Pins /\ [Next]_vars => Pins'
<1> SUFFICES ASSUME Pins, [Next]_vars PROVE Pins'
  OBVIOUS
<1>1. ASSUME NEW r \in Request, Ask(r) PROVE Pins'
  BY <1>1, AskKeeps
<1>2. ASSUME NEW r \in Request, Take(r) PROVE Pins'
  BY <1>2, TakeKeeps
<1>3. ASSUME NEW r \in Request, ReadPath(r) \/ SetPath(r) \/ Run(r) PROVE Pins'
  BY <1>3, LentKeeps
<1>4. ASSUME NEW r \in Request, Connect(r) PROVE Pins'
  BY <1>4, ConnectKeeps
<1>5. ASSUME NEW r \in Request, Begin(r) PROVE Pins'
  BY <1>5, BeginKeeps
<1>6. ASSUME NEW r \in Request, Clear(r) \/ SetLocal(r) \/ Prepare(r) \/ Fetch(r) PROVE Pins'
  BY <1>6, PinnedKeeps
<1>7. ASSUME NEW r \in Request, Trail(r) PROVE Pins'
  BY <1>7, TrailKeeps
<1>8. ASSUME NEW r \in Request, End(r) \/ TimedOut(r) PROVE Pins'
  BY <1>8, EndKeeps
<1>9. ASSUME LeaveStale PROVE Pins'
  BY <1>9, LeaveStaleKeeps
<1>10. ASSUME UNCHANGED vars PROVE Pins'
  BY <1>10 DEF vars, Pins, Types, Holds, IsRequest
<1> QED BY <1>1, <1>2, <1>3, <1>4, <1>5, <1>6, <1>7, <1>8, <1>9, <1>10 DEF Next

\* For any number of requests, backends and left-behind statements: a backend of the
\* pooler that no pinned request holds has no transaction and no path of one, and a
\* pinned request prepares on the backend it holds, cleared of others' statements.
THEOREM PinsLeaveNothing == Spec => []Isolation
<1>1. Pins => Isolation
  BY DEF Pins, Holds, Isolation, At, Holding
<1> QED BY Initially, PinsInductive, <1>1, PTL DEF Spec

-----------------------------------------------------------------------------
(* OwnPath. *)

\* The path a request resolves names with: its schema, before what the connection
\* was set up with.
Own(path, schema, base) == Head(path) = schema /\ (base # {} => Tail(path) = Base)

\* Connected directly: a client is lent to one request, which sets its path and reads it.
LentWell(r) ==
  /\ req[r].pc \in {"idle", "answered", "take"} \cup Lent
  /\ req[r].pc \in Lent => client[req[r].on] = "busy"
  /\ req[r].pc = "set" =>
       \A path \in req[r].read : Own(path, req[r].ask.schema, backend[req[r].on].base)
  /\ req[r].pc = "run" /\ req[r].ask.schema # None =>
       Own(backend[req[r].on].path, req[r].ask.schema, backend[req[r].on].base)
LentToOne ==
  \A r, q \in Request : r # q /\ req[r].pc \in Lent /\ req[q].pc \in Lent => req[r].on # req[q].on
SetUp ==
  \A b \in Backend :
    /\ backend[b].local = {}
    /\ backend[b].base # {} => backend[b].base = {Base}
    /\ client[b] = "none" => backend[b].path = Base
Direct == ~pooler => (\A r \in Request : LentWell(r)) /\ LentToOne /\ SetUp

\* Behind a pooler: a pinned request has set the path of its own transaction.
Pooled ==
  pooler =>
    \A r \in Request :
      req[r].pc \in {"prepare", "fetch"} /\ req[r].ask.schema # None =>
        /\ backend[req[r].on].local # {}
        /\ \A path \in backend[req[r].on].local : Head(path) = req[r].ask.schema

\* Nothing is set at the start.
LEMMA PathsInit == Init => Direct /\ Pooled
<1> SUFFICES ASSUME Init PROVE Direct /\ Pooled
  OBVIOUS
<1>1. \A r \in Request : req[r].pc = "idle"
  BY DEF Init
<1>2. \A b \in Backend : backend[b].local = {} /\ backend[b].base = {} /\ backend[b].path = Base
  BY DEF Init, Fresh
<1> QED BY <1>1, <1>2 DEF Direct, LentWell, LentToOne, SetUp, Pooled, Lent

\* The path in effect is the transaction's own, if it has one, and the session's
\* otherwise.
LEMMA EffectiveIs ==
  ASSUME Types, NEW b \in Backend
  PROVE  /\ backend[b].local # {} => Effective(b) \in backend[b].local
         /\ backend[b].local = {} => Effective(b) = backend[b].path
BY DEF Effective

\* What one request's step does.
Acts(r) ==
  \/ Ask(r) \/ Take(r) \/ ReadPath(r) \/ SetPath(r) \/ Run(r)
  \/ Connect(r) \/ Begin(r) \/ Clear(r) \/ SetLocal(r) \/ Prepare(r)
  \/ Fetch(r) \/ Trail(r) \/ End(r) \/ TimedOut(r)

\* Connected directly, only the statements of a lent client run.
LEMMA DirectActs ==
  ASSUME Direct, ~pooler, NEW r \in Request, Acts(r)
  PROVE  Ask(r) \/ Take(r) \/ ReadPath(r) \/ SetPath(r) \/ Run(r)
BY DEF Direct, LentWell, LentToOne, SetUp, Acts, Lent, Pinned, At, Connect, Begin, Clear, SetLocal, Prepare,
       Fetch, Trail, End, TimedOut

\* A request that asks has no client.
LEMMA DirectAsk ==
  ASSUME Types, Direct, ~pooler, NEW r \in Request, Ask(r)
  PROVE  Direct'
<1>1. PICK ask \in Host[host][r].asks :
        req' = [req EXCEPT ![r] = [pc |-> IF pooler /\ ReturnsResultSet(ask.text) THEN "connect" ELSE "take",
                                  ask |-> ask, on |-> None, read |-> {}, result |-> NoResult]]
  BY DEF Ask
<1>2. req'[r].pc = "take" /\ \A q \in Request \ {r} : req'[q] = req[q]
  BY <1>1 DEF Types
<1>3. UNCHANGED <<pooler, client, backend>>
  BY DEF Ask
<1>4. \A q \in Request :
        /\ req'[q].pc \in {"idle", "answered", "take"} \cup Lent
        /\ req'[q].pc \in Lent => req'[q] = req[q] /\ q # r
  BY <1>2 DEF Direct, LentWell, LentToOne, SetUp, Lent
<1> QED BY <1>3, <1>4 DEF Direct, LentWell, LentToOne, SetUp, Lent

\* A client is lent to one request at a time, and is set up when it is made.
LEMMA DirectTake ==
  ASSUME Types, Direct, ~pooler, NEW r \in Request, Take(r)
  PROVE  Direct'
<1>1. PICK c \in Backend :
        /\ client[c] # "busy"
        /\ client' = [client EXCEPT ![c] = "busy"]
        /\ req' = [req EXCEPT ![r].pc = IF req[r].ask.schema # None THEN "read" ELSE "run", ![r].on = c]
        /\ UNCHANGED backend \/ (client[c] = "none" /\ Hook(c))
  BY ZenonT(40) DEF Take, Types, Client, None
<1>2. /\ Moves(r) /\ req'[r].on = c
      /\ req'[r].pc = IF req[r].ask.schema # None THEN "read" ELSE "run"
  <2> DEFINE pc == IF req[r].ask.schema # None THEN "read" ELSE "run"
  <2>1. req' = [req EXCEPT ![r].pc = pc, ![r].on = c]
    BY <1>1
  <2> HIDE DEF pc
  <2>2. Moves(r) /\ req'[r].pc = pc /\ req'[r].on = c
    BY <2>1, EnterEffect, ZenonT(40)
  <2> QED BY <2>2 DEF pc
<1>3. /\ \A b \in Backend \ {c} : backend'[b] = backend[b]
      /\ backend'[c].local = {} /\ backend'[c].path = backend[c].path
      /\ backend'[c].base # {} => backend'[c].base = {Base}
  <2>1. CASE UNCHANGED backend
    BY <2>1 DEF Direct, LentWell, LentToOne, SetUp
  <2>2. CASE client[c] = "none" /\ Hook(c)
    <3>1. Effective(c) = Base
      BY <2>2, EffectiveIs DEF Direct, LentWell, LentToOne, SetUp
    <3>2. backend' = backend \/ backend' = [backend EXCEPT ![c].base = {Base}]
      BY <2>2, <3>1 DEF Hook
    <3>3. backend[c] \in BackendState
      BY DEF Types
    <3>4. CASE backend' = backend
      BY <3>4 DEF Direct, LentWell, LentToOne, SetUp
    <3>5. CASE backend' = [backend EXCEPT ![c].base = {Base}]
      <4>1. /\ backend'[c].base = {Base} /\ backend'[c].local = backend[c].local
            /\ backend'[c].path = backend[c].path
            /\ \A b \in Backend \ {c} : backend'[b] = backend[b]
        BY <3>3, <3>5 DEF Types, BackendState
      <4> QED BY <4>1 DEF Direct, LentWell, LentToOne, SetUp
    <3> QED BY <3>2, <3>4, <3>5
  <2> QED BY <1>1, <2>1, <2>2
<1>4. client'[c] = "busy" /\ \A b \in Backend \ {c} : client'[b] = client[b]
  BY <1>1 DEF Types
<1>5. \A q \in Request \ {r} : req'[q] = req[q] /\ (req[q].pc \in Lent => req[q].on \in Backend \ {c})
  BY <1>1, <1>2 DEF Direct, LentWell, LentToOne, SetUp, Types, Moves
<1>6. ~pooler'
  BY DEF Take
<1>7. ASSUME NEW q \in Request PROVE LentWell(q)'
  <2>1. CASE q = r
    BY <1>2, <1>4, <2>1 DEF LentWell, Lent, Moves
  <2>2. CASE q # r
    BY <1>3, <1>4, <1>5, <2>2 DEF Direct, LentWell, LentToOne, SetUp, Lent
  <2> QED BY <2>1, <2>2
<1>8. LentToOne'
  BY <1>2, <1>5 DEF Direct, LentToOne
<1>9. SetUp'
  BY <1>3, <1>4 DEF Direct, SetUp
<1> QED BY <1>6, <1>7, <1>8, <1>9 DEF Direct

\* The path a request sets is on its own client, which no one else uses.
LEMMA DirectLent ==
  ASSUME Types, Direct, ~pooler, NEW r \in Request, ReadPath(r) \/ SetPath(r) \/ Run(r)
  PROVE  Direct'
<1> DEFINE b == req[r].on
<1>1. /\ req[r].pc \in Lent /\ b \in Backend /\ client[b] = "busy" /\ ~pooler'
      /\ On(r) = {b}
  <2>1. req[r].pc \in Lent /\ pooler' = pooler
    BY DEF ReadPath, SetPath, Run, At, Lent
  <2> QED BY <2>1 DEF Types, Direct, LentWell, On
<1>2. backend[b].local = {} /\ (backend[b].base # {} => BaseOf(b) = Base)
  BY <1>1 DEF Direct, SetUp, BaseOf
<1>3. /\ Moves(r) /\ req'[r].on = b /\ req'[r].pc \in {"set", "run", "answered"}
      /\ \A c \in Backend \ {b} : client'[c] = client[c]
      /\ client'[b] \in {"busy", "free"}
      /\ req'[r].pc \in Lent => client'[b] = "busy"
      /\ req'[r].pc = "set" => \A path \in req'[r].read : Own(path, req[r].ask.schema, backend[b].base)
      /\ \A c \in Backend \ {b} : backend'[c] = backend[c]
      /\ backend'[b].local = backend[b].local /\ backend'[b].base = backend[b].base
      /\ req'[r].pc = "run" => Own(backend'[b].path, req[r].ask.schema, backend'[b].base)
  <2>1. CASE (\E result : Answered(r, result)) /\ Freed(r) /\ UNCHANGED backend
    <3>1. Moves(r) /\ req'[r].on = b /\ req'[r].pc = "answered"
      BY <2>1, AnsweredEffect
    <3>2. client'[b] = "free" /\ \A c \in Backend \ {b} : client'[c] = client[c]
      BY <1>1, <2>1 DEF Freed, Types
    <3> QED BY <2>1, <3>1, <3>2 DEF Lent
  <2>2. CASE ReadPath(r) /\ UNCHANGED client
    <3>1. CASE req' = [req EXCEPT ![r].pc = "set", ![r].read = {SearchPath(req[r].ask.schema, b)}]
      <4>1. /\ Moves(r) /\ req'[r].on = b /\ req'[r].pc = "set"
            /\ req'[r].read = {SearchPath(req[r].ask.schema, b)}
        BY <3>1, ReadEffect, ZenonT(40)
      <4>2. req[r].ask.schema \in STRING
        BY <2>2 DEF ReadPath, At, Types
      <4>3. BaseOf(b) \in Path /\ SearchPath(req[r].ask.schema, b) = <<req[r].ask.schema>> \o BaseOf(b)
        BY <1>1, <4>2, SearchPathType
      <4>4. Own(SearchPath(req[r].ask.schema, b), req[r].ask.schema, backend[b].base)
        BY <1>2, <4>2, <4>3, Prepended DEF Own, Path
      <4> QED BY <1>1, <2>2, <4>1, <4>4 DEF ReadPath
    <3>2. CASE Freed(r)
      BY <1>1, <2>2, <3>2 DEF Freed, Types
    <3> QED BY <1>1, <2>2, <3>1, <3>2 DEF ReadPath
  <2>3. CASE SetPath(r) /\ UNCHANGED client
    <3>1. CASE \E path \in req[r].read : backend' = [backend EXCEPT ![b].path = path] /\ Goto(r, "run")
      <4>1. PICK path \in req[r].read : backend' = [backend EXCEPT ![b].path = path] /\ Goto(r, "run")
        BY <3>1
      <4>2. Moves(r) /\ req'[r].on = b /\ req'[r].pc = "run"
        BY <4>1, GotoEffect
      <4>3. Own(path, req[r].ask.schema, backend[b].base)
        BY <2>3, <4>1 DEF Direct, LentWell, SetPath, At
      <4>4. /\ backend'[b].path = path /\ \A c \in Backend \ {b} : backend'[c] = backend[c]
            /\ backend'[b].local = backend[b].local /\ backend'[b].base = backend[b].base
        BY <1>1, <4>1 DEF Types, BackendState
      <4> QED BY <1>1, <2>3, <4>2, <4>3, <4>4
    <3>2. CASE Freed(r)
      BY <1>1, <2>3, <3>2 DEF Freed, Types
    <3> QED BY <1>1, <2>3, <3>1, <3>2 DEF SetPath
  <2> QED BY <2>1, <2>2, <2>3 DEF ReadPath, SetPath, Run
<1>4. \A q \in Request \ {r} : req'[q] = req[q] /\ (req[q].pc \in Lent => req[q].on \in Backend \ {b})
  BY <1>1, <1>3 DEF Direct, LentToOne, Types, Moves
<1>5. ASSUME NEW q \in Request PROVE LentWell(q)'
  <2>1. CASE q = r
    BY <1>3, <2>1 DEF LentWell, Lent, Moves
  <2>2. CASE q # r
    BY <1>3, <1>4, <2>2 DEF Direct, LentWell, Lent
  <2> QED BY <2>1, <2>2
<1>6. LentToOne'
  BY <1>1, <1>3, <1>4 DEF Direct, LentToOne
<1>7. SetUp'
  BY <1>1, <1>2, <1>3 DEF Direct, SetUp
<1> QED BY <1>1, <1>5, <1>6, <1>7 DEF Direct

\* Behind a pooler, no step changes the backend of another's pinned transaction.
LEMMA OthersAlone ==
  ASSUME Pins, pooler, NEW r \in Request, Acts(r), NEW c \in Backend, backend[c].held \notin {None, r}
  PROVE  backend'[c] = backend[c]
<1>1. On(r) = Free /\ c \notin Free /\ Free \subseteq Backend /\ backend \in [Backend -> BackendState]
  BY DEF On, Free, Pins, Types
<1>2. c # req[r].on \/ req[r].pc \notin {"clear", "local", "prepare", "fetch"}
  BY Holder DEF Holding
<1>3. CASE UNCHANGED backend
  BY <1>3
<1>4. CASE \E b \in Free : Hook(b)
  BY <1>1, <1>4 DEF Hook
<1>5. CASE SetPath(r) \/ Begin(r)
  <2>1. CASE SetPath(r)
    BY <1>1, <2>1 DEF SetPath
  <2>2. CASE Begin(r)
    <3>1. ASSUME NEW b \in Free, backend' = [backend EXCEPT ![b].held = r, ![b].txn = "open"]
          PROVE  backend'[c] = backend[c]
      BY <1>1, <3>1
    <3> QED BY <1>3, <2>2, <3>1 DEF Begin
  <2> QED BY <1>5, <2>1, <2>2
<1>6. CASE Clear(r) \/ SetLocal(r) \/ Prepare(r) \/ Fetch(r)
  BY <1>1, <1>2, <1>6 DEF Clear, SetLocal, Prepare, Fetch, Fails, Rolled, At
<1>7. CASE Trail(r)
  BY <1>1, <1>7 DEF Trail
<1>8. CASE End(r) \/ TimedOut(r)
  <2>1. backend' = backend \/ (backend' = Rolled(req[r].on) /\ \E b \in Backend : backend[b].held = r)
    <3>1. CASE End(r)
      <4>1. req[r].on \in Backend
        BY <3>1, Holder DEF End, At, Holding
      <4> QED BY <3>1, <4>1 DEF End
    <3>2. CASE TimedOut(r)
      BY <3>2 DEF TimedOut
    <3> QED BY <1>8, <3>1, <3>2
  <2>2. CASE backend' = Rolled(req[r].on) /\ \E b \in Backend : backend[b].held = r
    <3>1. req[r].on \in Backend /\ c # req[r].on
      BY <2>2, Holder
    <3> QED BY <2>2, <3>1, RolledEffect DEF Pins
  <2> QED BY <1>3, <2>1, <2>2
<1> QED BY <1>3, <1>4, <1>5, <1>6, <1>7, <1>8 DEF Acts, Ask, Take, ReadPath, Run, Connect, Types, Pins, Client, None

\* The path of a pinned transaction stays until it is over.
LEMMA PooledKept ==
  ASSUME Pins, Pooled, pooler, NEW r \in Request, Acts(r)
  PROVE  Pooled'
<1> USE DEF Pins
<1>0. /\ UNCHANGED pooler
      /\ \A q \in Request \ {r} : req'[q] = req[q]
  BY DEF Acts, Ask, Take, ReadPath, SetPath, Run, Connect, Begin, Clear, SetLocal, Prepare, Fetch, Trail, End,
         TimedOut, Goto, Answered, Fails, Types
<1> SUFFICES ASSUME NEW q \in Request, req'[q].pc \in {"prepare", "fetch"}, req'[q].ask.schema # None
             PROVE  /\ backend'[req'[q].on].local # {}
                    /\ \A path \in backend'[req'[q].on].local : Head(path) = req'[q].ask.schema
  BY <1>0 DEF Pooled
<1>1. CASE q # r
  <2>1. req'[q] = req[q] /\ backend[req[q].on].held = q /\ req[q].on \in Backend /\ q # None
    BY <1>0, <1>1, Holder, ConstantsOK DEF Holding, ConstantsOK
  <2>2. backend'[req[q].on] = backend[req[q].on]
    BY <1>1, <2>1, OthersAlone
  <2> QED BY <2>1, <2>2 DEF Pooled
<1>2. CASE q = r /\ SetLocal(r) /\ ~Fails(r)
  <2> DEFINE b == req[r].on
  <2>1. /\ b \in Backend /\ req[r].ask.schema \in STRING
        /\ backend' = [backend EXCEPT ![b].local = {SearchPath(req[r].ask.schema, b)}]
    BY <1>2 DEF SetLocal, At, Types, Holding
  <2>2. req'[r].on = b /\ req'[r].ask = req[r].ask
    BY <1>2, GotoEffect DEF SetLocal, Moves
  <2>3. Head(SearchPath(req[r].ask.schema, b)) = req[r].ask.schema
    <3>1. BaseOf(b) \in Path /\ SearchPath(req[r].ask.schema, b) = <<req[r].ask.schema>> \o BaseOf(b)
      BY <2>1, SearchPathType
    <3> QED BY <2>1, <3>1, Prepended DEF Path
  <2>4. backend'[b].local = {SearchPath(req[r].ask.schema, b)}
    BY <2>1 DEF Types, BackendState
  <2> QED BY <1>2, <2>2, <2>3, <2>4
<1>3. CASE q = r /\ Prepare(r) /\ ~Fails(r)
  <2> DEFINE b == req[r].on
  <2>1. /\ b \in Backend /\ req[r].pc = "prepare"
        /\ backend' = [backend EXCEPT ![b].stale = TRUE]
    BY <1>3 DEF Prepare, At, Types, Holding
  <2>2. req'[r].on = b /\ req'[r].ask = req[r].ask
    BY <1>3, GotoEffect DEF Prepare, Moves
  <2>3. backend'[b].local = backend[b].local
    BY <2>1 DEF Types, BackendState
  <2> QED BY <1>3, <2>1, <2>2, <2>3 DEF Pooled
<1>5. ~(q = r /\ Fails(r))
  BY ResultEffect DEF Fails
<1>4. ~(q = r /\ ~SetLocal(r) /\ ~Prepare(r))
  <2> SUFFICES ASSUME q = r, ~SetLocal(r), ~Prepare(r) PROVE FALSE
    OBVIOUS
  <2>1. CASE Clear(r) /\ ~Fails(r)
    BY <2>1, GotoEffect DEF Clear, Moves
  <2>2. CASE Ask(r)
    BY <2>2 DEF Ask, Types
  <2>3. ASSUME NEW result PROVE ~Answered(r, result)
    BY AnsweredEffect
  <2>4. ASSUME NEW pc, pc \notin {"prepare", "fetch"} PROVE ~Goto(r, pc)
    BY <2>4, GotoEffect
  <2>7. CASE Take(r)
    <3> DEFINE pc == IF req[r].ask.schema # None THEN "read" ELSE "run"
    <3>1. \E c : req' = [req EXCEPT ![r].pc = pc, ![r].on = c]
      BY <2>7 DEF Take
    <3>2. pc \notin {"prepare", "fetch"}
      OBVIOUS
    <3> HIDE DEF pc
    <3> QED BY <3>1, <3>2, EnterEffect, ZenonT(40)
  <2>8. CASE Begin(r)
    <3>1. \E b : req' = [req EXCEPT ![r].pc = "clear", ![r].on = b]
      BY <2>3, <2>8 DEF Begin
    <3>2. req'[r].pc = "clear"
      BY <3>1, EnterEffect, ZenonT(40)
    <3> QED BY <3>2
  <2>9. CASE ReadPath(r)
    BY <2>3, <2>9, ReadEffect DEF ReadPath
  <2>10. CASE SetPath(r) \/ Run(r)
    BY <2>3, <2>4, <2>10 DEF SetPath, Run
  <2>11. CASE Connect(r) \/ Trail(r)
    BY <2>4, <2>11 DEF Connect, Trail
  <2>5. CASE Fails(r)
    BY <1>5, <2>5
  <2>6. CASE Fetch(r)
    <3>1. PICK result : req' = [req EXCEPT ![r].pc = "trail", ![r].result = result]
      BY <2>6 DEF Fetch
    <3>2. Moves(r) /\ req'[r].pc = "trail"
      BY <3>1, ResultEffect
    <3> QED BY <3>2
  <2>12. CASE End(r) \/ TimedOut(r)
    BY <2>3, <2>12 DEF End, TimedOut
  <2> QED BY <2>1, <2>2, <2>5, <2>6, <2>7, <2>8, <2>9, <2>10, <2>11, <2>12 DEF Acts
<1> QED BY <1>1, <1>2, <1>3, <1>4, <1>5

Paths == Pins /\ Direct /\ Pooled

\* What is known of the paths is inductive.
LEMMA PathsInductive == Paths /\ [Next]_vars => Paths'
<1> SUFFICES ASSUME Paths, [Next]_vars PROVE Paths'
  OBVIOUS
<1>1. Pins /\ Pins' /\ Types
  BY PinsInductive DEF Paths, Pins
<1>2. ASSUME NEW r \in Request, Acts(r) PROVE Direct' /\ Pooled'
  <2>1. pooler' = pooler
    BY <1>2 DEF Acts, Ask, Take, ReadPath, SetPath, Run, Connect, Begin, Clear, SetLocal, Prepare, Fetch, Trail,
                End, TimedOut
  <2>2. CASE pooler
    BY <1>1, <1>2, <2>1, <2>2, PooledKept DEF Direct, Paths
  <2>3. CASE ~pooler
    <3>1. Direct'
      BY <1>1, <1>2, <2>3, DirectActs, DirectAsk, DirectTake, DirectLent DEF Paths
    <3> QED BY <2>1, <2>3, <3>1 DEF Pooled
  <2> QED BY <2>2, <2>3
<1>3. CASE LeaveStale
  <2>1. /\ pooler /\ pooler' /\ req' = req
        /\ \A b \in Backend : backend'[b].local = backend[b].local
    <3>1. PICK b \in Free : backend' = [backend EXCEPT ![b].stale = TRUE]
      BY <1>3 DEF LeaveStale
    <3> QED BY <1>1, <1>3, <3>1 DEF LeaveStale, Types, BackendState
  <2>2. \A r \in Request : req[r].pc \in {"prepare", "fetch"} => req[r].on \in Backend
    BY <1>1 DEF Types, Holding
  <2> QED BY <1>1, <2>1, <2>2 DEF Paths, Direct, Pooled
<1>4. CASE UNCHANGED vars
  BY <1>1, <1>4 DEF vars, Paths, Direct, LentWell, LentToOne, SetUp, Pooled
<1> QED BY <1>1, <1>2, <1>3, <1>4 DEF Next, Acts, Paths

\* Only a SET of the shared path changes what a backend resolves later.
LEMMA OnlySetPath ==
  ASSUME Pins, [Next]_vars, NEW b \in Backend, backend'[b].path # backend[b].path
  PROVE  \E r \in Request : At(r, "set") /\ ~At(r, "set")'
<1>1. backend \in [Backend -> BackendState]
  BY DEF Pins, Types
<1>2. \A c \in Backend : Hook(c) => backend'[b].path = backend[b].path
  BY HookEffect DEF Pins
<1>3. \A c \in Backend : backend' = Rolled(c) => backend'[b].path = backend[b].path
  BY <1>1 DEF Rolled, BackendState
<1>4. Free \subseteq Backend
  BY DEF Free
<1>5. ASSUME NEW r \in Request, SetPath(r) PROVE At(r, "set") /\ ~At(r, "set")'
  BY <1>5, GotoEffect, AnsweredEffect DEF SetPath, At, Pins
<1>6. ASSUME NEW r \in Request, Acts(r), ~SetPath(r) PROVE FALSE
  <2>1. backend' # backend
    OBVIOUS
  <2>2. CASE Ask(r) \/ Take(r) \/ ReadPath(r) \/ Run(r) \/ Connect(r)
    BY <1>2, <1>4, <2>1, <2>2, ZenonT(40) DEF Ask, Take, ReadPath, Run, Connect, Pins, Types, Client, None
  <2>3. CASE Begin(r)
    <3>1. ASSUME NEW c \in Free, backend' = [backend EXCEPT ![c].held = r, ![c].txn = "open"] PROVE FALSE
      <4> DEFINE one == [backend EXCEPT ![c].held = r]
      <4>1. one \in [Backend -> BackendState] /\ one[b].path = backend[b].path
        BY <1>1, <1>4 DEF BackendState
      <4>2. backend' = [one EXCEPT ![c].txn = "open"]
        BY Zenon, <3>1
      <4> HIDE DEF one
      <4> QED BY <1>4, <4>1, <4>2 DEF BackendState
    <3> QED BY <2>1, <2>3, <3>1 DEF Begin
  <2>4. CASE Clear(r) \/ SetLocal(r) \/ Prepare(r) \/ Fetch(r)
    <3>1. req[r].on \in Backend
      BY <2>4, Holder DEF Clear, SetLocal, Prepare, Fetch, At, Holding
    <3>2. CASE Fetch(r)
      BY <1>3, <2>1, <3>1, <3>2 DEF Fetch
    <3>3. CASE Fails(r)
      BY <1>1, <3>1, <3>3 DEF Fails, BackendState
    <3>4. CASE SetLocal(r) /\ ~Fails(r)
      <4>1. backend' = [backend EXCEPT ![req[r].on].local = {SearchPath(req[r].ask.schema, req[r].on)}]
        BY <3>4 DEF SetLocal
      <4> QED BY <1>1, <3>1, <4>1 DEF BackendState
    <3>5. CASE (Clear(r) \/ Prepare(r)) /\ ~Fails(r)
      <4>1. \E x \in BOOLEAN : backend' = [backend EXCEPT ![req[r].on].stale = x]
        BY <3>5 DEF Clear, Prepare
      <4> QED BY <1>1, <3>1, <4>1 DEF BackendState
    <3> QED BY <2>4, <3>2, <3>3, <3>4, <3>5
  <2>5. CASE Trail(r)
    <3>1. \E c \in Backend : \/ backend' = [backend EXCEPT ![c].stale = FALSE]
                             \/ backend' = [backend EXCEPT ![c].txn = "failed"]
      BY <1>4, <2>1, <2>5, Holder DEF Trail, At, Holding
    <3> QED BY <1>1, <3>1 DEF BackendState
  <2>6. CASE End(r) \/ TimedOut(r)
    <3>1. \E c \in Backend : backend' = Rolled(c)
      BY <2>1, <2>6, Holder DEF End, TimedOut, At, Holding
    <3> QED BY <1>3, <3>1
  <2> QED BY <1>6, <2>2, <2>3, <2>4, <2>5, <2>6 DEF Acts
<1>7. ASSUME LeaveStale PROVE FALSE
  BY <1>1, <1>4, <1>7 DEF LeaveStale, BackendState
<1>8. ASSUME UNCHANGED vars PROVE FALSE
  BY <1>8 DEF vars
<1> QED BY <1>5, <1>6, <1>7, <1>8 DEF Next, Acts

\* For any number of requests and backends: a statement that runs for a schema
\* resolves names there first, and, connected directly, then as the connection was set
\* up to; and only the SET of a request changes the path a backend keeps.
THEOREM NamesResolveInTheirSchema == Spec => OwnPath
<1>1. Paths /\ [Next]_vars =>
        [/\ \A r \in Request :
              LET b == req[r].on
              IN  Executes(r) /\ req[r].ask.schema # None /\ (pooler => req[r].pc = "fetch") =>
                    /\ Head(Effective(b)) = req[r].ask.schema
                    /\ ~pooler /\ backend[b].base # {} => Tail(Effective(b)) = Base
         /\ \A b \in Backend : backend'[b].path # backend[b].path =>
              \E r \in Request : At(r, "set") /\ ~At(r, "set")']_vars
  <2> SUFFICES ASSUME Paths, [Next]_vars
               PROVE  /\ \A r \in Request :
                           LET b == req[r].on
                           IN  Executes(r) /\ req[r].ask.schema # None /\ (pooler => req[r].pc = "fetch") =>
                                 /\ Head(Effective(b)) = req[r].ask.schema
                                 /\ ~pooler /\ backend[b].base # {} => Tail(Effective(b)) = Base
                      /\ \A b \in Backend : backend'[b].path # backend[b].path =>
                           \E r \in Request : At(r, "set") /\ ~At(r, "set")'
    OBVIOUS
  <2>1. ASSUME NEW r \in Request, Executes(r), req[r].ask.schema # None, pooler => req[r].pc = "fetch"
        PROVE  /\ Head(Effective(req[r].on)) = req[r].ask.schema
               /\ ~pooler /\ backend[req[r].on].base # {} => Tail(Effective(req[r].on)) = Base
    <3>1. req[r].pc \in {"run", "fetch"} /\ req[r].on \in Backend
      BY <2>1 DEF Executes, Paths, Pins, Types, Lent, Holding
    <3>2. CASE pooler
      BY <2>1, <3>1, <3>2, EffectiveIs DEF Paths, Pins, Pooled
    <3>3. CASE ~pooler
      BY <2>1, <3>1, <3>3, EffectiveIs DEF Paths, Pins, Direct, LentWell, SetUp, Own, Lent
    <3> QED BY <3>2, <3>3
  <2>2. ASSUME NEW b \in Backend, backend'[b].path # backend[b].path
        PROVE  \E r \in Request : At(r, "set") /\ ~At(r, "set")'
    BY <2>2, OnlySetPath DEF Paths
  <2> QED BY <2>1, <2>2
<1>2. Init => Paths
  BY Initially, PathsInit DEF Paths
<1> QED BY <1>1, <1>2, PathsInductive, PTL DEF Spec, OwnPath

-----------------------------------------------------------------------------
(* The places of a tidy text: where its statement, its LIMIT and its OFFSET end. *)

Ended(text, n) ==
  /\ \A k \in n + 1 .. Len(text) : text[k] \in {Semicolon, EndOfLine}
  /\ \A a \in n + 1 .. Len(text), b \in n + 1 .. Len(text) : \A k \in a .. b :
       text[a] = Semicolon /\ text[b] = Semicolon => text[k] = Semicolon

Placed(text, i, j, k) ==
  /\ i \in 1 .. Len(text) /\ j \in i .. Len(text) /\ k \in j .. Len(text)
  /\ Boundless(Prefix(text, i))
  /\ Part(text, i, j, "LIMIT") /\ Part(text, j, k, "OFFSET")
  /\ Ended(text, k)

\* A part of a text is its tokens from one place to another.
LEMMA Between ==
  ASSUME NEW text \in Text, NEW i \in 0 .. Len(text), NEW j \in i .. Len(text)
  PROVE  /\ SubSeq(text, i + 1, j) \in Text /\ Len(SubSeq(text, i + 1, j)) = j - i
         /\ \A k \in 1 .. j - i : SubSeq(text, i + 1, j)[k] = text[i + k]
<1>1. Len(text) \in Nat /\ \A k \in 1 .. Len(text) : text[k] \in STRING
  BY LenProperties, ElementOfSeq DEF Text
<1>2. /\ SubSeq(text, i + 1, j) \in Text
      /\ Len(SubSeq(text, i + 1, j)) = IF i + 1 <= j THEN j - (i + 1) + 1 ELSE 0
      /\ \A k \in 1 .. j - (i + 1) + 1 : SubSeq(text, i + 1, j)[k] = text[i + 1 + k - 1]
  BY <1>1, SubSeqProperties DEF Text
<1>3. QED
  BY <1>1, <1>2

\* A clause on a line of its own is a part of the text.
LEMMA PartIs ==
  ASSUME NEW text \in Text, NEW i \in 0 .. Len(text), NEW j \in i .. Len(text), NEW word,
         OnALine(SubSeq(text, i + 1, j), word)
  PROVE  Part(text, i, j, word)
<1> DEFINE x == SubSeq(text, i + 1, j)
<1>1. Len(text) \in Nat
  BY WholePrefix
<1>2. x \in Text /\ Len(x) = j - i /\ \A k \in 1 .. j - i : x[k] = text[i + k]
  BY Between
<1>3. PICK p \in 0 .. Len(x) : /\ \A q \in 1 .. p : x[q] = EndOfLine
                               /\ SubSeq(x, p + 1, Len(x)) \in Clause(word)
  BY DEF OnALine
<1> HIDE DEF x
<1> DEFINE y == SubSeq(x, p + 1, Len(x))
<1>4. /\ Len(x) \in Nat /\ Len(x) \in p .. Len(x)
      /\ Len(y) = Len(x) - p /\ \A k \in 1 .. Len(x) - p : y[k] = x[p + k]
  BY <1>1, <1>2, <1>3, Between
<1>5. y = <<>> \/ \E n \in DOMAIN Number : y = <<word, n>>
  BY <1>3 DEF Clause
<1> HIDE DEF y
<1> DEFINE a == i + p
<1>6. a \in i .. j /\ \A k \in i + 1 .. a : text[k] = EndOfLine
  <2>1. a \in i .. j
    BY <1>1, <1>2, <1>3
  <2>2. ASSUME NEW k \in i + 1 .. a PROVE text[k] = EndOfLine
    <3>1. k - i \in 1 .. p /\ k - i \in 1 .. j - i /\ i + (k - i) = k
      BY <1>1, <1>2, <1>3, <2>2
    <3>2. QED
      BY <1>2, <1>3, <3>1
  <2>3. QED
    BY <2>1, <2>2
<1>7. CASE y = <<>>
  <2>1. Len(y) = 0
    BY <1>7
  <2>2. j = a
    BY <1>1, <1>2, <1>3, <1>4, <2>1
  <2>3. QED
    BY <1>6, <2>2 DEF Part
<1>8. CASE \E n \in DOMAIN Number : y = <<word, n>>
  <2>1. Len(y) = 2 /\ y[1] = word /\ y[2] \in DOMAIN Number
    BY <1>8
  <2>7. Len(x) - p = 2 /\ Len(x) = j - i
    BY <1>2, <1>4, <2>1
  <2>2. j = a + 2 /\ Len(x) - p = 2
    BY <1>1, <1>3, <1>4, <2>7
  <2>3. y[1] = x[p + 1] /\ y[2] = x[p + 2]
    BY <1>4, <2>2
  <2>4. /\ p + 1 \in 1 .. j - i /\ p + 2 \in 1 .. j - i
        /\ i + (p + 1) = a + 1 /\ i + (p + 2) = a + 2
    BY <1>1, <1>2, <1>3, <2>2
  <2>5. x[p + 1] = text[a + 1] /\ x[p + 2] = text[a + 2]
    BY <1>2, <2>4
  <2>6. QED
    BY <1>6, <2>1, <2>2, <2>3, <2>5 DEF Part
<1>9. QED
  BY <1>5, <1>7, <1>8

\* So is what ends it.
LEMMA EndedIs ==
  ASSUME NEW text \in Text, NEW n \in 0 .. Len(text), Semicolons(SubSeq(text, n + 1, Len(text)))
  PROVE  Ended(text, n)
<1> DEFINE x == SubSeq(text, n + 1, Len(text))
<1>1. Len(text) \in Nat
  BY WholePrefix
<1>2. Len(x) = Len(text) - n /\ \A k \in 1 .. Len(text) - n : x[k] = text[n + k]
  BY <1>1, Between
<1>3. /\ \A k \in 1 .. Len(x) : x[k] \in {Semicolon, EndOfLine}
      /\ \A a \in 1 .. Len(x), b \in 1 .. Len(x) : \A k \in a .. b :
           x[a] = Semicolon /\ x[b] = Semicolon => x[k] = Semicolon
  BY DEF Semicolons
<1> HIDE DEF x
<1>4. \A k \in n + 1 .. Len(text) : k - n \in 1 .. Len(x) /\ text[k] = x[k - n]
  <2> TAKE k \in n + 1 .. Len(text)
  <2>1. k - n \in 1 .. Len(text) - n /\ n + (k - n) = k
    BY <1>1
  <2>2. QED
    BY <1>2, <2>1
<1>5. ASSUME NEW a \in n + 1 .. Len(text), NEW b \in n + 1 .. Len(text), NEW k \in a .. b,
             text[a] = Semicolon, text[b] = Semicolon
      PROVE  text[k] = Semicolon
  <2>1. k \in n + 1 .. Len(text) /\ k - n \in a - n .. b - n
    BY <1>1, <1>5
  <2>2. QED
    BY <1>3, <1>4, <1>5, <2>1
<1>6. QED
  BY <1>3, <1>4, <1>5 DEF Ended

\* A tidy text has these places.
LEMMA TidyPlaces ==
  ASSUME NEW text \in Text, Tidy(text)
  PROVE  \E i, j, k : Placed(text, i, j, k)
<1>1. Len(text) \in Nat
  BY WholePrefix
<1>2. PICK i \in 1 .. Len(text) : \E j \in i .. Len(text) : \E k \in j .. Len(text) :
        /\ Boundless(SubSeq(text, 1, i))
        /\ OnALine(SubSeq(text, i + 1, j), "LIMIT")
        /\ OnALine(SubSeq(text, j + 1, k), "OFFSET")
        /\ Semicolons(SubSeq(text, k + 1, Len(text)))
  BY DEF Tidy
<1>3. PICK j \in i .. Len(text) : \E k \in j .. Len(text) :
        /\ Boundless(SubSeq(text, 1, i))
        /\ OnALine(SubSeq(text, i + 1, j), "LIMIT")
        /\ OnALine(SubSeq(text, j + 1, k), "OFFSET")
        /\ Semicolons(SubSeq(text, k + 1, Len(text)))
  BY <1>2
<1>4. PICK k \in j .. Len(text) :
        /\ Boundless(SubSeq(text, 1, i))
        /\ OnALine(SubSeq(text, i + 1, j), "LIMIT")
        /\ OnALine(SubSeq(text, j + 1, k), "OFFSET")
        /\ Semicolons(SubSeq(text, k + 1, Len(text)))
  BY <1>3
<1>5. i \in 0 .. Len(text) /\ j \in 0 .. Len(text) /\ k \in 0 .. Len(text)
  BY <1>1
<1>6. Part(text, i, j, "LIMIT")
  BY <1>4, <1>5, PartIs
<1>8. Part(text, j, k, "OFFSET")
  BY <1>4, <1>5, PartIs
<1>9. Ended(text, k)
  BY <1>4, <1>5, EndedIs
<1>7. QED
  BY <1>4, <1>6, <1>8, <1>9 DEF Placed, Prefix

\* A part has its clause or is blank.
LEMMA PartCases ==
  ASSUME NEW text, NEW i \in Int, NEW j \in Int, NEW word, Part(text, i, j, word)
  PROVE  HasClause(text, i, j, word) \/ Blank(text, i, j)
  BY DEF Part, HasClause, Blank

\* What is said of the statement before its bounds.
LEMMA BoundlessIs ==
  ASSUME NEW text \in Text, NEW i \in 1 .. Len(text), Boundless(Prefix(text, i))
  PROVE  /\ text[i] \notin {Semicolon, EndOfLine}
         /\ Outer(Outside(Prefix(text, i)))
         /\ Places(Outside(Prefix(text, i)).words, "LIMIT") = {}
         /\ Places(Outside(Prefix(text, i)).words, "OFFSET") = {}
         /\ Places(Outside(Prefix(text, i)).words, "FETCH") = {}
         /\ \A k \in 1 .. i - 1 : text[k] \in {"LIMIT", "OFFSET"} => text[k + 1] # EndOfLine
<1> DEFINE x == Prefix(text, i)
<1>1. Len(text) \in Nat
  BY WholePrefix
<1>2. Len(x) = i /\ \A k \in 1 .. i : x[k] = text[k]
  BY <1>1, PrefixIs
<1>3. Last(x) = text[i]
  BY PrefixFront
<1> HIDE DEF x
<1>4. /\ Last(x) # EndOfLine /\ \A k \in 1 .. Len(x) : x[k] # Semicolon
      /\ Closed(x) /\ ~InComment(x)
      /\ \A word \in {"LIMIT", "OFFSET", "FETCH"} : Clauses(x, word) = {}
      /\ \A k \in 1 .. Len(x) - 1 : x[k] \in {"LIMIT", "OFFSET"} => x[k + 1] # EndOfLine
  BY DEF Boundless, x
<1>5. text[i] \notin {Semicolon, EndOfLine}
  BY <1>2, <1>3, <1>4
<1>6. Outer(Outside(x))
  BY <1>4 DEF Outer, Closed, InComment
<1>7. \A k \in 1 .. i - 1 : text[k] \in {"LIMIT", "OFFSET"} => text[k + 1] # EndOfLine
  BY <1>1, <1>2, <1>4
<1>8. Clauses(x, "LIMIT") = {} /\ Clauses(x, "OFFSET") = {} /\ Clauses(x, "FETCH") = {}
  BY <1>4
<1>9. QED
  BY <1>5, <1>6, <1>7, <1>8 DEF x, Clauses

\* The words of the clauses, and the numbers.
LEMMA WordsOf ==
  /\ IsWord("LIMIT") /\ IsWord("OFFSET")
  /\ \A n \in DOMAIN Number : IsWord(n) /\ n \notin {"LIMIT", "OFFSET", "FETCH"}
<1>1. "LIMIT" \notin Marks /\ "OFFSET" \notin Marks
  BY Zenon DEF Marks, Ignored, EndOfLine, Semicolon
<1>2. \A n \in DOMAIN Number : n \notin Marks /\ n \notin {"LIMIT", "OFFSET", "FETCH"}
  BY NumbersOK DEF NumbersOK
<1>3. QED
  BY <1>1, <1>2 DEF IsWord

\* A statement without bounds does not end with a clause: the scan would have to take a
\* word for one that a comment hides.
LEMMA NoneEnds ==
  ASSUME NEW text \in Text, NEW i \in 1 .. Len(text), Boundless(Prefix(text, i)), NEW word \in {"LIMIT", "OFFSET"}
  PROVE  ~Ends(Prefix(text, i), word)
<1> SUFFICES ASSUME Ends(Prefix(text, i), word) PROVE FALSE
  OBVIOUS
<1>1. Len(text) \in Nat
  BY WholePrefix
<1>2. i - 1 \in 0 .. Len(text)
  BY <1>1
<1>3. PICK m : CutsAt(text, i - 1, {EndOfLine}, m)
  BY <1>2, CutExists DEF CutsAt
<1>4. text[i] \in DOMAIN Number /\ m > 0 /\ text[m] = word /\ m \in 0 .. i - 1
  BY <1>3, EndsIs DEF CutsAt
<1>5. m = i - 1
  <2>1. m \in 1 .. i - 1 /\ text[m + 1] # EndOfLine
    BY <1>1, <1>4, BoundlessIs
  <2>2. CASE m < i - 1
    <3>1. m + 1 \in m + 1 .. i - 1
      BY <1>1, <2>1, <2>2
    <3>2. QED
      BY <1>3, <2>1, <3>1 DEF CutsAt
  <2>3. QED
    BY <1>1, <2>1, <2>2
<1>6. /\ m \in 1 .. Len(text) /\ m - 1 \in 0 .. Len(text) /\ m \in 0 .. Len(text)
      /\ i \in 0 .. Len(text) /\ i - 1 = m /\ text[i - 1] = word
  BY <1>1, <1>4, <1>5
<1> DEFINE s == Outside(Prefix(text, m - 1))
           t == Outside(Prefix(text, m))
           u == Outside(Prefix(text, i))
<1>7. s \in LexState /\ t \in LexState /\ u \in LexState
  BY <1>6, OutsideType
<1>8. t = Lex(s, word) /\ u = Lex(t, text[i])
  BY <1>4, <1>6, OutsideStep
<1>9. Outer(u) /\ Places(u.words, word) = {}
  BY BoundlessIs
<1> HIDE DEF s, t, u
<1>10. IsWord(text[i]) /\ IsWord(word)
  BY <1>4, WordsOf
<1>11. Outer(t) /\ Outer(s)
  BY <1>7, <1>8, <1>9, <1>10, LexBack
<1>12. t.words = Append(s.words, word)
  BY <1>7, <1>8, <1>10, <1>11, LexWord DEF LexState
<1>13. u.words = Append(t.words, text[i])
  BY <1>7, <1>8, <1>10, <1>11, LexWord DEF LexState
<1> DEFINE a == s.words
           b == t.words
           c == u.words
<1>14. a \in Text /\ b \in Text /\ c \in Text /\ word \in STRING /\ text[i] \in STRING
  <2>1. text[i] \in STRING /\ text[m] \in STRING
    BY <1>6, ElementOfSeq DEF Text
  <2>2. QED
    BY <1>4, <1>7, <2>1 DEF LexState
<1>15. b = Append(a, word) /\ c = Append(b, text[i])
  BY <1>12, <1>13
<1>16. Places(c, word) = {}
  BY <1>9
<1> HIDE DEF a, b, c
<1>17. Len(b) = Len(a) + 1 /\ b[Len(a) + 1] = word /\ Len(a) \in Nat
  BY <1>14, <1>15, AppendProperties, LenProperties DEF Text
<1>18. Len(c) = Len(b) + 1 /\ \A k \in 1 .. Len(b) : c[k] = b[k]
  BY <1>14, <1>15, AppendProperties DEF Text
<1>19. Len(a) + 1 \in Places(c, word)
  BY <1>17, <1>18 DEF Places
<1>20. QED
  BY <1>16, <1>19

\* Where the statement and its LIMIT end.
HeadEnd(text, i, j) == IF HasClause(text, i, j, "LIMIT") THEN j ELSE i

\* The end of the statement, or of its LIMIT, is no blank, and blanks are between it and what follows.
LEMMA HeadEndIs ==
  ASSUME NEW text \in Text, NEW i, NEW j, NEW k, Placed(text, i, j, k), NEW h, h = HeadEnd(text, i, j)
  PROVE  /\ i \in 1 .. Len(text) /\ j \in 1 .. Len(text) /\ k \in 1 .. Len(text)
         /\ h \in 1 .. Len(text) /\ h \in 1 .. j /\ text[h] \notin {Semicolon, EndOfLine} /\ Blank(text, h, j)
<1>1. /\ Len(text) \in Nat /\ i \in 1 .. Len(text) /\ j \in i .. Len(text) /\ k \in j .. Len(text)
      /\ Boundless(Prefix(text, i)) /\ Part(text, i, j, "LIMIT")
  BY WholePrefix DEF Placed
<1>2. i \in 0 .. Len(text) /\ j \in 0 .. Len(text) /\ i \in 1 .. j /\ j \in 1 .. Len(text) /\ k \in 1 .. Len(text)
  BY <1>1
<1>3. CASE HasClause(text, i, j, "LIMIT")
  <2>1. h = j
    BY <1>3 DEF HeadEnd
  <2>2. text[j] \notin {Semicolon, EndOfLine}
    BY <1>2, <1>3, ClauseEnds
  <2>3. Blank(text, j, j)
    BY <1>2 DEF Blank
  <2>4. QED
    BY <1>1, <1>2, <2>1, <2>2, <2>3
<1>4. CASE ~HasClause(text, i, j, "LIMIT")
  <2>1. h = i
    BY <1>4 DEF HeadEnd
  <2>2. text[i] \notin {Semicolon, EndOfLine}
    BY <1>1, BoundlessIs
  <2>3. Blank(text, i, j)
    BY <1>1, <1>2, <1>4, PartCases
  <2>4. QED
    BY <1>1, <1>2, <2>1, <2>2, <2>3
<1>5. QED
  BY <1>3, <1>4

\* Blank lines before the semicolons do not matter.
LEMMA BlankTrimmed ==
  ASSUME NEW text \in Text, NEW n \in 1 .. Len(text), NEW m \in n .. Len(text),
         text[n] \notin {Semicolon, EndOfLine}, Blank(text, n, m), Ended(text, m)
  PROVE  Trimmed(text) = Prefix(text, n)
<1>1. Len(text) \in Nat
  BY WholePrefix
<1>2. EndOfLine # Semicolon
  BY Zenon DEF EndOfLine, Semicolon
<1>3. \A k \in n + 1 .. Len(text) : k \in n + 1 .. m \/ k \in m + 1 .. Len(text)
  BY <1>1
<1>4. \A k \in n + 1 .. Len(text) : text[k] \in {Semicolon, EndOfLine}
  BY <1>3 DEF Blank, Ended
<1>5. \A a \in n + 1 .. Len(text) : text[a] = Semicolon => a \in m + 1 .. Len(text)
  BY <1>2, <1>3 DEF Blank
<1>6. \A a \in n + 1 .. Len(text), b \in n + 1 .. Len(text) : \A k \in a .. b :
        text[a] = Semicolon /\ text[b] = Semicolon => text[k] = Semicolon
  BY <1>5 DEF Ended
<1>7. QED
  BY <1>4, <1>6, Trimming

\* What the scan takes for the statement and its LIMIT.
LEMMA HeadCut ==
  ASSUME NEW text \in Text, NEW i, NEW j, NEW k, Placed(text, i, j, k), NEW h, h = HeadEnd(text, i, j)
  PROVE  /\ WithoutOffset(Trimmed(text)) = Prefix(text, h)
         /\ HasClause(text, j, k, "OFFSET") => Trimmed(text) = Prefix(text, k) /\ Ends(Prefix(text, k), "OFFSET")
         /\ ~HasClause(text, j, k, "OFFSET") => ~Ends(Trimmed(text), "OFFSET")
<1>1. /\ Len(text) \in Nat
      /\ i \in 1 .. Len(text) /\ j \in 1 .. Len(text) /\ k \in 1 .. Len(text) /\ j \in i .. Len(text)
      /\ h \in 1 .. Len(text) /\ h \in 1 .. j /\ text[h] \notin {Semicolon, EndOfLine} /\ Blank(text, h, j)
      /\ k \in j .. Len(text)
      /\ Boundless(Prefix(text, i)) /\ Part(text, j, k, "OFFSET") /\ Ended(text, k)
  BY WholePrefix, HeadEndIs DEF Placed
<1>2. i \in 0 .. Len(text) /\ j \in 0 .. Len(text) /\ k \in 0 .. Len(text) /\ k \in k .. Len(text) /\ k \in h .. Len(text)
  BY <1>1
<1>3. CASE HasClause(text, j, k, "OFFSET")
  <2>1. /\ Ends(Prefix(text, k), "OFFSET") <=> "OFFSET" = "OFFSET"
        /\ text[k] \notin {Semicolon, EndOfLine}
    BY <1>2, <1>3, ClauseEnds
  <2>2. Blank(text, k, k)
    BY <1>2 DEF Blank
  <2>3. Trimmed(text) = Prefix(text, k)
    BY <1>1, <1>2, <2>1, <2>2, BlankTrimmed
  <2>4. Before(Prefix(text, k)) = Prefix(text, h)
    BY <1>1, <1>2, <1>3, ClauseCut
  <2>5. QED
    BY <1>3, <2>1, <2>3, <2>4 DEF WithoutOffset
<1>4. CASE ~HasClause(text, j, k, "OFFSET")
  <2>1. Blank(text, j, k)
    BY <1>1, <1>2, <1>4, PartCases
  <2>2. Blank(text, h, k)
    <3>1. \A l \in h + 1 .. k : l \in h + 1 .. j \/ l \in j + 1 .. k
      BY <1>1
    <3>2. QED
      BY <1>1, <2>1, <3>1 DEF Blank
  <2>3. Trimmed(text) = Prefix(text, h)
    BY <1>1, <1>2, <2>2, BlankTrimmed
  <2>4. ~Ends(Prefix(text, h), "OFFSET")
    <3>1. CASE HasClause(text, i, j, "LIMIT")
      <4>1. h = j
        BY <3>1 DEF HeadEnd
      <4>2. Ends(Prefix(text, j), "OFFSET") <=> "OFFSET" = "LIMIT"
        BY <1>2, <3>1, ClauseEnds
      <4>3. QED
        BY <4>1, <4>2
    <3>2. CASE ~HasClause(text, i, j, "LIMIT")
      BY <1>1, <3>2, NoneEnds DEF HeadEnd
    <3>3. QED
      BY <3>1, <3>2
  <2>5. QED
    BY <1>4, <2>3, <2>4 DEF WithoutOffset
<1>5. QED
  BY <1>3, <1>4

\* The numbers of the clauses a text has.
LimitOf(text, i, j) == IF HasClause(text, i, j, "LIMIT") THEN {Number[text[j]]} ELSE {}
OffsetOf(text, j, k) == IF HasClause(text, j, k, "OFFSET") THEN {Number[text[k]]} ELSE {}

\* What the scan makes of a text, if its numbers have 32 bits.
LEMMA Cut ==
  ASSUME NEW text \in Text, NEW i, NEW j, NEW k, Placed(text, i, j, k),
         \A n \in LimitOf(text, i, j) \cup OffsetOf(text, j, k) : n < U32
  PROVE  /\ StripLimitOffset(text) = Prefix(text, i)
         /\ ExtractUserLimit(text) = LimitOf(text, i, j)
         /\ ExtractUserOffset(text) = OffsetOf(text, j, k)
<1> DEFINE h == HeadEnd(text, i, j)
<1>1. /\ i \in 1 .. Len(text) /\ j \in 1 .. Len(text) /\ k \in 1 .. Len(text)
      /\ j \in 0 .. Len(text) /\ i \in 0 .. Len(text) /\ k \in 0 .. Len(text) /\ i \in 1 .. i
      /\ Boundless(Prefix(text, i))
  BY WholePrefix, HeadEndIs DEF Placed
<1>2. /\ WithoutOffset(Trimmed(text)) = Prefix(text, h)
      /\ HasClause(text, j, k, "OFFSET") => Trimmed(text) = Prefix(text, k) /\ Ends(Prefix(text, k), "OFFSET")
      /\ ~HasClause(text, j, k, "OFFSET") => ~Ends(Trimmed(text), "OFFSET")
  BY HeadCut
<1>3. \A n \in {i, j, k} : Len(Prefix(text, n)) = n /\ Prefix(text, n)[n] = text[n]
  BY <1>1, WholePrefix, PrefixIs
<1>4. StripLimitOffset(text) = Prefix(text, i) /\ ExtractUserLimit(text) = LimitOf(text, i, j)
  <2>1. CASE HasClause(text, i, j, "LIMIT")
    <3>1. h = j
      BY <2>1 DEF HeadEnd
    <3>2. Ends(Prefix(text, j), "LIMIT") <=> "LIMIT" = "LIMIT"
      BY <1>1, <2>1, ClauseEnds
    <3>3. Blank(text, i, i) /\ text[i] # EndOfLine
      <4>1. text[i] # EndOfLine
        BY <1>1, BoundlessIs
      <4>2. QED
        BY <1>1, <4>1 DEF Blank
    <3>4. Before(Prefix(text, j)) = Prefix(text, i)
      BY <1>1, <2>1, <3>3, ClauseCut
    <3>5. LimitOf(text, i, j) = {Number[text[j]]} /\ Number[text[j]] < U32
      BY <2>1 DEF LimitOf
    <3>6. QED
      BY <1>2, <1>3, <3>1, <3>2, <3>4, <3>5 DEF StripLimitOffset, ExtractUserLimit, Extracted
  <2>2. CASE ~HasClause(text, i, j, "LIMIT")
    <3>1. h = i /\ LimitOf(text, i, j) = {}
      BY <2>2 DEF HeadEnd, LimitOf
    <3>2. ~Ends(Prefix(text, i), "LIMIT")
      BY <1>1, NoneEnds
    <3>3. QED
      BY <1>2, <3>1, <3>2 DEF StripLimitOffset, ExtractUserLimit, Extracted
  <2>3. QED
    BY <2>1, <2>2
<1>5. ExtractUserOffset(text) = OffsetOf(text, j, k)
  <2>1. CASE HasClause(text, j, k, "OFFSET")
    <3>1. OffsetOf(text, j, k) = {Number[text[k]]} /\ Number[text[k]] < U32
      BY <2>1 DEF OffsetOf
    <3>2. QED
      BY <1>2, <1>3, <2>1, <3>1 DEF ExtractUserOffset, Extracted
  <2>2. CASE ~HasClause(text, j, k, "OFFSET")
    BY <1>2, <2>2 DEF ExtractUserOffset, Extracted, OffsetOf
  <2>3. QED
    BY <2>1, <2>2
<1>6. QED
  BY <1>4, <1>5

-----------------------------------------------------------------------------
(* What PostgreSQL takes from a tidy text. *)

Bound == {"LIMIT", "OFFSET", "FETCH"}

\* A clause more.
WithClause(words, word, n) == Append(Append(words, word), n)
With(S, added, x) == IF added THEN S \cup {x} ELSE S

\* A clause more stands at one place more, with one number more.
LEMMA AddedClause ==
  ASSUME NEW words \in Text, NEW word \in Bound, NEW n \in DOMAIN Number, word \in STRING, n \in STRING,
         NEW more, more = WithClause(words, word, n), NEW other \in Bound
  PROVE  /\ Places(more, other) = With(Places(words, other), other = word, Len(words) + 1)
         /\ Numbers(more, other) = With(Numbers(words, other), other = word, Number[n])
<1> DEFINE one == Append(words, word)
<1>10. one = Append(words, word) /\ more = Append(one, n) /\ words \in Seq(STRING)
  BY DEF Text, WithClause
<1> HIDE DEF one
<1>1. /\ one \in Text /\ Len(one) = Len(words) + 1 /\ Len(words) \in Nat
      /\ \A k \in 1 .. Len(words) : one[k] = words[k]
      /\ one[Len(words) + 1] = word
  <2>1. one \in Seq(STRING) /\ Len(one) = Len(words) + 1
    BY <1>10, AppendProperties
  <2>2. Len(words) \in Nat
    BY <1>10, LenProperties
  <2>3. \A k \in 1 .. Len(words) : one[k] = words[k]
    BY <1>10, AppendProperties
  <2>4. one[Len(words) + 1] = word
    BY <1>10, AppendProperties
  <2>5. QED
    BY <2>1, <2>2, <2>3, <2>4 DEF Text
<1>3. Len(more) = Len(one) + 1 /\ (\A k \in 1 .. Len(one) : more[k] = one[k]) /\ more[Len(one) + 1] = n
  <2>1. one \in Seq(STRING)
    BY <1>1 DEF Text
  <2>2. Len(more) = Len(one) + 1 /\ more[Len(one) + 1] = n
    BY <1>10, <2>1, AppendProperties
  <2>5. more = Append(one, n)
    BY <1>10
  <2>3. \A k \in 1 .. Len(one) : more[k] = one[k]
      <3>1. \A k \in 1 .. Len(one) : Append(one, n)[k] = one[k]
      BY <2>1, AppendProperties
    <3>2. QED
      BY <2>5, <3>1
  <2>4. QED
    BY <2>2, <2>3
<1>4. PICK l \in Nat : l = Len(words)
  BY <1>1
<1>5. /\ Len(words) = l /\ Len(more) = l + 2 /\ more[l + 1] = word /\ more[l + 2] = n
      /\ \A k \in 1 .. l : more[k] = words[k]
  <2>1. Len(one) = l + 1 /\ (\A k \in 1 .. l : one[k] = words[k]) /\ one[l + 1] = word
    BY <1>1, <1>4
  <2>2. Len(more) = l + 2 /\ (\A k \in 1 .. l + 1 : more[k] = one[k]) /\ more[l + 2] = n
    <3>1. Len(one) + 1 = l + 2
      BY <1>4, <2>1
    <3>2. QED
      BY <1>3, <2>1, <3>1
  <2>3. l + 1 \in 1 .. l + 1 /\ \A k \in 1 .. l : k \in 1 .. l + 1
    BY <1>4
  <2>4. QED
    BY <1>4, <2>1, <2>2, <2>3
<1>6. n \notin Bound /\ \A k \in DOMAIN Number : k \notin Bound
  BY WordsOf DEF Bound
<1>7. Places(more, other) = With(Places(words, other), other = word, Len(words) + 1)
  <2>1. ASSUME NEW k PROVE k \in Places(more, other) <=> k \in Places(words, other) \/ (other = word /\ k = l + 1)
    <3>1. k \in Places(more, other) <=> k \in 1 .. l + 2 /\ more[k] = other
      BY <1>5 DEF Places
    <3>2. k \in Places(words, other) <=> k \in 1 .. l /\ words[k] = other
      BY <1>5 DEF Places
    <3>3. k \in 1 .. l + 2 <=> k \in 1 .. l \/ k = l + 1 \/ k = l + 2
      BY <1>4
    <3>4. l + 1 \notin 1 .. l /\ l + 2 \notin 1 .. l /\ l + 1 # l + 2
      BY <1>4
    <3>5. QED
      BY <1>5, <1>6, <3>1, <3>2, <3>3, <3>4
  <2>2. CASE other = word
    BY <1>5, <2>1, <2>2 DEF With
  <2>3. CASE other # word
    BY <2>1, <2>3 DEF With
  <2>4. QED
    BY <2>2, <2>3
<1>8. Numbers(more, other) = With(Numbers(words, other), other = word, Number[n])
  <2>1. ASSUME NEW x PROVE x \in Numbers(more, other) <=> x \in Numbers(words, other) \/ (other = word /\ x = Number[n])
    <3>1. x \in Numbers(more, other) <=>
            \E j \in 1 .. l + 1 : more[j] = other /\ more[j + 1] \in DOMAIN Number /\ x = Number[more[j + 1]]
      <4>1. Len(more) - 1 = l + 1
        BY <1>4, <1>5
      <4>2. QED
        BY <4>1 DEF Numbers
    <3>2. x \in Numbers(words, other) <=>
            \E j \in 1 .. l - 1 : words[j] = other /\ words[j + 1] \in DOMAIN Number /\ x = Number[words[j + 1]]
      <4>1. Len(words) - 1 = l - 1
        BY <1>4, <1>5
      <4>2. QED
        BY <4>1 DEF Numbers
    <3>3. ASSUME NEW j \in 1 .. l + 1, more[j] = other, more[j + 1] \in DOMAIN Number, x = Number[more[j + 1]]
          PROVE  x \in Numbers(words, other) \/ (other = word /\ x = Number[n])
      <4>1. CASE j = l + 1
        <5>1. j + 1 = l + 2
          BY <1>4, <4>1
        <5>2. QED
          BY <1>5, <3>3, <4>1, <5>1
      <4>2. CASE j = l
        <5>1. more[j + 1] = word
          BY <1>5, <4>2
        <5>2. QED
          BY <1>6, <3>3, <5>1
      <4>3. CASE j \in 1 .. l - 1
        <5>1. j \in 1 .. l /\ j + 1 \in 1 .. l
          BY <1>4, <4>3
        <5>2. more[j] = words[j] /\ more[j + 1] = words[j + 1]
          BY <1>5, <5>1
        <5>3. QED
          BY <3>2, <3>3, <4>3, <5>2
      <4>4. j = l + 1 \/ j = l \/ j \in 1 .. l - 1
        BY <1>4
      <4>5. QED
        BY <4>1, <4>2, <4>3, <4>4
    <3>4. ASSUME NEW j \in 1 .. l - 1, words[j] = other, words[j + 1] \in DOMAIN Number, x = Number[words[j + 1]]
          PROVE  x \in Numbers(more, other)
      <4>1. j \in 1 .. l /\ j + 1 \in 1 .. l /\ j \in 1 .. l + 1
        BY <1>4, <3>4
      <4>2. more[j] = words[j] /\ more[j + 1] = words[j + 1]
        BY <1>5, <4>1
      <4>3. QED
        BY <3>1, <3>4, <4>1, <4>2
    <3>5. ASSUME other = word, x = Number[n] PROVE x \in Numbers(more, other)
      <4>1. l + 1 \in 1 .. l + 1 /\ (l + 1) + 1 = l + 2
        BY <1>4
      <4>2. more[l + 1] = other /\ more[(l + 1) + 1] = n
        BY <1>5, <3>5, <4>1
      <4>3. QED
        BY <3>1, <3>5, <4>1, <4>2
    <3>6. QED
      BY <3>1, <3>2, <3>3, <3>4, <3>5
  <2>2. CASE other = word
    BY <2>1, <2>2 DEF With
  <2>3. CASE other # word
    BY <2>1, <2>3 DEF With
  <2>4. QED
    BY <2>2, <2>3
<1>9. QED
  BY <1>7, <1>8

\* What is read up to the end of a clause.
LEMMA ClauseRead ==
  ASSUME NEW text \in Text, NEW i \in 0 .. Len(text), NEW j \in 0 .. Len(text), NEW word \in {"LIMIT", "OFFSET"},
         HasClause(text, i, j, word), Outer(Outside(Prefix(text, i)))
  PROVE  /\ Outer(Outside(Prefix(text, j)))
         /\ Outside(Prefix(text, j)).words = WithClause(Outside(Prefix(text, i)).words, word, text[j])
         /\ text[j] \in DOMAIN Number /\ text[j] \in STRING /\ word \in STRING
<1>1. Len(text) \in Nat
  BY WholePrefix
<1>2. PICK a \in i .. j : /\ \A k \in i + 1 .. a : text[k] = EndOfLine
                          /\ j = a + 2 /\ text[a + 1] = word /\ text[a + 2] \in DOMAIN Number
  BY DEF HasClause
<1>3. /\ a \in i .. Len(text) /\ a \in 0 .. Len(text) /\ a + 1 \in 1 .. Len(text) /\ j \in 1 .. Len(text)
      /\ (a + 1) - 1 = a /\ j - 1 = a + 1 /\ a + 1 \in 0 .. Len(text)
  BY <1>1, <1>2
<1> DEFINE s == Outside(Prefix(text, i))
           t == Outside(Prefix(text, a + 1))
           u == Outside(Prefix(text, j))
<1>4. Outside(Prefix(text, a)) = s
  <2>1. \A k \in i + 1 .. a : text[k] \in {Semicolon, EndOfLine}
    BY <1>2
  <2>2. QED
    BY <1>3, <2>1, Skipped
<1>5. s \in LexState /\ t \in LexState /\ u \in LexState
  BY <1>3, OutsideType
<1>6. t = Lex(s, word)
  BY <1>2, <1>3, <1>4, OutsideStep
<1>7. u = Lex(t, text[j])
  BY <1>3, OutsideStep
<1>8. IsWord(word) /\ IsWord(text[j]) /\ text[j] \in DOMAIN Number
  BY <1>2, WordsOf
<1>9. text[j] \in STRING /\ word \in STRING
  BY <1>2, <1>3, ElementOfSeq DEF Text
<1> HIDE DEF t, u
<1>10. Outer(t) /\ t.words = Append(s.words, word)
  <2> HIDE DEF s
  <2>1. Outer(s)
    BY DEF s
  <2>2. t = [s EXCEPT !.words = Append(@, word)]
    BY <1>5, <1>6, <1>8, <2>1, LexWord
  <2>3. QED
    BY <1>5, <2>1, <2>2 DEF Outer, LexState
<1>11. Outer(u) /\ u.words = Append(t.words, text[j])
  <2>1. u = [t EXCEPT !.words = Append(@, text[j])]
    BY <1>5, <1>7, <1>8, <1>10, LexWord
  <2>2. QED
    BY <1>5, <1>10, <2>1 DEF Outer, LexState
<1>12. QED
  BY <1>8, <1>9, <1>10, <1>11 DEF u, WithClause

\* What is read up to the end of a part.
LEMMA PartRead ==
  ASSUME NEW text \in Text, NEW i \in 0 .. Len(text), NEW j \in i .. Len(text), NEW word \in {"LIMIT", "OFFSET"},
         Part(text, i, j, word), Outer(Outside(Prefix(text, i))),
         NEW a, a = Outside(Prefix(text, i)).words, NEW b, b = Outside(Prefix(text, j)).words, NEW other \in Bound
  PROVE  /\ Outer(Outside(Prefix(text, j)))
         /\ Places(b, other) = With(Places(a, other), other = word /\ HasClause(text, i, j, word), Len(a) + 1)
         /\ Numbers(b, other) = With(Numbers(a, other), other = word /\ HasClause(text, i, j, word), Number[text[j]])
<1>1. Len(text) \in Nat /\ j \in 0 .. Len(text)
  BY WholePrefix
<1>2. a \in Text
  BY OutsideType DEF LexState
<1>3. CASE HasClause(text, i, j, word)
  <2>1. /\ Outer(Outside(Prefix(text, j))) /\ b = WithClause(a, word, text[j])
        /\ text[j] \in DOMAIN Number /\ text[j] \in STRING /\ word \in STRING
    BY <1>1, <1>3, ClauseRead
  <2>2. word \in Bound
    BY DEF Bound
  <2>3. /\ Places(b, other) = With(Places(a, other), other = word, Len(a) + 1)
        /\ Numbers(b, other) = With(Numbers(a, other), other = word, Number[text[j]])
    <3>1. PICK n : n = text[j]
      OBVIOUS
    <3>2. n \in DOMAIN Number /\ n \in STRING /\ b = WithClause(a, word, n)
      BY <2>1, <3>1
    <3>3. /\ Places(b, other) = With(Places(a, other), other = word, Len(a) + 1)
          /\ Numbers(b, other) = With(Numbers(a, other), other = word, Number[n])
      BY <1>2, <2>1, <2>2, <3>2, AddedClause
    <3>4. QED
      BY <3>1, <3>3
  <2>4. QED
    BY <1>3, <2>1, <2>3 DEF With
<1>4. CASE ~HasClause(text, i, j, word)
  <2>1. Blank(text, i, j)
    BY <1>1, <1>4, PartCases
  <2>2. \A k \in i + 1 .. j : text[k] \in {Semicolon, EndOfLine}
    BY <2>1 DEF Blank
  <2>3. Outside(Prefix(text, j)) = Outside(Prefix(text, i))
    BY <2>2, Skipped
  <2>4. QED
    BY <1>4, <2>3 DEF With
<1>5. QED
  BY <1>3, <1>4

\* What PostgreSQL reads in a text: the bounds that its places have.
LEMMA Reads ==
  ASSUME NEW text \in Text, NEW i, NEW j, NEW k, Placed(text, i, j, k)
  PROVE  /\ Closed(text)
         /\ ~Repeated(Clauses(text, "LIMIT") \cup Clauses(text, "FETCH")) /\ ~Repeated(Clauses(text, "OFFSET"))
         /\ Values(text, "LIMIT") = LimitOf(text, i, j) /\ Values(text, "OFFSET") = OffsetOf(text, j, k)
         /\ Values(text, "FETCH") = {}
<1> DEFINE a == Outside(Prefix(text, i)).words
           b == Outside(Prefix(text, j)).words
           c == Outside(Prefix(text, k)).words
<1>1. /\ Len(text) \in Nat
      /\ i \in 1 .. Len(text) /\ i \in 0 .. Len(text) /\ j \in i .. Len(text) /\ j \in 0 .. Len(text)
      /\ k \in j .. Len(text) /\ k \in 0 .. Len(text) /\ Len(text) \in k .. Len(text)
      /\ Boundless(Prefix(text, i)) /\ Part(text, i, j, "LIMIT") /\ Part(text, j, k, "OFFSET") /\ Ended(text, k)
  BY WholePrefix DEF Placed
<1>2. /\ Outer(Outside(Prefix(text, i)))
      /\ Places(a, "LIMIT") = {} /\ Places(a, "OFFSET") = {} /\ Places(a, "FETCH") = {}
  BY <1>1, BoundlessIs
<1>3. a \in Text
  BY <1>1, OutsideType DEF LexState
<1>4. ASSUME NEW word, Places(a, word) = {} PROVE Numbers(a, word) = {}
  <2>1. Len(a) \in Nat
    BY <1>3, LenProperties DEF Text
  <2> HIDE DEF a
  <2>2. ASSUME NEW m \in 1 .. Len(a) - 1, a[m] = word PROVE FALSE
    <3>1. m \in Places(a, word)
      BY <2>1, <2>2 DEF Places
    <3>2. QED
      BY <1>4, <3>1
  <2>3. QED
    BY <2>2 DEF Numbers
<1>5. ASSUME NEW other \in Bound
      PROVE  /\ Outer(Outside(Prefix(text, j)))
             /\ Places(b, other) = With(Places(a, other), other = "LIMIT" /\ HasClause(text, i, j, "LIMIT"), Len(a) + 1)
             /\ Numbers(b, other) = With(Numbers(a, other), other = "LIMIT" /\ HasClause(text, i, j, "LIMIT"), Number[text[j]])
  BY <1>1, <1>2, PartRead
<1>6. "LIMIT" \in Bound /\ "OFFSET" \in Bound /\ "FETCH" \in Bound
  BY DEF Bound
<1>7. ASSUME NEW other \in Bound
      PROVE  /\ Outer(Outside(Prefix(text, k)))
             /\ Places(c, other) = With(Places(b, other), other = "OFFSET" /\ HasClause(text, j, k, "OFFSET"), Len(b) + 1)
             /\ Numbers(c, other) = With(Numbers(b, other), other = "OFFSET" /\ HasClause(text, j, k, "OFFSET"), Number[text[k]])
  BY <1>1, <1>5, PartRead
<1>8. Outside(text) = Outside(Prefix(text, k))
  <2>1. \A m \in k + 1 .. Len(text) : text[m] \in {Semicolon, EndOfLine}
    BY <1>1 DEF Ended
  <2>2. Outside(Prefix(text, Len(text))) = Outside(Prefix(text, k))
    BY <1>1, <1>6, <1>7, <2>1, Skipped
  <2>3. QED
    BY <2>2, WholePrefix
<1> HIDE DEF a, b, c
<1>9. Outside(text).words = c
  BY <1>8 DEF c
<1>10. Places(c, "LIMIT") \cup Places(c, "FETCH") \in {{}, {Len(a) + 1}}
  BY <1>2, <1>5, <1>6, <1>7 DEF With
<1>11. Places(c, "OFFSET") \in {{}, {Len(b) + 1}}
  BY <1>2, <1>5, <1>6, <1>7 DEF With
<1>12. Numbers(c, "LIMIT") = LimitOf(text, i, j) /\ Numbers(c, "FETCH") = {} /\ Numbers(c, "OFFSET") = OffsetOf(text, j, k)
  BY <1>2, <1>4, <1>5, <1>6, <1>7 DEF With, LimitOf, OffsetOf
<1>13. Closed(text)
  BY <1>6, <1>7, <1>8 DEF Closed, Outer
<1>14. QED
  BY <1>9, <1>10, <1>11, <1>12, <1>13 DEF Clauses, Values, Repeated

\* The least of one or two numbers.
LEMMA LeastOf ==
  ASSUME NEW a \in Nat, NEW b \in Nat
  PROVE  Least({a}) = a /\ Least({a} \cup {b}) = Smaller(a, b) /\ Smaller(a, b) \in Nat
<1>1. PICK m \in {a, b} : m = Smaller(a, b) /\ m <= a /\ m <= b
  BY DEF Smaller
<1>2. ASSUME NEW S, NEW n \in S, \A x \in S : n <= x, S \subseteq Nat
      PROVE  Least(S) = n
  <2>1. Least(S) \in S /\ \A x \in S : Least(S) <= x
    BY <1>2, Zenon DEF Least
  <2>2. PICK l : l = Least(S)
    OBVIOUS
  <2>3. l \in Nat /\ n \in Nat /\ l <= n /\ n <= l
    BY <1>2, <2>1, <2>2
  <2>4. QED
    BY <2>2, <2>3
<1>3. Least({a}) = a
  BY <1>2
<1>4. Least({a} \cup {b}) = m
  <2>1. m \in {a} \cup {b} /\ (\A x \in {a} \cup {b} : m <= x) /\ {a} \cup {b} \subseteq Nat
    BY <1>1
  <2>2. QED
    BY <1>2, <2>1
<1>5. QED
  BY <1>1, <1>3, <1>4

\* The share of a page: of the rows after the first off, upto all of them, those after the
\* first shown, upto size, when lim are asked for.
PageFits(off, shown, size, n, all, lim) ==
  LET allA == Smaller(off, n)
      allU == Smaller(off + all, n)
      rA == Smaller(off + shown, n)
      rU == Smaller(off + shown + lim, n)
      upto == Smaller(rU, rA + size)
      after == Smaller(allA + shown, allU)
      u == Smaller(after + size, allU)
  IN  /\ upto - rA = u - after
      /\ u > after => rA = after
      /\ (upto < rU) <=> (u < allU)

\* Without a LIMIT of the user, the page fits.
LEMMA ShareUnlimited ==
  ASSUME NEW off \in Nat, NEW shown \in Nat, NEW size \in Nat, NEW n \in Nat
  PROVE  PageFits(off, shown, size, n, n, size + 1)
  BY DEF PageFits, Smaller

\* It fits below the LIMIT of the user.
LEMMA ShareLimited ==
  ASSUME NEW off \in Nat, NEW shown \in Nat, NEW size \in Nat, NEW n \in Nat, NEW l \in Nat
  PROVE  PageFits(off, shown, size, n, Smaller(l, n), Smaller(size + 1, Monus(l, shown)))
  BY DEF PageFits, Smaller, Monus

-----------------------------------------------------------------------------
(* A page of a tidy text. *)

\* The number of a clause, if it is there.
OffsetNum(text, j, k) == IF HasClause(text, j, k, "OFFSET") THEN Number[text[k]] ELSE 0
PageCount(text, i, j, size, shown) ==
  IF HasClause(text, i, j, "LIMIT") THEN Smaller(size + 1, Monus(Number[text[j]], shown)) ELSE size + 1
AllCount(text, i, j, n) == IF HasClause(text, i, j, "LIMIT") THEN Smaller(Number[text[j]], n) ELSE n

\* The numbers of the clauses are numbers.
LEMMA NumbersAre ==
  ASSUME NEW text \in Text, NEW i, NEW j, NEW k, Placed(text, i, j, k)
  PROVE  /\ HasClause(text, i, j, "LIMIT") => Number[text[j]] \in Nat
         /\ HasClause(text, j, k, "OFFSET") => Number[text[k]] \in Nat
         /\ OffsetNum(text, j, k) \in Nat
<1>1. i \in 0 .. Len(text) /\ j \in 0 .. Len(text) /\ k \in 0 .. Len(text)
  BY HeadEndIs, WholePrefix
<1>2. HasClause(text, i, j, "LIMIT") => text[j] \in DOMAIN Number
  BY <1>1, ClauseEnds
<1>3. HasClause(text, j, k, "OFFSET") => text[k] \in DOMAIN Number
  BY <1>1, ClauseEnds
<1>4. QED
  BY <1>2, <1>3, NumbersOK DEF NumbersOK, OffsetNum

\* What the statement selects.
LEMMA SelectedIs ==
  ASSUME NEW text \in Text, NEW i, NEW j, NEW k, Placed(text, i, j, k), NEW n \in Nat
  PROVE  Selected(text, n) =
           {[after |-> Smaller(OffsetNum(text, j, k), n),
             upto |-> Smaller(OffsetNum(text, j, k) + AllCount(text, i, j, n), n)]}
<1> DEFINE offset == IF Values(text, "OFFSET") = {} THEN 0 ELSE Least(Values(text, "OFFSET"))
           counts == Values(text, "LIMIT") \cup Values(text, "FETCH") \cup {n}
<1>1. /\ Closed(text)
      /\ ~Repeated(Clauses(text, "LIMIT") \cup Clauses(text, "FETCH")) /\ ~Repeated(Clauses(text, "OFFSET"))
      /\ Values(text, "LIMIT") = LimitOf(text, i, j) /\ Values(text, "OFFSET") = OffsetOf(text, j, k)
      /\ Values(text, "FETCH") = {}
  BY Reads
<1>2. Selected(text, n) = {[after |-> Smaller(offset, n), upto |-> Smaller(offset + Least(counts), n)]}
  BY <1>1 DEF Selected
<1>3. offset = OffsetNum(text, j, k)
  <2>1. CASE HasClause(text, j, k, "OFFSET")
    <3>1. Least({Number[text[k]]}) = Number[text[k]]
      BY <2>1, NumbersAre, LeastOf
    <3>2. QED
      BY <1>1, <2>1, <3>1 DEF OffsetOf, OffsetNum
  <2>2. CASE ~HasClause(text, j, k, "OFFSET")
    BY <1>1, <2>2 DEF OffsetOf, OffsetNum
  <2>3. QED
    BY <2>1, <2>2
<1>4. Least(counts) = AllCount(text, i, j, n)
  <2>1. CASE HasClause(text, i, j, "LIMIT")
    <3>1. counts = {Number[text[j]]} \cup {n}
      BY <1>1, <2>1 DEF LimitOf
    <3>2. Least({Number[text[j]]} \cup {n}) = Smaller(Number[text[j]], n)
      BY <2>1, NumbersAre, LeastOf
    <3>3. QED
      BY <2>1, <3>1, <3>2 DEF AllCount
  <2>2. CASE ~HasClause(text, i, j, "LIMIT")
    <3>1. counts = {n}
      BY <1>1, <2>2 DEF LimitOf
    <3>2. QED
      BY <2>2, <3>1, LeastOf DEF AllCount
  <2>3. QED
    BY <2>1, <2>2
<1>5. QED
  BY <1>2, <1>3, <1>4

\* A number in its 32 bits is itself.
LEMMA InBits ==
  ASSUME NEW n \in Nat, n < U32
  PROVE  n % U32 = n
  BY NumbersOK DEF NumbersOK

\* The statement of a page.
LEMMA PaginatedIs ==
  ASSUME NEW text \in Text, NEW i, NEW j, NEW k, Placed(text, i, j, k),
         \A n \in LimitOf(text, i, j) \cup OffsetOf(text, j, k) : n < U32,
         NEW size \in Nat, size + 1 < U32, NEW page, NEW shown \in Nat, PageOffset(page, size) = shown,
         OffsetNum(text, j, k) + shown < U32
  PROVE  Paginated(text, size, page) =
           [text |-> Prefix(text, i), limit |-> PageCount(text, i, j, size, shown),
            offset |-> OffsetNum(text, j, k) + shown]
<1> DEFINE wanted == {(size + 1) % U32} \cup {Monus(n, shown) : n \in ExtractUserLimit(text)}
           offsets == ExtractUserOffset(text)
           from == IF offsets = {} THEN 0 ELSE CHOOSE n \in offsets : TRUE
<1>1. /\ StripLimitOffset(text) = Prefix(text, i)
      /\ ExtractUserLimit(text) = LimitOf(text, i, j)
      /\ ExtractUserOffset(text) = OffsetOf(text, j, k)
  BY Cut
<1>2. Paginated(text, size, page) =
        [text |-> Prefix(text, i), limit |-> Least(wanted), offset |-> Smaller(from + shown, U32 - 1)]
  BY <1>1 DEF Paginated
<1>3. from = OffsetNum(text, j, k)
  <2>1. CASE HasClause(text, j, k, "OFFSET")
    <3>1. offsets = {Number[text[k]]}
      BY <1>1, <2>1 DEF OffsetOf
    <3> HIDE DEF offsets
    <3>2. offsets # {} /\ (CHOOSE n \in offsets : TRUE) \in offsets
      BY <3>1, Zenon
    <3> DEFINE chosen == CHOOSE n \in offsets : TRUE
    <3>3. chosen = Number[text[k]]
      BY <3>1, <3>2, Zenon
    <3>4. QED
      BY <2>1, <3>2, <3>3, Zenon DEF OffsetNum
  <2>2. CASE ~HasClause(text, j, k, "OFFSET")
    BY <1>1, <2>2 DEF OffsetOf, OffsetNum
  <2>3. QED
    BY <2>1, <2>2
<1>4. Smaller(from + shown, U32 - 1) = OffsetNum(text, j, k) + shown
  <2> HIDE DEF from
  <2>1. PICK o \in Nat : o = OffsetNum(text, j, k)
    BY NumbersAre
  <2>2. o + shown < U32 /\ U32 \in Nat
    BY <2>1, NumbersOK DEF NumbersOK
  <2>3. Smaller(o + shown, U32 - 1) = o + shown
    BY <2>2 DEF Smaller
  <2>4. QED
    BY <1>3, <2>1, <2>3
<1>5. (size + 1) % U32 = size + 1 /\ size + 1 \in Nat
  BY InBits
<1>6. Least(wanted) = PageCount(text, i, j, size, shown)
  <2>1. CASE HasClause(text, i, j, "LIMIT")
    <3>1. PICK l \in Nat : l = Number[text[j]]
      BY <2>1, NumbersAre
    <3>2. {Monus(n, shown) : n \in ExtractUserLimit(text)} = {Monus(l, shown)}
      BY <1>1, <2>1, <3>1 DEF LimitOf
    <3>3. Monus(l, shown) \in Nat
      BY <3>1 DEF Monus
    <3>4. Least({size + 1} \cup {Monus(l, shown)}) = Smaller(size + 1, Monus(l, shown))
      BY <1>5, <3>3, LeastOf
    <3>5. QED
      BY <1>5, <2>1, <3>1, <3>2, <3>4 DEF PageCount
  <2>2. CASE ~HasClause(text, i, j, "LIMIT")
    <3>1. {Monus(n, shown) : n \in ExtractUserLimit(text)} = {}
      BY <1>1, <2>2 DEF LimitOf
    <3>2. wanted = {size + 1}
      BY <1>5, <3>1
    <3>3. QED
      BY <1>5, <2>2, <3>2, LeastOf DEF PageCount
  <2>3. QED
    BY <2>1, <2>2
<1>7. QED
  BY <1>2, <1>4, <1>6

\* What it selects.
LEMMA SelectedPageIs ==
  ASSUME NEW text \in Text, NEW i, NEW j, NEW k, Placed(text, i, j, k), NEW n, NEW limit, NEW offset
  PROVE  SelectedPage([text |-> Prefix(text, i), limit |-> limit, offset |-> offset], n) =
           {[after |-> Smaller(offset, n), upto |-> Smaller(offset + limit, n)]}
<1>1. i \in 1 .. Len(text) /\ Boundless(Prefix(text, i))
  BY DEF Placed
<1>2. Closed(Prefix(text, i)) /\ ~InComment(Prefix(text, i))
  BY <1>1 DEF Boundless
<1>3. \A word \in {"LIMIT", "OFFSET", "FETCH"} : Clauses(Prefix(text, i), word) = {}
  BY <1>1 DEF Boundless
<1>4. QED
  BY <1>2, <1>3 DEF SelectedPage

AskOK(ask) ==
  /\ ask.text \in Text
  /\ ask.limit \subseteq Nat /\ \A m, n \in ask.limit : m = n
  /\ ask.page \in Nat

\* A name is found in a schema that has it, or nowhere.
LEMMA ResolvedIs ==
  ASSUME NEW path \in Seq(STRING), Resolved(path) # None
  PROVE  Resolved(path) \in DOMAIN Rows
<1> DEFINE known == {k \in 1 .. Len(path) : path[k] \in DOMAIN Rows}
<1>1. known # {} /\ Resolved(path) = path[Least(known)]
  BY DEF Resolved
<1>2. known \in SUBSET Nat
  OBVIOUS
<1>3. PICK n \in known : \A m \in known : n <= m
  BY <1>1, <1>2, LeastOne, Zenon
<1>4. Least(known) \in known
  <2> HIDE DEF known
  <2>1. QED
    BY <1>3, Zenon DEF Least
<1>5. QED
  BY <1>1, <1>4

\* The first row of a page after those of the pages before, and how many they have.
Shown(ask, size) == (ask.page - 1) * size

\* A page holds its share.
IsShare(result, all, shown, size) ==
  LET after == Smaller(all.after + shown, all.upto)
      upto == Smaller(after + size, all.upto)
  IN  /\ result.upto - result.after = upto - after
      /\ upto > after => result.after = after
      /\ result.truncated = (upto < all.upto)

\* What exec_query_on_client answers is the share of the page.
LEMMA AnswerIsShare ==
  ASSUME NEW ask, AskOK(ask), Plain(ask), NEW path \in Seq(STRING), Answer(ask, path).schema # None
  PROVE  /\ Answer(ask, path).error = None
         /\ \E all \in Selected(ask.text, Rows[Answer(ask, path).schema]), size \in ask.limit :
              IsShare(Answer(ask, path), all, Shown(ask, size), size)
<1> DEFINE text == ask.text
           schema == Resolved(path)
           paginated == SupportsTrailingLimitClause(text) /\ ask.limit # {}
           chosen == CHOOSE n \in Size(ask) : TRUE
           selected == IF paginated THEN SelectedPage(Paginated(text, chosen, ask.page % U32), Rows[schema])
                       ELSE Selected(text, Rows[schema])
           rows == CHOOSE x \in selected : TRUE
           upto == Least({rows.upto} \cup {rows.after + n : n \in Size(ask)})
           result == Answer(ask, path)
<1>1. result = IF schema = None \/ selected = {} THEN [Error("refused") EXCEPT !.schema = schema]
               ELSE IF ~ReturnsResultSet(text) THEN [NoResult EXCEPT !.schema = schema]
               ELSE [error |-> None, schema |-> schema, after |-> rows.after, upto |-> upto,
                     truncated |-> upto < rows.upto]
  BY Zenon DEF Answer
<1>2. text \in Text /\ ask.limit \subseteq Nat /\ (\A m, n \in ask.limit : m = n) /\ ask.page \in Nat
  BY DEF AskOK
<1>3. /\ SupportsTrailingLimitClause(text) /\ Tidy(text)
      /\ ask.page \in 1 .. U32 - 1 /\ ask.limit # {}
      /\ \A n \in Values(text, "LIMIT") : n < U32
      /\ \A n \in ask.limit : /\ n < U32 - 1
                              /\ \A m \in {0} \cup Values(text, "OFFSET") : m + Shown(ask, n) < U32
  BY DEF Plain, Shown
<1>4. ReturnsResultSet(text)
  BY <1>3 DEF SupportsTrailingLimitClause, ReturnsResultSet
<1>5. PICK i, j, k : Placed(text, i, j, k)
  BY <1>2, <1>3, TidyPlaces
<1>6. Values(text, "LIMIT") = LimitOf(text, i, j) /\ Values(text, "OFFSET") = OffsetOf(text, j, k)
  BY <1>2, <1>5, Reads
<1>7. PICK size \in ask.limit : size \in Nat /\ ask.limit = {size}
  BY <1>2, <1>3
<1>8. U32 \in Nat
  BY NumbersOK DEF NumbersOK
<1>9. size + 1 < U32 /\ size < U32 /\ size % U32 = size
  <2>1. size < U32 - 1
    BY <1>3, <1>7
  <2>2. size + 1 < U32 /\ size < U32
    BY <1>7, <1>8, <2>1
  <2>3. QED
    BY <1>7, <2>2, InBits
<1>10. Size(ask) = {size} /\ chosen = size
  <2>1. Size(ask) = {size}
    BY <1>7, <1>9 DEF Size
  <2>2. QED
    BY <2>1, Zenon
<1>11. ask.page % U32 = ask.page /\ Monus(ask.page, 1) = ask.page - 1 /\ ask.page - 1 \in Nat
  <2>1. ask.page < U32 /\ ask.page >= 1
    BY <1>3, <1>8
  <2>2. QED
    BY <1>2, <2>1, InBits DEF Monus
<1>12. PICK shown : shown = Shown(ask, size)
  OBVIOUS
<1>13. shown \in Nat /\ shown < U32 /\ OffsetNum(text, j, k) + shown < U32
  <2>1. \A p \in Nat, q \in Nat : p * q \in Nat
    OBVIOUS
  <2>2. shown \in Nat
    BY <1>7, <1>11, <1>12, <2>1 DEF Shown
  <2>3. \A m \in {0} \cup OffsetOf(text, j, k) : m + shown < U32
    BY <1>3, <1>6, <1>7, <1>12
  <2>4. OffsetNum(text, j, k) \in {0} \cup OffsetOf(text, j, k)
    BY DEF OffsetNum, OffsetOf
  <2>5. OffsetNum(text, j, k) + shown < U32
    BY <2>3, <2>4
  <2>6. shown < U32
    <3>1. 0 + shown < U32
      BY <2>3
    <3>2. QED
      BY <2>2, <3>1
  <2>7. QED
    BY <2>2, <2>5, <2>6
<1>14. PageOffset(ask.page, size) = shown
  <2>1. PageOffset(ask.page, size) = Shown(ask, size) % U32
    BY <1>11 DEF PageOffset, Shown
  <2>2. QED
    BY <1>12, <1>13, <2>1, InBits
<1>15. \A n \in LimitOf(text, i, j) \cup OffsetOf(text, j, k) : n < U32
  <2>1. \A n \in LimitOf(text, i, j) : n < U32
    BY <1>3, <1>6
  <2>2. ASSUME NEW n \in OffsetOf(text, j, k) PROVE n < U32
    <3>1. n = OffsetNum(text, j, k) /\ n \in Nat
      BY <1>2, <1>5, <2>2, NumbersAre DEF OffsetOf, OffsetNum
    <3>2. QED
      BY <1>8, <1>13, <3>1
  <2>3. QED
    BY <2>1, <2>2
<1>16. Paginated(text, size, ask.page) =
         [text |-> Prefix(text, i), limit |-> PageCount(text, i, j, size, shown), offset |-> OffsetNum(text, j, k) + shown]
  BY <1>2, <1>5, <1>7, <1>9, <1>13, <1>14, <1>15, PaginatedIs
<1> DEFINE n == Rows[schema]
           off == OffsetNum(text, j, k)
           cnt == PageCount(text, i, j, size, shown)
           row == [after |-> Smaller(off + shown, n), upto |-> Smaller(off + shown + cnt, n)]
           all == [after |-> Smaller(off, n), upto |-> Smaller(off + AllCount(text, i, j, n), n)]
<1>17. selected = {row}
  <2>1. selected = SelectedPage(Paginated(text, size, ask.page), n)
    BY <1>3, <1>10, <1>11
  <2> HIDE DEF n, off, cnt, selected, text
  <2>2. SelectedPage([text |-> Prefix(text, i), limit |-> cnt, offset |-> off + shown], n) = {row}
    BY <1>2, <1>5, SelectedPageIs
  <2>3. QED
    BY <1>16, <2>1, <2>2 DEF off, cnt
<1>18. schema # None
  <2>1. Error("refused").error = "refused" /\ [Error("refused") EXCEPT !.schema = schema].schema = schema
    BY DEF Error, NoResult
  <2>2. QED
    BY <1>1, <1>4, <2>1
<1> HIDE DEF schema, selected
<1>19. selected # {} /\ rows = row
  BY <1>17, Zenon
<1>20. result = [error |-> None, schema |-> schema, after |-> rows.after, upto |-> upto, truncated |-> upto < rows.upto]
  BY <1>1, <1>4, <1>18, <1>19
<1>21. n \in Nat /\ off \in Nat
  <2>1. schema \in DOMAIN Rows
    BY <1>18, ResolvedIs DEF schema
  <2>2. QED
    BY <1>2, <1>5, <2>1, ConstantsOK, NumbersAre DEF ConstantsOK
<1>22. Selected(text, n) = {all}
  BY <1>2, <1>5, <1>21, SelectedIs
<1>23. PICK l \in Nat : HasClause(text, i, j, "LIMIT") => l = Number[text[j]]
  BY <1>2, <1>5, NumbersAre
<1> HIDE DEF rows, n, off, text
<1>24. all.after = Smaller(off, n) /\ all.upto = Smaller(off + AllCount(text, i, j, n), n)
  OBVIOUS
<1>25. rows.after = Smaller(off + shown, n) /\ rows.upto = Smaller(off + shown + cnt, n)
  BY <1>19
<1>26. cnt \in Nat
  BY <1>7, <1>13, <1>23 DEF PageCount, Smaller, Monus
<1> HIDE DEF all, row, cnt
<1>27. rows.after \in Nat /\ rows.upto \in Nat
  BY <1>13, <1>21, <1>25, <1>26 DEF Smaller
<1>28. upto = Smaller(rows.upto, rows.after + size)
  <2>1. {rows.after + m : m \in Size(ask)} = {rows.after + size}
    BY <1>10
  <2>2. rows.after + size \in Nat
    BY <1>7, <1>27
  <2>3. Least({rows.upto} \cup {rows.after + size}) = Smaller(rows.upto, rows.after + size)
    BY <1>27, <2>2, LeastOf
  <2>4. QED
    BY <2>1, <2>3
<1> HIDE DEF upto
<1> DEFINE after == Smaller(all.after + shown, all.upto)
           u == Smaller(after + size, all.upto)
<1>29. /\ upto - rows.after = u - after
       /\ u > after => rows.after = after
       /\ (upto < rows.upto) <=> (u < all.upto)
  <2>1. PageFits(off, shown, size, n, AllCount(text, i, j, n), cnt)
    <3>1. CASE HasClause(text, i, j, "LIMIT")
      <4>1. cnt = Smaller(size + 1, Monus(l, shown)) /\ AllCount(text, i, j, n) = Smaller(l, n)
        BY <1>23, <3>1 DEF cnt, PageCount, AllCount
      <4>2. QED
        BY <1>7, <1>13, <1>21, <4>1, ShareLimited
    <3>2. CASE ~HasClause(text, i, j, "LIMIT")
      <4>1. cnt = size + 1 /\ AllCount(text, i, j, n) = n
        BY <3>2 DEF cnt, PageCount, AllCount
      <4>2. QED
        BY <1>7, <1>13, <1>21, <4>1, ShareUnlimited
    <3>3. QED
      BY <3>1, <3>2
  <2>2. QED
    BY <1>24, <1>25, <1>28, <2>1, Zenon DEF PageFits
<1>30. /\ result.error = None /\ result.schema = schema /\ result.after = rows.after /\ result.upto = upto
       /\ result.truncated = (upto < rows.upto)
  BY <1>20
<1> HIDE DEF result
<1>31. IsShare(result, all, shown, size)
  BY <1>29, <1>30 DEF IsShare
<1>32. all \in Selected(ask.text, Rows[result.schema]) /\ IsShare(result, all, Shown(ask, size), size)
  BY <1>12, <1>22, <1>30, <1>31 DEF n, text
<1>33. QED
  BY <1>30, <1>32 DEF result

-----------------------------------------------------------------------------
(* Pages, whenever they are asked for. *)

\* What is asked has the types of what may be asked.
Asked == \A r \in Request : AskOK(req[r].ask)

\* It holds at the start.
LEMMA AskedFirst == Init => Asked
<1>1. AskOK(NoAsk)
  <2>1. NoAsk.text = <<>> /\ NoAsk.limit = {} /\ NoAsk.page = 1
    BY DEF NoAsk
  <2> HIDE DEF NoAsk
  <2>2. <<>> \in Text
    BY DEF Text
  <2> QED BY <2>1, <2>2 DEF AskOK
<1>2. Init => \A r \in Request : req[r].ask = NoAsk
  BY DEF Init
<1> QED BY <1>1, <1>2 DEF Asked

\* A request keeps what it asks.
LEMMA AskStays ==
  ASSUME Pins, NEW r \in Request, Acts(r), ~Ask(r)
  PROVE  Moves(r)
<1> USE DEF Pins
<1>1. ASSUME NEW result, Answered(r, result) PROVE Moves(r)
  BY <1>1, AnsweredEffect
<1>2. ASSUME NEW pc, Goto(r, pc) PROVE Moves(r)
  BY <1>2, GotoEffect
<1>3. CASE Take(r)
  <2> DEFINE pc == IF req[r].ask.schema # None THEN "read" ELSE "run"
  <2>1. \E c : req' = [req EXCEPT ![r].pc = pc, ![r].on = c]
    BY <1>3 DEF Take
  <2> HIDE DEF pc
  <2> QED BY <2>1, EnterEffect
<1>4. CASE Begin(r) /\ ~\E result : Answered(r, result)
  <2>1. \E b : req' = [req EXCEPT ![r].pc = "clear", ![r].on = b]
    BY <1>4 DEF Begin
  <2> QED BY <2>1, EnterEffect
<1>5. CASE ReadPath(r) /\ ~\E result : Answered(r, result)
  <2>1. \E read : req' = [req EXCEPT ![r].pc = "set", ![r].read = read]
    BY <1>5 DEF ReadPath
  <2> QED BY <2>1, ReadEffect
<1>6. CASE Fails(r)
  BY <1>6, ResultEffect DEF Fails
<1>7. CASE Fetch(r)
  <2>1. \E result : req' = [req EXCEPT ![r].pc = "trail", ![r].result = result]
    BY <1>7 DEF Fetch
  <2> QED BY <2>1, ResultEffect
<1>8. CASE SetPath(r) \/ Run(r)
  BY <1>1, <1>2, <1>8 DEF SetPath, Run
<1>9. CASE Connect(r) \/ Trail(r)
  BY <1>2, <1>9 DEF Connect, Trail
<1>10. CASE (Clear(r) \/ SetLocal(r) \/ Prepare(r)) /\ ~Fails(r)
  BY <1>2, <1>10 DEF Clear, SetLocal, Prepare
<1>11. CASE End(r) \/ TimedOut(r)
  BY <1>1, <1>11 DEF End, TimedOut
<1> QED BY <1>1, <1>3, <1>4, <1>5, <1>6, <1>7, <1>8, <1>9, <1>10, <1>11 DEF Acts

\* It asks what its host may ask of it, and nothing else changes what is asked.
LEMMA AskedKept == Pins /\ Asked /\ [Next]_vars => Asked'
<1> SUFFICES ASSUME Pins, Asked, [Next]_vars PROVE Asked'
  OBVIOUS
<1>1. ASSUME NEW r \in Request, Acts(r), ~Ask(r) PROVE Asked'
  BY <1>1, AskStays DEF Moves, Asked
<1>2. ASSUME NEW r \in Request, Ask(r) PROVE Asked'
  <2>1. PICK ask \in Host[host][r].asks :
          req' = [req EXCEPT ![r] = [pc |-> IF pooler /\ ReturnsResultSet(ask.text) THEN "connect" ELSE "take",
                                    ask |-> ask, on |-> None, read |-> {}, result |-> NoResult]]
    BY <1>2 DEF Ask
  <2>2. AskOK(ask)
    BY ConstantsOK DEF ConstantsOK, Pins, Types, AskOK, Text
  <2>3. req'[r].ask = ask /\ \A q \in Request \ {r} : req'[q] = req[q]
    BY <2>1 DEF Pins, Types
  <2> QED BY <2>2, <2>3 DEF Asked
<1>3. CASE LeaveStale \/ UNCHANGED vars
  BY <1>3 DEF LeaveStale, vars, Asked
<1> QED BY <1>1, <1>2, <1>3 DEF Next, Acts

\* The data fetch of a pinned request has a result.
Fetched(r, result) == req' = [req EXCEPT ![r].pc = "trail", ![r].result = result]

\* What it does to the request.
LEMMA FetchedEffect ==
  ASSUME Types, NEW r \in Request, NEW result, Fetched(r, result)
  PROVE  /\ Moves(r) /\ req'[r].pc = "trail"
         /\ req'[r].result = result /\ req'[r].on = req[r].on /\ req'[r].read = req[r].read
BY ResultEffect DEF Fetched

\* The step that executes a statement answers it, on a backend, or fails.
LEMMA ExecutesAnswers ==
  ASSUME Pins, [Next]_vars, NEW r \in Request, Executes(r), req'[r].result.error # "failed"
  PROVE  \E path \in Path : req'[r].result = Answer(req[r].ask, path)
<1> USE DEF Pins
<1>1. req[r].pc \in {"run", "fetch"} /\ req'[r] # req[r] /\ req[r].on \in Backend
  BY DEF Executes, Types, Lent, Holding
<1>2. Error("failed").error = "failed"
  BY DEF Error, NoResult
<1>3. PICK q \in Request : Acts(q)
  BY <1>1 DEF Next, LeaveStale, vars, Acts
<1>4. q = r
  <2>1. ~Ask(q) => Moves(q)
    BY <1>3, AskStays
  <2>2. Ask(q) => \A p \in Request \ {q} : req'[p] = req[p]
    BY DEF Ask, Types
  <2> QED BY <1>1, <2>1, <2>2 DEF Moves
<1>5. Run(r) \/ Fetch(r) \/ TimedOut(r)
  BY <1>1, <1>3, <1>4 DEF Acts, Ask, Take, ReadPath, SetPath, Connect, Begin, Clear, SetLocal, Prepare, Trail, End, At
<1>6. \A b \in Backend : Effective(b) \in Path
  BY DEF Types, BackendState, Effective
<1>7. CASE Run(r)
  <2>1. PICK b \in On(r) : \E result \in {Answer(req[r].ask, Effective(b)), Error("failed")} : Answered(r, result)
    BY <1>7 DEF Run
  <2>2. b \in Backend
    BY <1>1 DEF On, Free
  <2>3. req'[r].result \in {Answer(req[r].ask, Effective(b)), Error("failed")}
    BY <2>1, AnsweredEffect
  <2> QED BY <1>2, <1>6, <2>2, <2>3
<1>8. CASE Fetch(r)
  <2>1. PICK result : /\ result \in {Answer(req[r].ask, Effective(req[r].on)), Error("failed")}
                      /\ Fetched(r, result)
    BY <1>8 DEF Fetch, Fetched
  <2>2. req'[r].result = result
    BY <2>1, FetchedEffect
  <2> QED BY <1>1, <1>2, <1>6, <2>1, <2>2
<1>9. CASE TimedOut(r)
  BY <1>2, <1>9, AnsweredEffect DEF TimedOut
<1> QED BY <1>5, <1>7, <1>8, <1>9

\* For every text that ends as pages expect, every page and limit that fit into 32
\* bits, whoever asks and on whichever backend it runs: a page holds its share of the
\* rows that the user's own statement selects, in a statement that the server accepts,
\* and says truthfully whether rows follow it.
THEOREM PagesHoldTheirShare == Spec => PageRight
<1>1. Pins /\ Asked /\ [Next]_vars =>
        [\A r \in Request :
           LET ask == req[r].ask
               result == req'[r].result
           IN  Executes(r) /\ Plain(ask) /\ result.error # "failed" /\ result.schema # None =>
                 /\ result.error = None
                 /\ \E all \in Selected(ask.text, Rows[result.schema]), size \in ask.limit :
                   LET after == Smaller(all.after + (ask.page - 1) * size, all.upto)
                       upto == Smaller(after + size, all.upto)
                   IN  /\ result.upto - result.after = upto - after
                       /\ upto > after => result.after = after
                       /\ result.truncated = (upto < all.upto)]_vars
  <2> SUFFICES ASSUME Pins, Asked, [Next]_vars, NEW r \in Request,
                      Executes(r), Plain(req[r].ask),
                      req'[r].result.error # "failed", req'[r].result.schema # None
               PROVE  /\ req'[r].result.error = None
                      /\ \E all \in Selected(req[r].ask.text, Rows[req'[r].result.schema]),
                            size \in req[r].ask.limit :
                           IsShare(req'[r].result, all, Shown(req[r].ask, size), size)
    BY DEF IsShare, Shown
  <2>1. PICK path \in Path : req'[r].result = Answer(req[r].ask, path)
    BY ExecutesAnswers
  <2>2. AskOK(req[r].ask) /\ path \in Seq(STRING)
    BY DEF Asked, Path
  <2> QED BY <2>1, <2>2, AnswerIsShare
<1> QED BY <1>1, Initially, AskedFirst, PinsInductive, AskedKept, PTL DEF Spec, PageRight

-----------------------------------------------------------------------------
(* What a text is taken for. *)

\* A statement that may have rows is taken for one, where it can be told by its first word.
LEMMA ResultSetRight ==
  ASSUME NEW text \in Text, One(text), Told(text)
  PROVE  ReturnsResultSet(text) <=> MayReturnRows(Outside(text).words)
<1> DEFINE words == Outside(text).words
<1>1. /\ ~NestedComment(text) /\ "RETURNING" \notin Range(words)
      /\ Word(words, 1) \notin {"(", "FETCH", "EXECUTE", "DESCRIBE", "PRAGMA"}
  BY DEF Told
<1>2. \/ words = <<>> /\ FirstToken(text) \in {NoWord, Semicolon}
      \/ Len(words) \in Nat /\ 1 <= Len(words) /\ words[1] = FirstToken(text)
  BY <1>1, FirstIs
<1> HIDE DEF words
<1>3. CASE words = <<>> /\ FirstToken(text) \in {NoWord, Semicolon}
  <2>1. Len(words) = 0
    BY <1>3, EmptySeq
  <2>2. Word(words, 1) = NoWord /\ ~InBrackets(words)
    BY <2>1 DEF Word, InBrackets
  <2>3. ~MayReturnRows(words)
    BY <1>1, <2>2 DEF MayReturnRows, NoWord
  <2>4. ~ReturnsResultSet(text)
    BY <1>3, Zenon DEF ReturnsResultSet, PaginatedVerbs, NoWord, Semicolon
  <2>5. QED
    BY <2>3, <2>4 DEF words
<1>4. CASE Len(words) \in Nat /\ 1 <= Len(words) /\ words[1] = FirstToken(text)
  <2>1. Word(words, 1) = FirstToken(text)
    BY <1>4 DEF Word
  <2>2. ~InBrackets(words)
    <3>1. ASSUME InBrackets(words) PROVE FALSE
      <4>1. PICK k \in 2 .. Len(words) : \A j \in 1 .. k - 1 : words[j] = "("
        BY <3>1 DEF InBrackets
      <4>2. 1 \in 1 .. k - 1
        BY <1>4
      <4>3. Word(words, 1) = "("
        BY <1>4, <4>1, <4>2 DEF Word
      <4>4. QED
        BY <1>1, <4>3
    <3>2. QED
      BY <3>1
  <2>3. MayReturnRows(words) <=>
          Word(words, 1) \in {"SELECT", "VALUES", "TABLE", "WITH", "SHOW", "EXPLAIN", "CALL", "FETCH", "EXECUTE"}
    BY <1>1, <2>2 DEF MayReturnRows
  <2>4. ReturnsResultSet(text) <=>
          Word(words, 1) \in {"SELECT", "WITH", "VALUES", "TABLE", "EXPLAIN", "SHOW", "DESCRIBE", "PRAGMA", "CALL"}
    BY <2>1 DEF ReturnsResultSet, PaginatedVerbs
  <2>5. QED
    BY <1>1, <2>3, <2>4 DEF words
<1>5. QED
  BY <1>2, <1>3, <1>4

\* What the plugin takes a text for.
TakenRight(text) ==
  LET words == Outside(text).words
  IN  One(text) =>
        /\ Accepted(words) => EffectOf(text) = Effect(words) /\ SetsSessionLocalState(text) = LocalState(words)
        /\ Told(text) => ReturnsResultSet(text) = MayReturnRows(words)

\* Every text is taken for what it is.
LEMMA ReadRight ==
  ASSUME NEW text \in Text
  PROVE  TakenRight(text)
<1> DEFINE words == Outside(text).words
<1>1. ASSUME One(text), Accepted(words)
      PROVE  EffectOf(text) = Effect(words) /\ SetsSessionLocalState(text) = LocalState(words)
  <2>1. PICK c \in Text : /\ Follows(c, Outside(text).words)
                          /\ \A n : LeadingKeywords(text, n) = Keys(c, n)
    BY <1>1, KeywordsAre
  <2>2. words \in Text
    <3>1. Outside(Prefix(text, Len(text))) = Outside(text) /\ Len(text) \in 0 .. Len(text)
      BY WholePrefix
    <3>2. QED
      BY <3>1, OutsideType DEF LexState
  <2>3. EffectOf(text) = Taken(c) /\ SetsSessionLocalState(text) = Local(c)
    BY <2>1, EffectOfIs, LocalIs
  <2>4. Follows(c, words)
    BY <2>1
  <2> HIDE DEF words
  <2>5. Taken(c) = Effect(words)
    BY <1>1, <2>2, <2>4, EffectRight
  <2>6. Local(c) <=> Local(words)
    BY <1>1, <2>2, <2>4, LocalRight
  <2>7. LocalState(words) <=> Local(words)
    BY LocalStateIs
  <2>8. SetsSessionLocalState(text) \in BOOLEAN /\ LocalState(words) \in BOOLEAN /\ Local(c) \in BOOLEAN
    BY DEF SetsSessionLocalState, LocalState, Local
  <2>9. SetsSessionLocalState(text) = LocalState(words)
    BY <2>3, <2>6, <2>7, <2>8
  <2>10. QED
    BY <2>3, <2>5, <2>9
<1>2. ASSUME One(text), Told(text) PROVE ReturnsResultSet(text) = MayReturnRows(words)
  <2>1. ReturnsResultSet(text) <=> MayReturnRows(words)
    BY <1>2, ResultSetRight
  <2>2. ReturnsResultSet(text) \in BOOLEAN /\ MayReturnRows(words) \in BOOLEAN
    BY DEF ReturnsResultSet, MayReturnRows
  <2> HIDE DEF words
  <2>3. QED
    BY <2>1, <2>2
<1>3. QED
  BY <1>1, <1>2 DEF TakenRight

\* For every text, whoever asks for it: what its leading keywords are taken for is what
\* PostgreSQL makes of its words, whatever comments, literals, noise words and tokens
\* of their own it has.
THEOREM StatementsAreReadRight == Spec => []ScansRight
<1>1. Asked => ScansRight
  <2>1. ASSUME Asked, NEW r \in Request PROVE TakenRight(req[r].ask.text)
    <3>1. req[r].ask.text \in Text
      BY <2>1 DEF Asked, AskOK
    <3>2. QED
      BY <3>1, ReadRight
  <2>2. QED
    BY <2>1 DEF ScansRight, TakenRight
<1>2. QED
  BY <1>1, Initially, AskedFirst, PinsInductive, AskedKept, PTL DEF Spec

=============================================================================
