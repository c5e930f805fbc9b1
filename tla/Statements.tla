----------------------------- MODULE Statements -----------------------------
(***************************************************************************)
(* What the plugin reads in the text of a statement (handlers/query.rs,    *)
(* utils/pagination.rs): its leading keywords and what follows from them,  *)
(* and the LIMIT and OFFSET a user wrote at its end, which a page's own    *)
(* clause replaces.                                                        *)
(*                                                                         *)
(* A text is a sequence of tokens: upper-case words, "(", numbers, and the *)
(* marks that decide how the rest is read: "--" and the end of its line,   *)
(* the brackets of a block comment, quotes, ";".  What PostgreSQL makes of *)
(* the same tokens is at the end.                                          *)
(***************************************************************************)
EXTENDS Integers, Sequences, FiniteSets, SequencesExt

CONSTANTS
  Number,  \* the numeric tokens, with their values
  U32      \* 2^32

EndOfLine == "newline"
Semicolon == ";"
Quotes == {"'", "QUOTED", "$"}
Ignored == {EndOfLine, Semicolon}
Marks == Ignored \cup {"/*", "*/", "--", "'", "$", "("}

ASSUME NumbersOK ==
  /\ Number \in [DOMAIN Number -> Nat] /\ DOMAIN Number \subseteq STRING
  /\ DOMAIN Number \cap (Marks \cup {"LIMIT", "OFFSET", "FETCH"}) = {}
  /\ U32 \in Nat \ {0}

Least(S) == CHOOSE k \in S : \A j \in S : k <= j

-----------------------------------------------------------------------------
(* Keywords. *)

\* Mutant of Read: the first "*/" ends a comment, whatever was opened in it.
ReadFlat(s, c) ==
  IF s.depth # 0 THEN [s EXCEPT !.depth = IF c = "*/" THEN 0 ELSE @]
  ELSE IF s.line THEN [s EXCEPT !.line = c # EndOfLine]
  ELSE IF s.over \/ c \in {EndOfLine, "*/", "("} THEN s
  ELSE IF c = "/*" THEN [s EXCEPT !.depth = 1]
  ELSE IF c = "--" THEN [s EXCEPT !.line = TRUE]
  ELSE IF c \in Quotes \cup {Semicolon} THEN [s EXCEPT !.over = TRUE]
  ELSE [s EXCEPT !.words = Append(@, c)]

\* One token in leading_keywords: comments are skipped, block comments nest, and a
\* quote or ";" is the end.
Read(s, c) ==
  IF s.depth # 0 THEN [s EXCEPT !.depth = IF c = "*/" THEN @ - 1 ELSE IF c = "/*" THEN @ + 1 ELSE @]
  ELSE IF s.line THEN [s EXCEPT !.line = c # EndOfLine]
  ELSE IF s.over \/ c \in {EndOfLine, "*/", "("} THEN s
  ELSE IF c = "/*" THEN [s EXCEPT !.depth = 1]
  ELSE IF c = "--" THEN [s EXCEPT !.line = TRUE]
  ELSE IF c \in Quotes \cup {Semicolon} THEN [s EXCEPT !.over = TRUE]
  ELSE [s EXCEPT !.words = Append(@, c)]

Unread == [depth |-> 0, line |-> FALSE, over |-> FALSE, words |-> <<>>]

\* leading_keywords.
LeadingKeywords(text, n) ==
  LET upto[k \in 0 .. Len(text)] == IF k = 0 THEN Unread ELSE Read(upto[k - 1], text[k])
      words == upto[Len(text)].words
  IN  SubSeq(words, 1, IF Len(words) < n THEN Len(words) ELSE n)

\* The word at a place, or what is no word of any statement.
NoWord == "nothing"
Word(words, k) == IF k <= Len(words) THEN words[k] ELSE NoWord

EndVerbs == {"COMMIT", "END", "ROLLBACK", "ABORT"}

\* transaction_effect.
EffectOf(text) ==
  LET words == LeadingKeywords(text, 6)
      verb == Word(words, 1)
      noise == verb \in EndVerbs /\ Word(words, 2) \in {"WORK", "TRANSACTION"}
      rest == SubSeq(words, IF noise THEN 3 ELSE 2, Len(words))
      second == Word(rest, 1)
      chains == \E k \in 1 .. Len(rest) - 1 : rest[k] = "AND" /\ rest[k + 1] = "CHAIN"
  IN  IF verb = "BEGIN" \/ (verb = "START" /\ second = "TRANSACTION") THEN "Opens"
      ELSE IF verb \in {"COMMIT", "ROLLBACK"} /\ second = "PREPARED" THEN "None"
      ELSE IF verb = "ROLLBACK" /\ second = "TO" THEN "None"
      ELSE IF verb \in EndVerbs THEN IF chains THEN "Chains" ELSE "Closes"
      ELSE IF verb = "PREPARE" /\ second = "TRANSACTION" THEN "Closes"
      ELSE "None"

\* sets_session_local_state.
SetsSessionLocalState(text) ==
  LET words == LeadingKeywords(text, 4)
      temp(k) == Word(words, k) \in {"TEMP", "TEMPORARY"} /\ Word(words, k + 1) = "TABLE"
  IN  \/ Word(words, 1) = "SET" /\ Word(words, 2) \notin {"LOCAL", "TRANSACTION", "CONSTRAINTS"}
      \/ Word(words, 1) = "CREATE" /\ (temp(2) \/ (Word(words, 2) \in {"GLOBAL", "LOCAL"} /\ temp(3)))

\* strip_leading_sql_comments: where the statement starts.  A block comment ends with
\* the first "*/".
Start(text) ==
  LET end == Len(text) + 1
      after(mark, k) == LET at == {j \in k .. Len(text) : text[j] = mark}
                        IN  IF at = {} THEN end ELSE Least(at) + 1
      start[k \in 1 .. end] ==
        IF k = end THEN end
        ELSE IF text[k] = EndOfLine THEN start[k + 1]
        ELSE IF text[k] = "--" THEN start[after(EndOfLine, k)]
        ELSE IF text[k] = "/*" THEN start[after("*/", k)]
        ELSE k
  IN  start[1]

FirstToken(text) == Word(text, Start(text))

PaginatedVerbs == {"SELECT", "WITH", "VALUES", "TABLE", "EXPLAIN"}

\* returns_result_set, supports_trailing_limit_clause.
ReturnsResultSet(text) == FirstToken(text) \in PaginatedVerbs \cup {"SHOW", "DESCRIBE", "PRAGMA", "CALL"}
SupportsTrailingLimitClause(text) == FirstToken(text) \in PaginatedVerbs

-----------------------------------------------------------------------------
(* LIMIT and OFFSET.  The scan goes by what lies between white space, so that the end   *)
(* of a line is nothing to it.                                                         *)

\* Without the marks at its end.
Without(text, marks) ==
  LET kept == {k \in 1 .. Len(text) : text[k] \notin marks}
  IN  IF kept = {} THEN <<>> ELSE SubSeq(text, 1, CHOOSE k \in kept : \A j \in kept : j <= k)
TrimEnd(text) == Without(text, {EndOfLine})

\* Without the semicolons at the end.
Trimmed(text) == TrimEnd(Without(TrimEnd(text), {Semicolon}))

\* Whether a clause ends a text: its word, and a number of 64 bits.
Ends(text, word) ==
  LET head == TrimEnd(Front(text))
  IN  Len(text) > 0 /\ Last(text) \in DOMAIN Number /\ Len(head) > 0 /\ Last(head) = word
Before(text) == TrimEnd(Front(TrimEnd(Front(text))))
WithoutOffset(text) == IF Ends(text, "OFFSET") THEN Before(text) ELSE text

\* strip_limit_offset.
StripLimitOffset(text) ==
  LET base == WithoutOffset(Trimmed(text)) IN IF Ends(base, "LIMIT") THEN Before(base) ELSE base

\* The number after a word, if it has 32 bits.
Extracted(text, word) ==
  IF Ends(text, word) /\ Number[text[Len(text)]] < U32 THEN {Number[text[Len(text)]]} ELSE {}

\* extract_user_limit, extract_user_offset.
ExtractUserLimit(text) == Extracted(WithoutOffset(Trimmed(text)), "LIMIT")
ExtractUserOffset(text) == Extracted(Trimmed(text), "OFFSET")

Monus(a, b) == IF a > b THEN a - b ELSE 0
Smaller(a, b) == IF a < b THEN a ELSE b

\* limit_offset, in the release build's 32 bits.
PageOffset(page, size) == (Monus(page, 1) * size) % U32

\* Mutant of Paginated: a user's LIMIT is taken for every page anew.
LimitsEachPage(text, size, page) ==
  LET wanted == {(size + 1) % U32} \cup ExtractUserLimit(text)
      offsets == ExtractUserOffset(text)
      from == IF offsets = {} THEN 0 ELSE CHOOSE n \in offsets : TRUE
  IN  [text |-> StripLimitOffset(text), limit |-> Least(wanted),
       offset |-> Smaller(from + PageOffset(page, size), U32 - 1)]

\* build_paginated_query: [text, limit, offset].
Paginated(text, size, page) ==
  LET shown == PageOffset(page, size)
      wanted == {(size + 1) % U32} \cup {Monus(n, shown) : n \in ExtractUserLimit(text)}
      offsets == ExtractUserOffset(text)
      from == IF offsets = {} THEN 0 ELSE CHOOSE n \in offsets : TRUE
  IN  [text |-> StripLimitOffset(text), limit |-> Least(wanted),
       offset |-> Smaller(from + shown, U32 - 1)]

-----------------------------------------------------------------------------
(* PostgreSQL's reading of a text: what is outside comments.  A literal is a word, of   *)
(* which only the kind is told.                                                        *)

\* One token: block comments nest, and a literal ends with the mark it began with.
Lex(s, c) ==
  IF s.depth # 0 THEN [s EXCEPT !.depth = IF c = "/*" THEN @ + 1 ELSE IF c = "*/" THEN @ - 1 ELSE @]
  ELSE IF s.line THEN [s EXCEPT !.line = c # EndOfLine]
  ELSE IF s.quote # {} THEN [s EXCEPT !.quote = @ \ {c}]
  ELSE IF c = "/*" THEN [s EXCEPT !.depth = 1]
  ELSE IF c = "--" THEN [s EXCEPT !.line = TRUE]
  ELSE IF c \in {"'", "$"} THEN [s EXCEPT !.quote = {c}, !.words = Append(@, c)]
  ELSE IF c \in Ignored THEN s
  ELSE [s EXCEPT !.words = Append(@, c)]

Unlexed == [depth |-> 0, line |-> FALSE, quote |-> {}, words |-> <<>>]
Outer(s) == s.depth = 0 /\ ~s.line /\ s.quote = {}

Outside(text) ==
  LET upto[n \in 0 .. Len(text)] == IF n = 0 THEN Unlexed ELSE Lex(upto[n - 1], text[n])
  IN  upto[Len(text)]

\* A text of one statement: what follows its semicolon is a comment, or another one.
One(text) ==
  \A k \in 1 .. Len(text) :
    LET before == Outside(SubSeq(text, 1, k - 1))
    IN  text[k] = Semicolon /\ Outer(before) => Outside(text).words = before.words

\* A comment in a comment, before any word.
NestedComment(text) ==
  \E k \in 1 .. Len(text) :
    LET before == Outside(SubSeq(text, 1, k - 1)) IN text[k] = "/*" /\ before.depth > 0 /\ before.words = <<>>

\* Whether what follows a text is read.
InComment(text) == Outside(text).line
Closed(text) == Outside(text).depth = 0 /\ Outside(text).quote = {}

\* Where a word stands among the words, and the numbers after it.
Places(words, word) == {k \in 1 .. Len(words) : words[k] = word}
Numbers(words, word) ==
  {Number[words[k + 1]] : k \in {j \in 1 .. Len(words) - 1 : words[j] = word /\ words[j + 1] \in DOMAIN Number}}
Clauses(text, word) == Places(Outside(text).words, word)
Values(text, word) == Numbers(Outside(text).words, word)
Repeated(S) == \E j \in S, k \in S : j # k

\* The rows a statement selects of n rows, as an interval [after, upto]; {} is an error.
Selected(text, n) ==
  LET offset == IF Values(text, "OFFSET") = {} THEN 0 ELSE Least(Values(text, "OFFSET"))
      counts == Values(text, "LIMIT") \cup Values(text, "FETCH") \cup {n}
  IN  IF \/ Repeated(Clauses(text, "LIMIT") \cup Clauses(text, "FETCH"))
         \/ Repeated(Clauses(text, "OFFSET"))
         \/ ~Closed(text)
      THEN {}
      ELSE {[after |-> Smaller(offset, n), upto |-> Smaller(offset + Least(counts), n)]}

\* The rows a page's statement selects.
SelectedPage(page, n) ==
  IF InComment(page.text) THEN Selected(page.text, n)
  ELSE IF \/ ~Closed(page.text)
          \/ \E word \in {"LIMIT", "OFFSET", "FETCH"} : Clauses(page.text, word) # {} THEN {}
  ELSE {[after |-> Smaller(page.offset, n), upto |-> Smaller(page.offset + page.limit, n)]}

-----------------------------------------------------------------------------
(* PostgreSQL's reading of a statement's words: what its grammar lets a statement of     *)
(* transaction control, a SET or a temporary table be, and which statements have rows.   *)

Noise == {<<>>, <<"WORK">>, <<"TRANSACTION">>}
Literals == {"'", "$"}
Punctuation == {"(", "*/"}

\* The whole of a statement that ends a transaction, with what it does then.
EndOf(words, tail) ==
  \E verb \in {"ABORT", "COMMIT", "END", "ROLLBACK"}, noise \in Noise : words = <<verb>> \o noise \o tail
PlainEnd(words) == EndOf(words, <<>>) \/ EndOf(words, <<"AND", "NO", "CHAIN">>)
ChainedEnd(words) == EndOf(words, <<"AND", "CHAIN">>)
ToSavepoint(words) ==
  \E noise \in Noise, to \in {<<"TO">>, <<"TO", "SAVEPOINT">>}, name \in Range(words) :
    words = <<"ROLLBACK">> \o noise \o to \o <<name>>
EndOfPrepared(words) == \E verb \in {"COMMIT", "ROLLBACK"}, id \in Literals : words = <<verb, "PREPARED", id>>
Prepared(words) == \E id \in Literals : words = <<"PREPARE", "TRANSACTION", id>>

Effect(words) ==
  IF Word(words, 1) = "BEGIN" \/ (Word(words, 1) = "START" /\ Word(words, 2) = "TRANSACTION") THEN "Opens"
  ELSE IF PlainEnd(words) \/ Prepared(words) THEN "Closes"
  ELSE IF ChainedEnd(words) THEN "Chains"
  ELSE "None"

\* SET for the session, and temporary tables.
BeginsWith(words, some) == \A k \in 1 .. Len(some) : Word(words, k) = some[k]
LocalState(words) ==
  \/ Word(words, 1) = "SET" /\ Word(words, 2) \notin {"LOCAL", "TRANSACTION", "CONSTRAINTS"}
  \/ \E scope \in {<<>>, <<"GLOBAL">>, <<"LOCAL">>}, temp \in {"TEMP", "TEMPORARY"} :
       BeginsWith(words, <<"CREATE">> \o scope \o <<temp, "TABLE">>)

\* A query in brackets.
InBrackets(words) ==
  \E k \in 2 .. Len(words) : /\ \A j \in 1 .. k - 1 : words[j] = "("
                            /\ words[k] \in {"SELECT", "VALUES", "TABLE", "WITH"}

MayReturnRows(words) ==
  \/ Word(words, 1) \in {"SELECT", "VALUES", "TABLE", "WITH", "SHOW", "EXPLAIN", "CALL", "FETCH", "EXECUTE"}
  \/ InBrackets(words)
  \/ "RETURNING" \in Range(words)

\* What the grammar asks of every statement: only a query begins with a bracket, none
\* with an operator; an end of a transaction is one in full; and no bracket or operator
\* comes among the words that lead to a name or to a kind of object.
Leading == {"START", "PREPARE", "SET", "CREATE", "GLOBAL", "LOCAL", "TEMP", "TEMPORARY"}
Accepted(words) ==
  /\ Word(words, 1) # "*/"
  /\ Word(words, 1) = "(" => InBrackets(words)
  /\ Word(words, 1) \in {"ABORT", "COMMIT", "END", "ROLLBACK"} =>
       PlainEnd(words) \/ ChainedEnd(words) \/ ToSavepoint(words) \/ EndOfPrepared(words)
  /\ BeginsWith(words, <<"PREPARE", "TRANSACTION">>) => Prepared(words)
  /\ \A k \in 2 .. Len(words) : (\A j \in 1 .. k - 1 : words[j] \in Leading) => words[k] \notin Punctuation
=============================================================================
