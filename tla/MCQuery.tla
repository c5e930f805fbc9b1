------------------------------ MODULE MCQuery ------------------------------
(* Query with statements of every form, 32 bits cut to three, and two requests. *)
EXTENDS Query, TLC

\* The number 9 has more than MCU32's bits.
MCNumber == [n \in {"0", "1", "2", "9"} |-> CASE n = "0" -> 0 [] n = "1" -> 1 [] n = "2" -> 2 [] n = "9" -> 9]
MCU32 == 8

\* Statements with what they do to a transaction, and whether they leave session state.
Controls ==
  {<<"Opens", <<"BEGIN">>>>, <<"Opens", <<"START", "TRANSACTION">>>>,
   <<"Closes", <<"COMMIT">>>>, <<"Closes", <<"END", "WORK">>>>, <<"Closes", <<"ABORT", ";">>>>,
   <<"Closes", <<"ROLLBACK", "TRANSACTION", "AND", "NO", "CHAIN">>>>,
   <<"Chains", <<"COMMIT", "AND", "CHAIN">>>>, <<"Chains", <<"ROLLBACK", "WORK", "AND", "CHAIN">>>>,
   <<"None", <<"ROLLBACK", "TO", "S">>>>, <<"None", <<"ROLLBACK", "WORK", "TO", "SAVEPOINT", "S">>>>,
   <<"None", <<"COMMIT", "PREPARED", "'">>>>, <<"Closes", <<"PREPARE", "TRANSACTION", "'">>>>,
   <<"None", <<"INSERT", "'", "COMMIT">>>>, <<"None", <<"DO", "$", "BEGIN", "END", "$">>>>}
States ==
  {<<TRUE, <<"SET", "SEARCH_PATH">>>>, <<FALSE, <<"SET", "LOCAL", "ROLE">>>>, <<FALSE, <<"SET", "TRANSACTION">>>>,
   <<TRUE, <<"CREATE", "TEMP", "TABLE", "T">>>>, <<TRUE, <<"CREATE", "LOCAL", "TEMPORARY", "TABLE", "T">>>>,
   <<FALSE, <<"CREATE", "TABLE", "T">>>>, <<FALSE, <<"CREATE", "'", "TEMP", "TABLE">>>>}
ASSUME GrammarOK ==
  /\ \A x \in Controls : LET words == Outside(x[2]).words IN Accepted(words) /\ Effect(words) = x[1]
  /\ \A x \in States : LET words == Outside(x[2]).words IN Accepted(words) /\ LocalState(words) = x[1]

Heads == {<<>>, <<"--", "COMMIT", "newline">>, <<"/*", "COMMIT", "*/">>, <<"/*", "/*", "*/", "COMMIT", "*/">>}
Tails == {<<>>, <<";">>, <<"--", "CHAIN">>}
Pieces == {"COMMIT", "AND", "CHAIN", "SET", "/*", "*/", "(", "'", ";", "SELECT", "FETCH"}

\* Statements whose forms matter, asked for without a page.
Scanned ==
  {h \o s \o t : h \in Heads, s \in {x[2] : x \in Controls} \cup {x[2] : x \in States}, t \in Tails}
    \cup {h \o <<v, "T">> : h \in Heads, v \in {"SELECT", "SHOW", "WITH"}}
    \cup UNION {[1 .. n -> Pieces] : n \in 0 .. 3}
    \cup {<<"INSERT", "RETURNING", "T">>}

\* Statements whose pages matter.
Selects ==
  {<<"SELECT", "T">> \o l \o o \o end :
     l \in {<<>>, <<"LIMIT", "1">>, <<"LIMIT", "2">>, <<"LIMIT", "9">>},
     o \in {<<>>, <<"OFFSET", "1">>, <<"OFFSET", "9">>}, end \in {<<>>, <<";">>, <<"--", "LIMIT", "1">>}}
    \cup {<<"SELECT", "T", "OFFSET", "1", "LIMIT", "2">>, <<"SELECT", "T", "FETCH", "2">>,
          <<"SHOW", "T">>, <<"SELECT", "'", "LIMIT", "1", "'", "LIMIT", "2">>,
          <<"SELECT", "/*", "LIMIT", "*/", "T", "newline", "LIMIT", "2", "newline", "OFFSET", "1", ";", "newline">>,
          <<"SELECT", "--", "LIMIT", "1", "newline", "T", "newline", "OFFSET", "1", ";", ";">>,
          <<"SELECT", "--", "LIMIT", "newline", "1", "LIMIT", "2">>,
          <<"SELECT", "T", "--", "newline", "LIMIT", "2">>, <<"SELECT", "T", ";", "newline", ";">>}

Ask1(texts, limits, pages, schemas) == [text : texts, limit : limits, page : pages, schema : schemas]
Silent == [asks |-> {}, times |-> 0]
Paging ==
  Ask1(Scanned, {{}}, {1}, {None})
    \cup Ask1(Selects, {{}, {0}, {1}, {2}, {7}, {9}}, {0, 1, 2, 3, 5, 9}, {"s1"})
Sharing ==
  Ask1({<<"SELECT", "T">>}, {{}}, {1}, {"s1", "s2", None})
    \cup Ask1({<<"INSERT", "T">>}, {{}}, {1}, {"s1"})
MCHost ==
  [paging  |-> [r \in {"r1", "r2"} |-> IF r = "r1" THEN [asks |-> Paging, times |-> 1] ELSE Silent],
   sharing |-> [r \in {"r1", "r2"} |-> [asks |-> Sharing, times |-> IF r = "r1" THEN 2 ELSE 1]]]
MCRows == [s \in {"public", "s1", "s2"} |-> CASE s = "public" -> 2 [] s = "s1" -> 4 [] s = "s2" -> 1]
MCBase == <<"public">>
MCSymmetry == Permutations(Backend)
=============================================================================
