------------------------------- MODULE Query -------------------------------
(***************************************************************************)
(* execute_query without a session (handlers/query.rs): a statement, a     *)
(* page of it and a schema, on a client of the pool, or, behind a          *)
(* transaction pooler and if the statement returns rows, on a one-shot     *)
(* client in a transaction that pins one of the pooler's backends.         *)
(*                                                                         *)
(* Connected directly, a client and its backend are one.  Behind a pooler, *)
(* each statement outside a transaction runs on whichever backend is free. *)
(* The backends keep what the plugin leaves on them: the search_path, the  *)
(* snapshot of it that the post_create hook takes, prepared statements.    *)
(* The prepare before the query and its timeout on a pooled client are in  *)
(* Cancel, sessions in Sessions.                                           *)
(***************************************************************************)
EXTENDS Statements

CONSTANTS
  Request,     \* the host's requests
  Host,        \* the hosts by name: per request what it may ask, [text, limit, page,
               \* schema], and a bound on how often, [asks, times]
  Backend,     \* the server's connections
  Rows,        \* per schema that has the table, how many rows it has there
  Base,        \* the search_path a connection starts with
  MaxStale     \* bound: prepared statements other processes leave behind

None == "none"

ASSUME ConstantsOK ==
  /\ None \notin Request
  /\ Base \in Seq(STRING)
  /\ Rows \in [DOMAIN Rows -> Nat]
  /\ \A h \in DOMAIN Host : \A r \in Request : \A ask \in Host[h][r].asks :
       /\ ask.text \in Seq(STRING)
       /\ ask.limit \subseteq Nat /\ \A m, n \in ask.limit : m = n
       /\ ask.page \in Nat
       /\ ask.schema \in STRING \cup {None}

VARIABLES
  host,      \* the one that asks
  pooler,    \* whether the connection is declared a transaction pooler
  client,    \* the pool's clients: "none", "free" or "busy"
  backend,   \* [path, local, base, txn, held, stale]
  req,       \* [pc, ask, on, read, result]
  asked, staled

vars == <<host, pooler, client, backend, req, asked, staled>>

NoAsk == [text |-> <<>>, limit |-> {}, page |-> 1, schema |-> None]
NoResult == [error |-> None, schema |-> None, after |-> 0, upto |-> 0, truncated |-> FALSE]
Error(what) == [NoResult EXCEPT !.error = what]

Fresh == [path |-> Base, local |-> {}, base |-> {}, txn |-> "idle", held |-> None, stale |-> FALSE]
Free == {b \in Backend : backend[b].held = None}

\* The backends a statement of a request outside a transaction can run on.
On(r) == IF pooler THEN Free ELSE {req[r].on}

\* The search_path in effect, and the base apply_search_path starts from: the
\* snapshot, or the live path where there is none.
Effective(b) == IF backend[b].local # {} THEN CHOOSE p \in backend[b].local : TRUE ELSE backend[b].path
BaseOf(b) == IF backend[b].base # {} THEN CHOOSE p \in backend[b].base : TRUE ELSE Effective(b)

\* Mutant of SearchPath: the live path is extended.
OnTheLivePath(schema, b) == <<schema>> \o Effective(b)

\* build_search_path_sql, on the base read from backend b.
SearchPath(schema, b) == <<schema>> \o BaseOf(b)

\* The schema a name is found in.
Resolved(path) == LET known == {k \in 1 .. Len(path) : path[k] \in DOMAIN Rows}
                  IN  IF known = {} THEN None ELSE path[Least(known)]

-----------------------------------------------------------------------------
(* exec_query_on_client: the answer to a statement under a search_path. *)

Size(ask) == {n % U32 : n \in ask.limit}

Answer(ask, path) ==
  LET text == ask.text
      schema == Resolved(path)
      paginated == SupportsTrailingLimitClause(text) /\ ask.limit # {}
      size == CHOOSE n \in Size(ask) : TRUE
      selected == IF paginated THEN SelectedPage(Paginated(text, size, ask.page % U32), Rows[schema])
                  ELSE Selected(text, Rows[schema])
      rows == CHOOSE x \in selected : TRUE
      upto == Least({rows.upto} \cup {rows.after + n : n \in Size(ask)})
  IN  IF schema = None \/ selected = {} THEN [Error("refused") EXCEPT !.schema = schema]
      ELSE IF ~ReturnsResultSet(text) THEN [NoResult EXCEPT !.schema = schema]
      ELSE [error |-> None, schema |-> schema, after |-> rows.after, upto |-> upto, truncated |-> upto < rows.upto]

-----------------------------------------------------------------------------
(* The pool's clients. *)

At(r, pc) == req[r].pc = pc
Goto(r, pc) == req' = [req EXCEPT ![r].pc = pc]
Answered(r, result) == req' = [req EXCEPT ![r].pc = "answered", ![r].result = result]
Freed(r) == client' = [client EXCEPT ![req[r].on] = "free"]

\* base_search_path_hook, on a new connection; its failure is only logged.
Hook(b) == backend' \in {backend, [backend EXCEPT ![b].base = {Effective(b)}]}

\* exec_query: which way a statement goes.
Ask(r) ==
  /\ req[r].pc \in {"idle", "answered"}
  /\ asked[r] < Host[host][r].times
  /\ asked' = [asked EXCEPT ![r] = @ + 1]
  /\ \E ask \in Host[host][r].asks :
       req' = [req EXCEPT ![r] = [pc |-> IF pooler /\ ReturnsResultSet(ask.text) THEN "connect" ELSE "take",
                                  ask |-> ask, on |-> None, read |-> {}, result |-> NoResult]]
  /\ UNCHANGED <<host, pooler, client, backend, staled>>

\* get_pool_client.
Take(r) ==
  /\ At(r, "take")
  /\ \E c \in Backend :
       /\ client[c] # "busy"
       /\ client' = [client EXCEPT ![c] = "busy"]
       /\ req' = [req EXCEPT ![r].pc = IF req[r].ask.schema # None THEN "read" ELSE "run",
                             ![r].on = c]
       /\ CASE client[c] = "free"             -> UNCHANGED backend
            [] client[c] = "none" /\ ~pooler  -> Hook(c)
            [] client[c] = "none" /\ pooler   -> \E b \in Free : Hook(b)
  /\ UNCHANGED <<host, pooler, asked, staled>>

\* apply_search_path, its first half: the base is read.
ReadPath(r) ==
  /\ At(r, "read")
  /\ \/ \E b \in On(r) : req' = [req EXCEPT ![r].pc = "set", ![r].read = {SearchPath(req[r].ask.schema, b)}]
        /\ UNCHANGED client
     \/ Answered(r, Error("failed")) /\ Freed(r)
  /\ UNCHANGED <<host, pooler, backend, asked, staled>>

\* Its second half: SET search_path.
SetPath(r) ==
  /\ At(r, "set")
  /\ \/ \E b \in On(r), path \in req[r].read : backend' = [backend EXCEPT ![b].path = path]
        /\ Goto(r, "run") /\ UNCHANGED client
     \/ Answered(r, Error("failed")) /\ Freed(r) /\ UNCHANGED backend
  /\ UNCHANGED <<host, pooler, asked, staled>>

Run(r) ==
  /\ At(r, "run")
  /\ \E b \in On(r) : \E result \in {Answer(req[r].ask, Effective(b)), Error("failed")} : Answered(r, result)
  /\ Freed(r)
  /\ UNCHANGED <<host, pooler, backend, asked, staled>>

-----------------------------------------------------------------------------
(* exec_query_pooled_txn. *)

Rolled(b) == [backend EXCEPT ![b].txn = "idle", ![b].local = {}, ![b].held = None]

\* oneshot_pool_client: its hook runs on whichever backend is free.
Connect(r) ==
  /\ At(r, "connect")
  /\ \E b \in Free : Hook(b)
  /\ Goto(r, "begin")
  /\ UNCHANGED <<host, pooler, client, asked, staled>>

\* BEGIN pins a backend.
Begin(r) ==
  /\ At(r, "begin")
  /\ \/ \E b \in Free : /\ backend' = [backend EXCEPT ![b].held = r, ![b].txn = "open"]
                        /\ req' = [req EXCEPT ![r].pc = "clear", ![r].on = b]
     \/ Answered(r, Error("failed")) /\ UNCHANGED backend
  /\ UNCHANGED <<host, pooler, client, asked, staled>>

\* A statement of the pinned transaction fails: the ROLLBACK of pin_pooled_txn is next.
Fails(r) ==
  /\ backend' = [backend EXCEPT ![req[r].on].txn = "failed"]
  /\ req' = [req EXCEPT ![r].pc = "end", ![r].result = Error("failed")]

\* Mutant of Clear: the stale statements of the backend stay.
ClearsNothing(r) ==
  /\ At(r, "clear")
  /\ \/ Goto(r, IF req[r].ask.schema # None THEN "local" ELSE "prepare") /\ UNCHANGED backend
     \/ Fails(r)
  /\ UNCHANGED <<host, pooler, client, asked, staled>>

\* DEALLOCATE ALL.
Clear(r) ==
  /\ At(r, "clear")
  /\ \/ /\ backend' = [backend EXCEPT ![req[r].on].stale = FALSE]
        /\ Goto(r, IF req[r].ask.schema # None THEN "local" ELSE "prepare")
     \/ Fails(r)
  /\ UNCHANGED <<host, pooler, client, asked, staled>>

\* apply_search_path_local.
SetLocal(r) ==
  /\ At(r, "local")
  /\ \/ /\ backend' = [backend EXCEPT ![req[r].on].local = {SearchPath(req[r].ask.schema, req[r].on)}]
        /\ Goto(r, "prepare")
     \/ Fails(r)
  /\ UNCHANGED <<host, pooler, client, asked, staled>>

\* The prepare that resolves the column types leaves its own statement behind, and
\* fails on a stale one.
Prepare(r) ==
  /\ At(r, "prepare")
  /\ \/ /\ ~backend[req[r].on].stale
        /\ backend' = [backend EXCEPT ![req[r].on].stale = TRUE]
        /\ Goto(r, "fetch")
     \/ Fails(r)
  /\ UNCHANGED <<host, pooler, client, asked, staled>>

\* The data fetch.  exec_query_on_client rolls back itself when it fails, which ends
\* the pin.
Fetch(r) ==
  /\ At(r, "fetch")
  /\ \E result \in {Answer(req[r].ask, Effective(req[r].on)), Error("failed")} :
       /\ req' = [req EXCEPT ![r].pc = "trail", ![r].result = result]
       /\ backend' = IF result.error = None THEN backend ELSE Rolled(req[r].on)
  /\ UNCHANGED <<host, pooler, client, asked, staled>>

\* The second DEALLOCATE ALL: its failure is only logged.  After the rollback it runs
\* on any backend.
Trail(r) ==
  /\ At(r, "trail")
  /\ IF backend[req[r].on].held = r
       THEN backend' \in {[backend EXCEPT ![req[r].on].stale = FALSE],
                          [backend EXCEPT ![req[r].on].txn = "failed"]}
       ELSE \E b \in Free : backend' \in {[backend EXCEPT ![b].stale = FALSE], backend}
  /\ Goto(r, "end")
  /\ UNCHANGED <<host, pooler, client, asked, staled>>

\* COMMIT, or ROLLBACK of what failed; the client is dropped, which ends the pin in
\* any case.
End(r) ==
  /\ At(r, "end")
  /\ backend' = IF backend[req[r].on].held = r THEN Rolled(req[r].on) ELSE backend
  /\ \/ Answered(r, req[r].result)
     \/ req[r].result.error = None /\ Answered(r, Error("failed"))
  /\ UNCHANGED <<host, pooler, client, asked, staled>>

Pinned == {"begin", "clear", "local", "prepare", "fetch", "trail", "end"}

\* POOLED_TXN_TIMEOUT: the client is dropped wherever it is.
TimedOut(r) ==
  /\ req[r].pc \in Pinned
  /\ backend' = IF \E b \in Backend : backend[b].held = r THEN Rolled(req[r].on) ELSE backend
  /\ Answered(r, Error("failed"))
  /\ UNCHANGED <<host, pooler, client, asked, staled>>

-----------------------------------------------------------------------------
\* Another process leaves a prepared statement on a backend of the pooler.
LeaveStale ==
  /\ pooler /\ staled < MaxStale
  /\ staled' = staled + 1
  /\ \E b \in Free : backend' = [backend EXCEPT ![b].stale = TRUE]
  /\ UNCHANGED <<host, pooler, client, req, asked>>

Init ==
  /\ host \in DOMAIN Host
  /\ pooler \in BOOLEAN
  /\ client = [c \in Backend |-> None]
  /\ backend = [b \in Backend |-> Fresh]
  /\ req = [r \in Request |-> [pc |-> "idle", ask |-> NoAsk, on |-> None, read |-> {}, result |-> NoResult]]
  /\ asked = [r \in Request |-> 0]
  /\ staled = 0

Next ==
  \/ \E r \in Request :
       \/ Ask(r) \/ Take(r) \/ ReadPath(r) \/ SetPath(r) \/ Run(r)
       \/ Connect(r) \/ Begin(r) \/ Clear(r) \/ SetLocal(r) \/ Prepare(r)
       \/ Fetch(r) \/ Trail(r) \/ End(r) \/ TimedOut(r)
  \/ LeaveStale

Spec == Init /\ [][Next]_vars

-----------------------------------------------------------------------------
(* Properties. *)

\* Texts the plugin and the server tell alike by whether they return rows: without a
\* comment inside a leading comment, which the plugin does not nest; no query in brackets,
\* FETCH, EXECUTE or RETURNING; and no statement of another system.
Told(text) ==
  LET words == Outside(text).words
  IN  /\ ~NestedComment(text)
      /\ Word(words, 1) \notin {"(", "FETCH", "EXECUTE", "DESCRIBE", "PRAGMA"}
      /\ "RETURNING" \notin Range(words)

\* A statement is taken for what it is whatever comments, literals and noise words it
\* has: transaction_effect, sets_session_local_state and returns_result_set agree with
\* the server's reading.
ScansRight ==
  \A r \in Request :
    LET text == req[r].ask.text
        words == Outside(text).words
    IN  One(text) =>
          /\ Accepted(words) => EffectOf(text) = Effect(words) /\ SetsSessionLocalState(text) = LocalState(words)
          /\ Told(text) => ReturnsResultSet(text) = MayReturnRows(words)

\* Texts the pagination is made for: a statement that sets no bounds, on new lines or not
\* its LIMIT and its OFFSET in this order, then its semicolons.  Neither word, in a
\* comment, ends a line.
Clause(word) == {<<>>} \cup {<<word, n>> : n \in DOMAIN Number}
OnALine(text, word) ==
  \E k \in 0 .. Len(text) : /\ \A j \in 1 .. k : text[j] = EndOfLine
                            /\ SubSeq(text, k + 1, Len(text)) \in Clause(word)
Boundless(text) ==
  /\ Len(text) > 0 /\ Last(text) # EndOfLine /\ \A k \in 1 .. Len(text) : text[k] # Semicolon
  /\ Closed(text) /\ ~InComment(text)
  /\ \A word \in {"LIMIT", "OFFSET", "FETCH"} : Clauses(text, word) = {}
  /\ \A k \in 1 .. Len(text) - 1 : text[k] \in {"LIMIT", "OFFSET"} => text[k + 1] # EndOfLine
Semicolons(text) ==
  /\ \A k \in 1 .. Len(text) : text[k] \in {Semicolon, EndOfLine}
  /\ \A i \in 1 .. Len(text), j \in 1 .. Len(text) : \A k \in i .. j :
       text[i] = Semicolon /\ text[j] = Semicolon => text[k] = Semicolon
Tidy(text) ==
  \E i \in 1 .. Len(text) : \E j \in i .. Len(text) : \E k \in j .. Len(text) :
    /\ Boundless(SubSeq(text, 1, i))
    /\ OnALine(SubSeq(text, i + 1, j), "LIMIT")
    /\ OnALine(SubSeq(text, j + 1, k), "OFFSET")
    /\ Semicolons(SubSeq(text, k + 1, Len(text)))

\* Such a text, and pages whose numbers fit into 32 bits.
Plain(ask) ==
  LET text == ask.text
  IN  /\ SupportsTrailingLimitClause(text) /\ FirstToken(text) # "EXPLAIN" /\ Tidy(text)
      /\ ask.page \in 1 .. U32 - 1 /\ ask.limit # {}
      /\ \A n \in Values(text, "LIMIT") : n < U32
      /\ \A n \in ask.limit : /\ n < U32 - 1
                              /\ \A m \in {0} \cup Values(text, "OFFSET") : m + (ask.page - 1) * n < U32

Executes(r) == req[r].pc \in {"run", "fetch"} /\ req'[r] # req[r]

\* A page holds exactly its share of the rows the user's statement selects, in a
\* statement the server accepts, and says truthfully whether rows follow it.
PageRight ==
  [][\A r \in Request :
       LET ask == req[r].ask
           result == req'[r].result
       IN  Executes(r) /\ Plain(ask) /\ result.error # "failed" /\ result.schema # None =>
             /\ result.error = None
             /\ \E all \in Selected(ask.text, Rows[result.schema]), size \in ask.limit :
               LET after == Smaller(all.after + (ask.page - 1) * size, all.upto)
                   upto == Smaller(after + size, all.upto)
               IN  /\ result.upto - result.after = upto - after
                   /\ upto > after => result.after = after
                   /\ result.truncated = (upto < all.upto)]_vars

\* A statement with a schema resolves names there first, and then as the connection
\* was set up to, however often connections are used again with other schemas; behind
\* a pooler, when it is pinned.  Nothing but a SET of the shared path changes what a
\* backend resolves later.
OwnPath ==
  [][/\ \A r \in Request :
          LET b == req[r].on
          IN  Executes(r) /\ req[r].ask.schema # None /\ (pooler => req[r].pc = "fetch") =>
                /\ Head(Effective(b)) = req[r].ask.schema
                /\ ~pooler /\ backend[b].base # {} => Tail(Effective(b)) = Base
     /\ \A b \in Backend : backend'[b].path # backend[b].path =>
          \E r \in Request : At(r, "set") /\ ~At(r, "set")']_vars

\* A pinned request leaves neither its transaction nor its path on the pooler's
\* backend, and its prepare meets no statement others left there.
Isolation ==
  /\ \A b \in Backend : backend[b].held = None => backend[b].txn = "idle" /\ backend[b].local = {}
  /\ \A r \in Request : At(r, "prepare") => backend[req[r].on].held = r /\ ~backend[req[r].on].stale
=============================================================================
