# Verification of the tabularis PostgreSQL plugin

This directory holds TLA+ specifications of the plugin in `src/`, TLC configurations that
check them on small instances, and proofs of their central invariants that TLAPS checks
for every size.

Run a model with `tlc -config X.cfg MCModule.tla` (the run's entry in `PROJECT.json` names
both), the proofs with `tlapm M.tla` for the eight modules `Sessions_proofs`,
`Cancel_proofs`, `Lanes_proofs`, `Query_proofs`, `PoolCache_proofs`, `Catalog_proofs`,
`Rows_proofs` and `Extract_proofs`. `PROJECT.json` lists the runs, says which lines every
definition stands for, and names the hazards the properties are for.

## 1. The system

The plugin is a child process of the Tabularis editor. It reads JSON-RPC lines from stdin,
serves them concurrently on PostgreSQL connections taken from `deadpool` pools, and writes
responses to stdout. What is hard in it is not any one handler, it is what the handlers
share:

| Component | State it keeps | Operations | Shared with |
|---|---|---|---|
| Process and lanes (`main.rs`) | three bounded queues, 4 + 2 + 1 workers, the response channel, the shutdown watch and deadline | route, receive, respond, write, drain, abort | everything: a blocked worker is a blocked lane |
| JSON-RPC dispatch (`rpc.rs`) | none | classify a line, call a handler, suppress the answer to a notification | lanes (routing by method) |
| Sessions (`session.rs`) | the map session id -> slot, each slot's lock, pinned connection and last use | lock, take, pin, release, sweep, release all | query execution, the cleanup task, shutdown |
| Query execution (`handlers/query.rs`) | per call: `in_transaction`, `session_state_set`, the cancel guard, the client | single statement, batch, statement step, timeout, rollback | sessions, cancellation, pools |
| Transaction tracking (`handlers/query.rs`) | none (pure) | classify a statement, recompute the flag from its outcome | query execution |
| Transaction-pooler path (`handlers/query.rs`, `client.rs`) | a one-shot client | BEGIN, DEALLOCATE ALL, SET LOCAL, prepare, query, COMMIT | cancellation (same request id) |
| Cancellation (`cancel.rs`) | the registry request id -> one-shot action | register, deregister, trigger | query execution, the cancel lane, the server |
| Pool cache (`client.rs`) | the map connection key -> pool | get or create, evict on failure, clean up, build one-shot | every handler |
| Settings (`settings.rs`, `handlers/connection.rs`) | pool sizes and timeouts | initialize, read | pool building |
| Statement scanning, paging (`handlers/query.rs`, `utils/pagination.rs`) | none (pure) | leading keywords, comments, result-set and state classification, LIMIT/OFFSET | query execution |
| CRUD and binding (`handlers/crud.rs`, `binding.rs`) | per call: the column types, the enum types, the hstore oid it has looked up | insert, update, delete; bind a value, bind a key | pools; the table, with other sessions |
| Blob transfer (`handlers/blob.rs`) | none | preview, fetch, save | the rows of CRUD |
| Metadata and DDL (`handlers/metadata.rs`, `ddl.rs`, `routines.rs`) | none | read tables, columns, keys, views, routines; build and run definitions | pools; the schema, with other sessions |
| Row extraction (`extract.rs`) | one advancing buffer per value | a column in binary to JSON, containers nested in each other | every reader |

How they interact: a worker runs one handler at a time to its end. Handlers meet each
other at the session map's and the slots' locks, at the pool's semaphore, in the cancel
registry and on the server. Pools recycle without any reset (`RecyclingMethod::Fast`), so
whatever a handler leaves on a connection, the next borrower finds there. The cancel lane
acts on a request through the registry and a second connection to the server, at a time of
its own. The cleanup task and the shutdown handler act on the sessions concurrently with
the workers.

What is hard about it, and what would make each part correct, is the list `hazards` in
`PROJECT.json`, with the properties that watch each one.

## 2. The modules

| Module | What it is |
|---|---|
| `TxnEffects` | statement classes, PostgreSQL's answers to them, and the plugin's belief about them (pure operators) |
| `Sessions` | `session.rs` with the session path of `query.rs`, the session-less single statement, and the pool |
| `TabTransactions` | abstract: what a tab is promised about its transaction |
| `Sessions_proofs` | theorems about `Sessions`; that it implements `TabTransactions` |
| `Cancel`, `Cancel_proofs` | `cancel.rs` with the requests that register in it, the cancel lane's worker and the server; theorems |
| `Lanes`, `Lanes_proofs` | `main.rs`; theorems |
| `PoolCache`, `PoolCache_proofs` | the pool cache of `client.rs` with the pool size of `settings.rs`; theorems |
| `Statements` | what the plugin reads in a statement's text, and what PostgreSQL does (pure operators) |
| `Query`, `Query_proofs` | `execute_query` without a session: the search_path, paging, and the pooler's pinned transaction; theorems about it and about `Statements` |
| `Binding` | `binding.rs`: a JSON value to SQL and a parameter (pure operators) |
| `Rows`, `Rows_proofs` | insert, update, delete and blob transfer on a table other sessions write to; theorems |
| `Catalog`, `Catalog_proofs` | the readers of the schema, the builders of definitions and `drop_routine`, while the schema changes; theorems |
| `Scalars` | the scalars of `extract.rs` whose text the plugin puts together (pure operators) |
| `Extract`, `Extract_proofs` | `extract.rs`: the dispatch on types and the containers; theorems |
| `MCSessions`, `MCCancel`, `MCLanes`, `MCPoolCache`, `MCQuery`, `MCRows`, `MCCatalog`, `MCExtract` | small instances |

### Sessions

State and code:

| Variable | Code |
|---|---|
| `smap` | `SESSIONS`, the map from session id to `Arc<Mutex<Slot>>` |
| `pinned`, `overdue` | `Slot(Option<PinnedSession>)`; whether `last_used` is older than `MAX_IDLE` |
| `owner`, `waiters` | the slot's `tokio::sync::Mutex`: its owner and its FIFO of waiters |
| `pc`, `job`, `ref`, `held`, `inTxn` | a worker's position in its handler, its request, the `Arc` it holds, the client it has checked out, its local `in_transaction` |
| `bag` | the local vectors `expired` and `clients` of `sweep_idle` and `release_all` |
| `pool`, `txn` | deadpool's idle objects; each connection's transaction state at the server |

`lock()` is two steps, `Lookup` (clone the `Arc` under the map's lock) and `Enqueue`
(`lock_owned`), because the code awaits between them. `DropGuard` is the drop of the guard
and of the `Arc` inside it: the lock passes to the first waiter, and the last reference to
a slot takes a pinned connection with it (`Slot::drop`). `ExecStatement` is one turn of
the batch's loop: the statement, the ROLLBACK the handler sends when it judges the block
aborted, and the new flag. The critical sections under the map's lock (`Sweep`,
`ReleaseAll`) are single steps, as no other task sees their middle. A slot identity is
reused once no reference to the old object is left, as memory is.

Statements are abstracted to their class (`Opens`, `Closes`, `Chains`, `None`) and the
server's answer to a class is any that PostgreSQL can give in the backend's state
(`ServerOutcomes`), failures at the client's side of a successful statement included. A
connection can die at any moment.

Runs:

* `Sessions_safety` (2 sessions, 2 workers, 2 connections, 4 slots, shutdowns): the
  structural invariant, `PoolClean`, `PinnedOpen`, `FlagTruthful`. It takes the host's
  discipline as given: no transaction opened without a session, no COMMIT or ROLLBACK
  refused unexecuted. Two workers and a janitor are enough for every pair of racing
  critical sections, and four slots are one more than can be alive.
* `Sessions_serial` (2 sessions, 3 workers, 2 connections, no shutdown): serial runs, and
  the refinement of `TabTransactions`. Three workers give a lock an owner and two waiters,
  or a sweep between a lookup and a lock.
* `Sessions_live` (2 sessions, 2 workers, one connection): the pool is smaller than the
  sessions that want to keep a transaction, so runs do block on it. A run that waits for
  the connection is answered because the idle sweep frees it.
* `Sessions_leak_single` lets a transaction be opened without a session, and shows what
  then goes wrong (section 4, with two more assumptions that can be dropped by hand).

Fairness (`FairSpec`): tokio polls every task whose await is ready, the cleanup timer
ticks, time passes for a pin, the server answers a statement or its connection, and
batches are finite. The pool's semaphore is FIFO, hence strong fairness on `GetClient`.
The code gives no bound on a statement's time itself; the host's cancel and the server are
trusted with that, so `Drains` and `OverdueReleased` say nothing of a server that never
answers.

### Cancel

One action per step a request takes between registering and deregistering, for four kinds
of request: a single statement, a batch, and both on a transaction pooler, where a result
set runs on a one-shot client that takes over the request's key in the registry. A
statement in flight has a stage of its own (`setup`, `prepare`, `query`, `shotquery`,
`rollback`); it ends by the server's answer (`Answer`), by the plugin's timeout
(`Timeout`, which leaves the statement running, `leftover`), or by a cancel (`Strike`).
The cancel lane's worker takes the action out of the registry (`Trigger`) and reaches the
server later, or never (`Miss`): a cancel strikes what runs on the backend then. Requests
that wait for a worker are not told from requests not yet sent, and the workers are not
counted: `Request` bounds what is in flight.

* `Cancel_registry` (2 requests, 2 pooled and 3 one-shot connections): two requests are
  what it takes for one to end and another to borrow its connection. The third one-shot
  identity is for a cancel still on its way to a closed one. `StrikesRight` says what a
  late cancel may strike; section 4 says how to see it strike another request.

### Lanes

`stdin`, `queue`, `serving`, `responses` and `answered` are where a line can be on its
way; `main` is the stage of `main()`: reading, joining the workers in the order they were
spawned, closing (awaiting writer and cleanup task), exited. A handler is `quick`, `stuck`
on its server until a cancel finds it, or `deaf`, on a server that does not take the
cancel either; in that case the cancel's own connection hangs too, and with it the one
worker of the cancel lane, which `main.rs:163-168` names as a deliberate tradeoff. A
`host` that has `closed` stdin still reads stdout, one that is `gone` does not, which
breaks the writer and then, answer by answer, the workers.

* `Lanes_run` (1 general, 2 lifecycle, 1 cancel worker, queues of one line; two queries
  and two health checks, one hanging each; the host leaves at most two of a lane
  unanswered): exactly as many as the general lane takes, so its queue is full with
  nothing waiting in the reader. The shape is that of 4 workers and 64 queued lines; one
  worker and one place are enough to be full. With one query more: section 4.

Fairness: the tasks of the process that can go on do, and its timer fires. The host is
under none, it may send, close stdin or die whenever it likes or never.

### PoolCache

`cache` is `POOLS`, `maxSize` is `POOL_MAX_SIZE`, `pools` what each deadpool `Pool` is. A
caller goes through `get_pool_client`: `Call` up to the first lock of the cache, `Build`,
`Insert` under the second lock, the get (`GetIdle`, or `GetConnects` and then `Connected`
or `ConnectFails`), `Evict` in the error arm. The lock is released between any two of
these. `clone` is the caller's counted reference to a pool, `origin` the weak one inside
its client; `Settle` closes a pool with its last clone, which is what becomes of a
builder's losing pool, of a one-shot pool and of an evicted one. A client whose pool is
closed is closed when it is dropped.

How deadpool's `status` counts a caller inside `get` is left open, so the cleanup may or
may not drop a pool that only such callers use. The key is modelled by the parts it is
made of: that the text joins them with colons, and writes an absent field like an empty
one, is not. A connection attempt succeeds or fails as one step.

The eviction removes whatever is under the key. The comment at `client.rs:525-536` accepts
that this can hit another caller's working pool; `BusyKept` says that it is the only way
in which a pool in use leaves the cache, and `RightTarget` that no wrong connection comes
of it.

* `PoolCache_cache` (2 callers, 2 parameters over the same fields, one with a connection
  string, 4 pools, sizes 1 and 2): callers loop, so two of them are enough for one to
  fail, evict, rebuild and use a pool while the other is still inside the get on the
  first. Four pools are as many as can be referred to at once.

### Query

`Query` is `execute_query` for a request without a session. A client of the pool is a
backend, unless a pooler is declared: then each statement outside a transaction runs on
whichever backend is free, and a request that returns rows is pinned to one by BEGIN,
DEALLOCATE ALL, SET LOCAL, prepare, the query, DEALLOCATE ALL and its end (`Connect` ...
`End`), with the timeout around all of it. A backend keeps what is left on it: `path`,
`local` (SET LOCAL), `base` (the snapshot of the path the post_create hook takes),
prepared statements of others (`stale`).

`Statements` reads a text as a sequence of tokens. The numbers are cut to `U32` bits as
the code cuts them, the release build's wrapping product in the page offset included. What
PostgreSQL makes of a text is written from its grammar and the SQL standard and not from
the code: a lexer (`Lex`: comments nest, literals hide what is in them) whose words say
what the statement does to the transaction (`Effect`: the whole forms of COMMIT, ROLLBACK
and their like), to the session (`LocalState`), whether it may have rows
(`MayReturnRows`), and what its LIMIT and OFFSET select (`Selected`). `Accepted` is what
the grammar asks of a statement's beginning. The plugin stops at the first literal, skips
brackets, drops noise words and looks at up to six keywords; it cuts a clause at white
space and looks neither for comments nor for literals.

* `Query_pages`: two hosts. In `paging` one request asks every statement form once
  (leading comments that nest or hold a COMMIT, transaction control with its noise words,
  chain clauses, savepoints and prepared transactions, session state, every text of up to
  three of eleven pieces, LIMIT and OFFSET in both orders, on lines of their own, in comments and in
  literals, with numbers that do not fit) with every page size and page around the 3-bit bound. In `sharing` two requests with
  different schemas use 2 backends three times, with and without a pooler, one of the
  hook's snapshots failing, a timeout at any step of a pinned one.

What `ScansRight` and `PageRight` leave out is in their definitions (`Told`; `Plain`, with
the shape of a text in `Tidy`) and in section 4. The prepare and its timeout on a pooled client are in `Cancel`.

### Binding and Rows

`Binding` is the cascade of `bind_pg_value` and `bind_pk_value`: what is tried first, what
is inlined, which placeholder a parameter gets, what type the expression then has. What a
text looks like (number, uuid, WKT, function call, ...) is given with it, as the patterns
themselves are library code.

`Rows` is the round trip around it. The grid shows a table once (`seen`), the host then
names a row by the cells of its key as they were shown, or by all its cells, and the
request looks the column types up (`types`, a step that may fail and is then ignored), the
enums or the oid of hstore, and executes. Another session may write in between. `Reading`
is what the server reads in a text as a value of a type; it is what makes shown forms
inexact.

* `Rows_edit` (tables of two columns, one for each way a type can be a key or a cell;
  three row identities; one write by another session): `OnlyNamedRow` (what is written or
  read had the shown key), `StillFound` (a row nobody touched is found, NULLs in its key
  included) and `CopiesValue` (a cell saved as shown keeps its value). Two columns are the
  least in which a NULL moves a placeholder, three rows hold two that look alike and one
  to insert.
* `Rows_named`: section 4.

A jsonb is shown as the JSON it is (`Show`, `JsonSort`), so it comes back as an object,
array, number or boolean, which are bound as jsonb, or as a string, which is not; an array
is shown as JSON without its lower bounds, and an array literal made of it again has the
type its elements give it (`ArrayLiteral`).

`StillFound` and `CopiesValue` are stated for shown forms that are exact. They do not
hold, and the definitions say so, for:

* what is not shown exactly (`Exact`): timestamps with a fraction, timestamptz (shown in
  UTC, read back in the session's zone), infinite dates, NaN and a JSON null in a jsonb
  column (shown as null, and stored back as NULL), arrays with other lower bounds, bytea
  cut at the preview's 10 240 bytes;
* what is bound as something else though all is loaded (`Disguised`): a text in the shape
  of a uuid, array, blob, function call, WKT or sentinel, and an enum's label in the shape
  of a blob or sentinel, which are stored as that or refused; a jsonb string, which is
  bound like any string (`binding.rs:82` leaves strings out) and refused by the column as
  a TEXT; an integer array of NULLs only, whose `ARRAY[NULL]` is an array of texts;
* what is bound as something else when the types or the enums could not be loaded
  (`Guessed`): an empty jsonb array, sent as `'{}'`, which the column reads as an empty
  object; an enum's label in the shape of a function call, which is called, or of an empty
  array;
* in `StillFound`: enum, bytea and json columns in the key, which no predicate matches; a
  real in the key after the lookup of the types has failed.

The instance has a value of each of these kinds beside the exact ones of its type, among
them a JSON object, empty array, number, string and null.

### Catalog

One schema, changed by other clients between any two statements of a request (`past` keeps
what it has been meanwhile). Each reader is its queries in their order; a builder's
statements run one by one as the host would run them, and the server may refuse any of
them (`refused`).

* `Catalog_requests` (six schemas that differ in an object's kind or in one name's
  overloads; two changes per request): `ReadsTrue` (the reply of each reader was true at a
  moment of the request, for those of several queries as far as a snapshot of several
  moments can be), `DropsNamed` (`drop_routine` removes only what it looked up),
  `DdlRight` (the statements built for a definition lead to the table it describes, and
  are refused only when no statement could have done it).

`DdlRight` is about definitions that say one thing (`Coherent`): what is auto-incremented
is of an integer type, and what is of a serial type is auto-incremented. A definition that
names a column twice is among the requests, and is refused. An alteration is of a column
that has the type the host was shown. Enum and array types, and the lengths and precisions
`get_columns` does not show, are outside. A change of `is_auto_increment` or `is_pk` alone
builds no statement in the code ("No changes detected"), which `Altered` follows.

### Scalars and Extract

A column arrives as bytes of its type, `json` is what is shown. The containers (array,
range, multirange, composite, domain) read from one buffer that advances, so `Extract`'s
decoders return what they leave of it, and a length read wrong shows in everything after
it. The dispatch on what is inside a value calls itself; `Decoder[n]` is that dispatch on
types at most `n` deep, and each container takes the decoder of its parts (`parts`).

The database is in the constants: `Types`, with the `Depth` of each up to `Nesting` (no
type contains itself), the `Value`s of these types and of what is inside them, and the
bytes PostgreSQL sends of each, `Wire`. `ValuesOK` says what a value is, and that its bytes
are those of the send function (`Send`, with the bytes of its parts taken from `Wire`). A
word of 32 bits is scaled to 24 (`Huge`).

* `Extract_columns` (2900 columns): every value of small types, containers of containers
  of them up to two elements, and each value cut at every byte. `MaxSafe` and `WordMax`
  are scaled to 5 and 7: what matters is the order of the two bounds and the sign. A
  timestamp has 100 microseconds to the second. `ScalarsRight` and `ContainersRight`
  compare with what the value says in its type (`ScalarShown`, `Shown`), `QueriesTold`
  says that two tsqueries of different meaning never look alike, `CutsShown` that a value
  cut short is not shown as a whole one.

The exceptions are operators of their own (`Misshown`, `Misread`, `RightPhrase`), and
listed in section 4.

## 3. What is proved

`Sessions_proofs` proves, for every number of sessions, workers, slots and connections:

* `Structured`: `Spec => []Structure`. `Structure` is the inductive invariant that the
  rest stands on. `OneHome` says that a connection is in one place (pool, a handler's
  hands, a slot, a janitor's bag); `HandlerState` ties what a handler has to where it is;
  `Locking` ties each slot's owner and queue to the handlers that own or await it;
  `SlotEmptied` says that the slot of a running session is empty. None of them is
  inductive without the others: that pinning overwrites nothing needs the lock to be
  exclusive, exclusivity needs the queue to hold only handlers that wait, and that needs
  `HandlerState`.
* `Cleanliness`: under `HostDiscipline`, `Spec => [](PoolClean /\ PinnedOpen /\
  FlagTruthful)`, with `Pins` and `Flags` for the last two. `ClientState` carries it: the
  client a handler holds is in the state its flag says. The lemmas `AnswerIdle` and
  `AnswerTracked` show that for one statement of any class and any answer of the server.
* `Serialized`: without a shutdown, `Spec => [](Tracked /\ OneRunPerSession /\
  RunHasTheTransaction)`, with `Mapping` and `Together` for parts of it. `Tracked`
  (whoever refers to a slot finds it in the map under its session) is what `release_all`
  breaks and the sweep's look at the reference count keeps; with it the slot's mutex is
  the session's.

Its last part builds on both invariants (`Steady`), without a shutdown:

* `NeverCloses` (`NeverClosesOpen`): the reference a handler drops is never the last of
  its slot (`NotTheLast`), so `Slot::drop` never closes a connection with a transaction.
* `Kept` (`KeptForItsSession`): a pin moves only to its own session's handlers or,
  overdue, to the sweep.
* `Implements` (`Spec => ImplementsTabs`): every step of `Sessions` is a step of
  `TabTransactions` or leaves the tabs alone. A run is its session's only one (`Runner`),
  so a tab sees that handler's connection; the lemmas `MapsTake`, `MapsGet`, `MapsPin`,
  `MapsFinish`, `MapsRelease` and `MapsSweep` map one action each to `Begin`, `Attach`,
  `Keep`, `Finish` and `Expire`, and `LookupUnseen` and `WorkerUnseen` show that the
  others are invisible. It needs one invariant more, `PinsMapped` (a slot out of the map
  has no pin): otherwise a new slot could come with somebody's transaction.

`Cancel_proofs` proves `TypeCorrect`, `Truthful` (`HandleTruthful`), `Covered`
(`Cancellable`) and `Strikes` (`StrikesRight`) for any number of requests and connections.
Its invariant is about who has what: `Clients` (what a request holds, by its stage),
`Apart` (no two requests hold the same connection, none is in the pool meanwhile),
`Registry` (an entry names what its request registered), `Inbox` and `Firing` (a cancel on
its way is for a connection its request held). None holds without `Apart`: a connection
that two requests hold would be struck for either.

`Lanes_proofs` proves `TypeCorrect` and `NothingLost` (`CleanExitAnswersAll`) for any
number of requests, workers and queue places. `Accounted` says where each request that was
sent is: in stdin, in a queue, with a worker, on its way to the writer, or answered. It
needs `Ended` (a worker ends only with its queue closed and empty) and `WriterState` (the
writer only after all workers, and main only after the writer), all until the deadline
passes or the host is gone.

`PoolCache_proofs` proves, for every number of callers, pools, parameters and sizes,
`TypeCorrect`, `RightTargets`, `NeverPoisoned`, `OneShots` and `BusyPoolsKept`, one for
each property of the run. They stand on `Inv`: `Keyed` (whatever refers to a pool for a
key refers to one built from parameters with that key), `CallerState` (what a caller
refers to, by its stage) and `OwnPool` (a pool just built, and a one-shot pool, is its
caller's own). The lemma `KeyDetermines` says that equal keys build equal pools.

`Query_proofs` proves, for every number of requests, backends and statements left behind,
`PinsLeaveNothing` (the property `Isolation`) and `NamesResolveInTheirSchema` (`OwnPath`).
`Pins` says that a backend is held by the request that is on it, in a transaction, and
that a free one is clean. `Paths` adds, for a direct connection, that a client is lent to
one request, that a path read and not yet set is the request's schema before the base the
client's hook took, and that a client not yet made has that base; behind a pooler, that
the path of a pinned transaction was set in it. `OthersAlone` carries the pooler's half: no
step touches a backend another request holds. What a statement's text says plays no part
in either.

It plays the only part in the third, `PagesHoldTheirShare` (`PageRight`): for every text
that is `Tidy`, every limit and page that fit into 32 bits and any size of the table, a
page holds its share of the rows the user's own statement selects, in a statement the
server accepts, and says truthfully whether rows follow. `TidyPlaces` gives the places
where the statement, its LIMIT and its OFFSET end. From them follow, on one side, what the
plugin cuts and extracts (`Trimming`, `ClauseCut`, `HeadCut`, `Cut`), and on the other
what PostgreSQL reads (`Reads`: no bound in the statement, one of each kind at most after
it); the second goes over the tokens by the least place where it would fail, as no
theorem of induction can be used here.
`ShareLimited` is the arithmetic of the merged clause.

The fourth, `StatementsAreReadRight` (`ScansRight`), is about every text of one statement
(`One`: what follows its semicolon is a comment). Read token by token, the plugin's scan and the server's lexer stay `Alike`: the same comment
open, and the plugin's words following the server's (`Follows`) up to the first literal,
bracket or operator, where the plugin's reading stops or goes on without it (`AlikeStep`,
`KeywordsAre`). `AgreeAfter` is the crux: at a place that only keywords precede, and that
holds no bracket, both read the same keyword or both none. `Ending` says how the forms in
which the grammar lets a transaction end differ behind their noise word, which leaves each
its own answer (`EndRight`, `EffectRight`); `LocalRight` goes along SET and CREATE in the
same way. The first token comes from another scan, which does not nest comments:
`StartWordless` shows that it skips nothing but comments before the server's first word
unless one of them holds another, and `FirstIs` that it stops there.

`Catalog_proofs` proves, for any schemas, types, casts, definitions and number of changes,
`RepliesTellTheTruth` (`ReadsTrue`), `DropTakesWhatWasNamed` (`DropsNamed`) and
`BuildersMakeWhatWasAsked` (`DdlRight`). The first two stand on `Knows`: what a request
has read so far was so at a moment of its course (`Saw`), and its moments are kept in
order (`Lived`). The third stands on `Builds`, of which `DdlRuns` says how far the host has
come: before the first statement the schema is the one the request found, after the last
it is the one asked for. A definition or an index is one statement (`CreateRight`,
`AddRight`, `IndexRight`). An alteration is up to four, and `Rest(i)` are those left when
`i` of its parts (name, type, null, default) are done or were not asked for; `UpTo` is the
table by then. `ComesNext` finds the part that the next statement is, and one lemma each
(`RenameWorks`, `RetypeWorks`, `RenullWorks`, `RedefaultWorks`) shows that PostgreSQL takes
it under the column's name of that moment and that it leads from one table to the next:
for the type that needs the default still to be the old one, for NULL and the default that
the rename took the key along. So a statement is refused only where `Can` fails, and
`AlterEnds` reads the wanted columns off the last table.

`Rows_proofs` proves, for any tables, types, values and texts, and any number of writes of
other sessions, `EditsOnlyWhatWasNamed` (`OnlyNamedRow`), `UntouchedRowsAreFound`
(`StillFound`) and `CopiesKeepTheirValue` (`CopiesValue`). All three need that a fragment's
placeholder is the place of its own text among the parameters, however many columns there
are and however many of them send nothing. `Lined` says so of the columns gone through;
`OneMore` carries it from one column to the next, and `AllLined` to the last, by way of the
least column at which it would fail (`LeastOne`), which is how an induction is stated for
the provers here. On top of it, `MatchIsSeen` shows that a value which matches what was
shown of another, exactly, is that one; `ComparesWell` that what is shown of a key's type
is bound to a type the column compares with; and `NoOtherValue` and `BoundAccepted` go
through the cascade of `bind_pg_value` type by type: with the types loaded it comes to the
one branch whose SQL type the column takes, and without them it may be refused but never
reads as another value; `NoCall` and `EmptyIsShown` are why no call and no empty array is
inlined in its place. The invariants are `Shown` (the cells the host has seen are values
of their columns' types, and a key is one) and `Ready` (rows have the table's columns, an
update carries what was shown in its column or a typed text, the types are loaded or not).

`Extract_proofs` proves, for every database whose types are made of the simple types that
`Extract` tells apart, however deep they are nested, and for all its values,
`ContainersAreRead` (`ContainersRight`) and `CutsAreShown` (`CutsShown`). The state says
little here (`ColumnInv`: the JSON is what the call returns); the work is in the decoders,
and the argument is what is left of the buffer. What `Send` makes of a list is its parts
one after the other, and `WhatIsLeft` says what remains from part `k` on. A decoder that
stands before part `k` stands before part `k + 1` one step later (`ElementStep`,
`FieldStep`, `RangeStep`): its four bytes of length read back to the length that was sent
(`NumberInFront`), so exactly the part is taken, and NULL takes none (`PartRead`). Cut off
anywhere, the step on which the buffer ends before its part does says so (`PartCut`), and
the steps after it stay cut (`ElementCut`, `FieldCut`). The flag byte of a range gives its
bits back (`FlagIs`), so a bound is read exactly if it was sent; the one case in which
bytes remain, a lower bound that cannot be shown before one that was sent (`RangeIs`), is
harmless where the range is in a buffer of its own and is `Misread` in a multirange.
`ReadAlike` and `LevelsAgree` carry this into the nesting: all levels of `Decoder` at or
above a value's depth read it alike, so a part is shown as its type is, wherever it is.

The assumptions are `ConstantsOK` (the null values are no members of the sets; in
`PoolCache` also that the default size is within its bounds, in `Lanes` that there is a
worker and a place in each lane, in `Query` that texts are sequences of strings, limits and
pages naturals and schemas strings), `NumbersOK` of `Statements` (a number is no keyword
and no mark, and reads as a natural) and, where stated,
`HostDiscipline` and `~HostShutsDown`. Section 4 shows that neither of these two can be
dropped. Those of `Catalog` are about PostgreSQL, and its instance satisfies them:
`TypesAssumption` (a serial makes a column of its integer type; a type is shown under a
name that, if the server takes it, stands for the same type), `CastsAssumption` (within
the groups that `is_implicit_cast_compatible` lists, a cast that exists is an assignment
cast) and `SchemaAssumption` (column names are distinct, types known, keys not null). Those
of `Rows`, which its instance satisfies too: `SchemaAssumption` (a table has a key or is
named by all its columns, its types are among those the model knows) and `LooksAssumption`
(what is shown of a number, uuid, bytea, hstore or array has that type's shape; nothing but
a text, a label or a jsonb is ever taken for a sentinel, function call, geometry, or a blob
or array that it is not; an empty integer array is shown as one). What the server reads in
a text (`Reading`), what a jsonb value is (`JsonSort`) and what is shown of a value
(`ShownText`) are left open: the properties say of which values the shown form is exact. Those of `Extract`: `TypesOK` (a type's parts are types of less
depth), `ValuesOK` (a value is made as its type says, of values; what is sent of it is
what the send function makes, and its length is read back by a signed word) and `ScaleOK`.

Model-checked only: liveness (`OverdueReleased`, `Drains`, `ExitsAfterHost`,
`CancelServed`, `LifecycleServed`), which is out of the prover's reach; and, of `Extract`,
`ScalarsRight` and `QueriesTold`, which say what some twenty formats put together
by folds, and by the descent into a tsquery's tree, mean for every input: an induction over
data for each, which is not done here. Every other property of a passing run is a theorem.

## 4. Where the code and its documents disagree

Two runs end with a counterexample, each an entry of `findings`.

* `Sessions_leak_single`: a `BEGIN` sent by `execute_query` without `session_id` goes back
  to the pool open. The CHANGELOG says a connection is always rolled back before it goes
  back.
* `Rows_named`: `extract.rs:93` shows a timestamp without its fraction; the predicate
  built from the shown key then matches the row that has no fraction. `binding.rs:692-693`
  says the predicate identifies exactly one row.

Six more can be seen by changing a configuration:

* `EndersRejected = TRUE` in `Sessions_safety.cfg` (`PoolClean`, `FlagTruthful`): a
  `COMMIT` or `ROLLBACK` that the server refuses before it executes it (say, for a syntax
  error behind the keyword) aborts the block instead of ending it, and the flag says it
  has ended.
* `HostShutsDown = TRUE` in `Sessions_serial.cfg` (`OneRunPerSession`; one session, two
  workers, three slots and two connections are enough): `release_all` forgets a slot that
  a run has looked up and not yet locked. That run and the session's next one then hold
  different slots and run at the same time. It needs a `shutdown` with requests in flight.
* `INVARIANT OnlyAsked` in `Cancel_registry.cfg` with one pooled connection: the action
  leaves the registry before the cancel reaches the server. In between the request can end
  and another one borrow its connection.
* `INVARIANT CancelledStops` there: a cancel that lands on the pre-resolving `prepare` of
  a statement outside a transaction is swallowed with the error; the query then runs, for
  up to 90 s, and its cancel action is spent.
* `Burst = 3` in `Lanes_run.cfg`, with `Request <- MCQueries`, `Nature <- MCHungFirst` and
  `Impatient = {}`, violates `ExitsAfterHost`: with its queue full behind hung workers,
  the reader waits in `send`. It reads no cancel and no end of input, so the deadline that
  bounds every hang never starts. In the program that takes 4 hung calls and 65 more.
* Removing `~RightPhrase[Sent]` from `QueriesTold`: `'a <-> (b <-> c)'` and `'(a <-> b)
  <-> c'` are shown alike and mean different things.

What the other properties leave out, because the code does it so:

* Query. A statement behind a nested comment, `(SELECT ...`, FETCH, EXECUTE and
  `... RETURNING` is taken for one without rows, though the comment at the scanners (about
  `query.rs:1636`) says they must agree. A text that begins with a semicolon has no
  keywords for the plugin, whatever comes behind it, and a second statement in a text is
  not looked at; `PREPARE transaction AS ...`, a statement of that name, is taken for the
  end of a transaction (`Accepted` leaves it out). A trailing `--` comment swallows the page's clause, and so does one on
  the line before the user's LIMIT, which the cut joins to it; OFFSET before LIMIT, FETCH
  FIRST and a DELETE behind WITH get a second clause, which the server refuses. Semicolons
  on two lines leave one before the page's clause. A comment line that ends in LIMIT or
  OFFSET is taken for a clause when a number that ends the text follows it. A LIMIT or OFFSET beyond 32 bits is stripped and not honoured; a page size of
  2^32-1 asks for no row, and the page's offset wraps in a release build. A request
  without schema runs on the path an earlier request left (`query.rs:491`; the comment at
  958-961 says otherwise). Behind a pooler, the SET of a statement without rows goes to
  any backend, and a new client's hook can snapshot such a path; when the hook fails, the
  live path is the base and grows with each request. A fetch that fails rolls back first,
  so that its DEALLOCATE runs on another backend.
* Extract. The smallest 64-bit integer is a number. Fractions of a second lose their
  leading zeros, intervals of minus a day and beyond are shown wrong, a lexeme without
  positions makes those after it unreadable (1926-1931, though 1982-1984 promises
  PostgreSQL's own form). A multirange with a lower bound that cannot be shown misreads
  what follows. TIME and citext inside an array or composite are null, though
  `extract.rs:820` says the sets of types are the same. The comments at 556-560 and 637-639
  say that after a NULL field, or one of an unsupported type, all later fields are null;
  the code does so only after a truncated one, and the test
  `composite_preserves_a_null_field_at_its_own_position` wants it so. A multirange that is
  cut is shown with fewer ranges and no mark of it (491-528); `CutsShown` is about arrays
  and composites.
* Rows. A jsonb string cannot be saved as it is shown, a JSON null becomes a NULL, and an
  empty JSON array saved while the type lookup fails becomes an empty object (all above,
  under Rows).
* Catalog. `get_schema_snapshot` is several views of a schema that changes: a key may
  point to a column not listed. `get_table_ddl` may describe a view that took the table's
  name between its two queries (193-196); a partitioned table passes `ensure_base_table`,
  whose comment says it is refused. Columns of a primary key come in the table's order;
  `get_view_definition` takes any kind; `get_routine_parameters` mixes the overloads of a
  name. An alteration changes the type before the default, asks for SERIAL in ALTER, and
  leaves what it did when the server refuses the rest.

## 5. What is not modelled, and why

The components with status `partly` in `PROJECT.json` carry the reason. In short:
`explain_query` wraps one statement on one client; `handle_line` is a match over method
names; `get_databases`, `get_schemas`, `routine_call_sql` and `routine_template` are text;
the blob's file and its MIME type are input and output; how chrono, rust_decimal, uuid and
JSON print their values is theirs; building a pool (TLS, hooks, preflight) is one step
that succeeds or fails. A late cancel that strikes the final ROLLBACK needs `Cancel` and
`Sessions` composed: `Cancel` shows that it can strike it, `Sessions` takes a ROLLBACK to
fail only on a dead connection. The server, tokio and deadpool are modelled from how the
code uses them and marked external in `map`.

## 6. The plan

Done: everything in section 2, with proofs of every safety property of `Sessions`,
`Cancel`, `Lanes`, `PoolCache`, `Query`, `Catalog` and `Rows`, and of the containers of
`Extract`.

Left, in this order:

1. `Cancel` and `Sessions` composed: a late cancel that strikes a ROLLBACK, and the
   requests of a session in the registry.
2. `ScalarsRight` for the scalars of fixed width: the arithmetic of their texts.
3. `RpcLines`: the classification of a malformed line, the answer to it or the silence.
