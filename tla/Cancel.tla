------------------------------- MODULE Cancel -------------------------------
(***************************************************************************)
(* Cancelling a statement in flight: cancel.rs (the HANDLES registry and   *)
(* CancelGuard), the requests that register with it (exec_query,           *)
(* exec_query_pooled_txn and a batch without session in handlers/query.rs) *)
(* and the one worker of the cancel lane.                                  *)
(*                                                                         *)
(* The server cancels whatever statement is in flight on a backend when    *)
(* the cancel reaches it, and ignores one that finds the backend idle.     *)
(*                                                                         *)
(* The stages of a request:                                                *)
(*   "new"       not sent yet, or queued      "done"     it is over        *)
(*   "waiting"   for a pooled client          "bare"     it has one        *)
(*   "ready"     registered, between two statements of a batch             *)
(*   "setup", "prepare", "query"  a statement in flight on the client      *)
(*   "oneshot"   its own guard is dropped, it connects a one-shot client   *)
(*   "shotquery" statements in flight on the one-shot client               *)
(*   "rearm"     the one-shot is over, its own guard not yet back          *)
(*   "closing"   no guard any more, the client still checked out           *)
(*   "rollback"  the final ROLLBACK in flight                              *)
(***************************************************************************)
EXTENDS Naturals, Sequences, FiniteSets

CONSTANTS
  Request,   \* request ids; the host uses each once
  Backend,   \* the connections of the pool
  OneShot,   \* identities for one-shot connections
  NoBackend

ASSUME ConstantsOK ==
  /\ Backend \cap OneShot = {}
  /\ NoBackend \notin Backend \cup OneShot

VARIABLES
  handles,   \* the registry: per request id, the backend its action cancels
  kind,      \* per request: a "single" statement or a "batch"; on a transaction
             \* pooler a "pooledbatch", or a "pooled" single result set
  stage,     \* per request, where its handler is
  client,    \* per request, the pooled client it has checked out
  shot,      \* per request, its one-shot client
  inTxn,     \* per request, in_transaction
  stateSet,  \* per request, session_state_set
  timed,     \* per request, whether the query in flight is bounded by a timeout
  leftover,  \* pooled backends still busy with a statement that was abandoned
  pool,      \* the clients lying in the pool
  inbox,     \* the queue of the cancel lane
  asked,     \* the requests the host has sent a cancel for
  firing,    \* the cancel in progress: its request and its backend, or NoCancel
  cancelled  \* the requests that had a statement cancelled by the server

work == <<kind, stage, client, shot, inTxn, stateSet, timed, leftover, pool>>
lane == <<inbox, asked, firing, cancelled>>
vars == <<handles, work, lane>>

Stage == {"new", "waiting", "bare", "ready", "setup", "prepare", "query",
          "oneshot", "shotquery", "rearm", "closing", "rollback", "done"}

Kind == {"single", "batch", "pooledbatch", "pooled"}

NoCancel == [of |-> NoBackend, at |-> NoBackend]

TypeOK ==
  /\ handles \in [Request -> Backend \cup OneShot \cup {NoBackend}]
  /\ kind \in [Request -> Kind]
  /\ stage \in [Request -> Stage]
  /\ client \in [Request -> Backend \cup {NoBackend}]
  /\ shot \in [Request -> OneShot \cup {NoBackend}]
  /\ inTxn \in [Request -> BOOLEAN]
  /\ stateSet \in [Request -> BOOLEAN]
  /\ timed \in [Request -> BOOLEAN]
  /\ leftover \in SUBSET Backend
  /\ pool \in SUBSET Backend
  /\ inbox \in Seq(Request)
  /\ asked \in SUBSET Request
  /\ firing \in [of : Request, at : Backend \cup OneShot] \cup {NoCancel}
  /\ cancelled \in SUBSET Request

Init ==
  /\ handles = [r \in Request |-> NoBackend]
  /\ kind \in [Request -> Kind]
  /\ stage = [r \in Request |-> "new"]
  /\ client = [r \in Request |-> NoBackend]
  /\ shot = [r \in Request |-> NoBackend]
  /\ inTxn = [r \in Request |-> FALSE]
  /\ stateSet = [r \in Request |-> FALSE]
  /\ timed = [r \in Request |-> FALSE]
  /\ leftover = {}
  /\ pool = Backend
  /\ inbox = <<>>
  /\ asked = {}
  /\ firing = NoCancel
  /\ cancelled = {}

-----------------------------------------------------------------------------
(* Helpers. *)

GoTo(r, s) == stage' = [stage EXCEPT ![r] = s]

\* CancelGuard::register: the key is set, whatever was under it.
Register(r, b) == handles' = [handles EXCEPT ![r] = b]

\* Mutant of Deregister: the guard leaves its action in the map.
Forget(r) == UNCHANGED handles

\* CancelGuard::drop: the key is removed, whatever was under it.
Deregister(r) == handles' = [handles EXCEPT ![r] = NoBackend]

\* The backend a request has a statement in flight on, if any.
RunsOn(r) ==
  IF stage[r] \in {"setup", "prepare", "query", "rollback"} THEN client[r]
  ELSE IF stage[r] = "shotquery" THEN shot[r]
  ELSE NoBackend

\* A statement waits behind one abandoned on its connection.
Unblocked(r) == RunsOn(r) \notin leftover

IsBatch(r) == kind[r] \in {"batch", "pooledbatch"}

\* A result set of a batch needs the batch's own connection, to see its
\* transaction or what it set for the session.
Shared(r) == inTxn[r] \/ stateSet[r]

\* What follows a statement: a batch goes on, a single statement is over and
\* its guard, declared after the client, is dropped before it.
Over(r) ==
  IF IsBatch(r)
    THEN GoTo(r, "ready") /\ UNCHANGED handles
    ELSE GoTo(r, "closing") /\ Deregister(r)

-----------------------------------------------------------------------------
(* A request: exec_query, run_batch_in_session, exec_query_pooled_txn. *)

\* The host sends a request; a worker starts on it.  A pooled single statement
\* goes straight to a one-shot client.
Start(r) ==
  /\ stage[r] = "new"
  /\ GoTo(r, IF kind[r] = "pooled" THEN "oneshot" ELSE "waiting")
  /\ UNCHANGED <<handles, kind, client, shot, inTxn, stateSet, timed, leftover, pool, lane>>

\* get_pool_client.
Acquire(r) ==
  /\ stage[r] = "waiting"
  /\ \E b \in pool :
       /\ client' = [client EXCEPT ![r] = b]
       /\ pool' = pool \ {b}
  /\ GoTo(r, "bare")
  /\ UNCHANGED <<handles, kind, shot, inTxn, stateSet, timed, leftover, lane>>

\* Mutant of Arm: nothing registers the batch's client again after a one-shot.
ArmOnce(r) ==
  /\ stage[r] \in {"bare", "rearm"}
  /\ IF stage[r] = "bare" THEN Register(r, client[r]) ELSE UNCHANGED handles
  /\ GoTo(r, "ready")
  /\ UNCHANGED <<kind, client, shot, inTxn, stateSet, timed, leftover, pool, lane>>

\* The guard is registered for the client, at first or again after a one-shot.
\* At first the search_path is applied, if the request names a schema.
Arm(r) ==
  /\ stage[r] \in {"bare", "rearm"}
  /\ Register(r, client[r])
  /\ \/ GoTo(r, "ready")
     \/ stage[r] = "bare" /\ GoTo(r, "setup")
  /\ UNCHANGED <<kind, client, shot, inTxn, stateSet, timed, leftover, pool, lane>>

\* The next statement of the request: prepared first, to resolve the types of
\* its result, or sent as it is.
NextStatement(r) ==
  /\ stage[r] = "ready"
  /\ \/ GoTo(r, "query")
     \/ (kind[r] = "pooledbatch" => Shared(r)) /\ GoTo(r, "prepare")
  /\ UNCHANGED <<handles, kind, client, shot, inTxn, stateSet, timed, leftover, pool, lane>>

\* On a transaction pooler, a result set that needs nothing of the batch's own
\* connection runs on a one-shot client: the guard is dropped first.
RouteOneShot(r) ==
  /\ stage[r] = "ready"
  /\ kind[r] = "pooledbatch" /\ ~Shared(r)
  /\ Deregister(r)
  /\ GoTo(r, "oneshot")
  /\ UNCHANGED <<kind, client, shot, inTxn, stateSet, timed, leftover, pool, lane>>

\* Mutant of ConnectOneShot: it borrows a pooled client.
BorrowOneShot(r) ==
  /\ stage[r] = "oneshot"
  /\ \E b \in pool :
       /\ shot' = [shot EXCEPT ![r] = b]
       /\ Register(r, b)
  /\ GoTo(r, "shotquery")
  /\ UNCHANGED <<kind, client, inTxn, stateSet, timed, leftover, pool, lane>>

\* oneshot_pool_client, then a guard of its own under the same id.
ConnectOneShot(r) ==
  /\ stage[r] = "oneshot"
  /\ \E b \in OneShot :
       /\ \A v \in Request : shot[v] # b
       /\ firing.at # b
       /\ shot' = [shot EXCEPT ![r] = b]
       /\ Register(r, b)
  /\ GoTo(r, "shotquery")
  /\ UNCHANGED <<kind, client, inTxn, stateSet, timed, leftover, pool, lane>>

\* Connecting fails: the statement fails without having run.
OneShotFails(r) ==
  /\ stage[r] = "oneshot"
  /\ GoTo(r, IF IsBatch(r) THEN "rearm" ELSE "done")
  /\ UNCHANGED <<handles, kind, client, shot, inTxn, stateSet, timed, leftover, pool, lane>>

\* The batch is over: its guard is dropped before the client goes anywhere.
EndBatch(r) ==
  /\ stage[r] = "ready" /\ IsBatch(r)
  /\ Deregister(r)
  /\ GoTo(r, IF inTxn[r] THEN "rollback" ELSE "closing")
  /\ UNCHANGED <<kind, client, shot, inTxn, stateSet, timed, leftover, pool, lane>>

\* The client drops into the pool.
Release(r) ==
  /\ stage[r] = "closing"
  /\ pool' = pool \cup ({client[r]} \ {NoBackend})
  /\ client' = [client EXCEPT ![r] = NoBackend]
  /\ GoTo(r, "done")
  /\ UNCHANGED <<handles, kind, shot, inTxn, stateSet, timed, leftover, lane>>

-----------------------------------------------------------------------------
(* How a statement in flight ends.  These do not touch the cancel lane: the *)
(* step is either the server's answer, or the effect of a cancel.           *)

\* apply_search_path: an error is returned at once, dropping guard and client.
SetupEnds(r, ok) ==
  /\ stage[r] = "setup" /\ Unblocked(r)
  /\ IF ok THEN GoTo(r, "ready") /\ UNCHANGED handles
           ELSE GoTo(r, "closing") /\ Deregister(r)
  /\ UNCHANGED <<kind, client, shot, inTxn, stateSet, timed, leftover, pool>>

\* The pre-resolving prepare.  Its error ends the statement in a transaction,
\* after a ROLLBACK; outside one it is swallowed and the query is run all the
\* same, with a timeout.
PrepareEnds(r, ok) ==
  /\ stage[r] = "prepare" /\ Unblocked(r)
  /\ IF ~ok /\ inTxn[r]
       THEN /\ Over(r)
            /\ inTxn' = [inTxn EXCEPT ![r] = FALSE]
            /\ UNCHANGED timed
       ELSE /\ GoTo(r, "query")
            /\ timed' = [timed EXCEPT ![r] = ~ok]
            /\ UNCHANGED <<handles, inTxn>>
  /\ UNCHANGED <<kind, client, shot, stateSet, leftover, pool>>

\* The query itself.  What it was decides whether a batch is in a transaction
\* afterwards, or has set state of the session.
QueryEnds(r, ok) ==
  /\ stage[r] = "query" /\ Unblocked(r)
  /\ Over(r)
  /\ timed' = [timed EXCEPT ![r] = FALSE]
  /\ \E t \in BOOLEAN, s \in BOOLEAN :
       /\ ~IsBatch(r) => ~t /\ ~s
       /\ ~ok => ~t /\ s = stateSet[r]
       /\ stateSet[r] => s
       /\ inTxn' = [inTxn EXCEPT ![r] = t]
       /\ stateSet' = [stateSet EXCEPT ![r] = s]
  /\ UNCHANGED <<kind, client, shot, leftover, pool>>

\* The one-shot client's guard is dropped, and its connection closed.
ShotEnds(r, ok) ==
  /\ stage[r] = "shotquery"
  /\ Deregister(r)
  /\ shot' = [shot EXCEPT ![r] = NoBackend]
  /\ GoTo(r, IF IsBatch(r) THEN "rearm" ELSE "done")
  /\ UNCHANGED <<kind, client, inTxn, stateSet, timed, leftover, pool>>

\* rollback_and_release.
RollbackEnds(r, ok) ==
  /\ stage[r] = "rollback" /\ Unblocked(r)
  /\ GoTo(r, "closing")
  /\ UNCHANGED <<handles, kind, client, shot, inTxn, stateSet, timed, leftover, pool>>

StatementEnds(r, ok) ==
  \/ SetupEnds(r, ok) \/ PrepareEnds(r, ok) \/ QueryEnds(r, ok)
  \/ ShotEnds(r, ok) \/ RollbackEnds(r, ok)

Answer(r) == /\ \E ok \in BOOLEAN : StatementEnds(r, ok)
             /\ UNCHANGED lane

\* POOLED_TXN_TIMEOUT: the query's future is dropped; its statement runs on.
Timeout(r) ==
  /\ stage[r] = "query" /\ timed[r]
  /\ Over(r)
  /\ timed' = [timed EXCEPT ![r] = FALSE]
  /\ leftover' = leftover \cup {client[r]}
  /\ UNCHANGED <<kind, client, shot, inTxn, stateSet, pool, lane>>

LeftoverEnds(b) ==
  /\ b \in leftover
  /\ leftover' = leftover \ {b}
  /\ UNCHANGED <<handles, kind, stage, client, shot, inTxn, stateSet, timed, pool, lane>>

-----------------------------------------------------------------------------
(* The cancel lane. *)

\* The host gives up on a request, started or still queued: its cancel joins
\* the lane's queue.
HostCancels(r) ==
  /\ r \notin asked
  /\ asked' = asked \cup {r}
  /\ inbox' = Append(inbox, r)
  /\ UNCHANGED <<handles, work, firing, cancelled>>

\* cancel(): the action, if there is one, leaves the registry, and runs.
Trigger ==
  /\ firing = NoCancel /\ inbox # <<>>
  /\ LET r == Head(inbox) IN
       /\ firing' = IF handles[r] = NoBackend THEN NoCancel
                    ELSE [of |-> r, at |-> handles[r]]
       /\ handles' = [handles EXCEPT ![r] = NoBackend]
  /\ inbox' = Tail(inbox)
  /\ UNCHANGED <<work, asked, cancelled>>

\* The server acts on it: the statement now in flight on that backend fails.
Strike ==
  /\ firing # NoCancel
  /\ firing.at \notin leftover
  /\ \E v \in Request : /\ RunsOn(v) = firing.at
                        /\ StatementEnds(v, FALSE)
                        /\ cancelled' = cancelled \cup {v}
  /\ firing' = NoCancel
  /\ UNCHANGED <<inbox, asked>>

\* It strikes a statement somebody abandoned on that connection.
StrikeLeftover ==
  /\ firing.at \in leftover
  /\ leftover' = leftover \ {firing.at}
  /\ firing' = NoCancel
  /\ UNCHANGED <<handles, kind, stage, client, shot, inTxn, stateSet, timed, pool,
                 inbox, asked, cancelled>>

\* It finds the backend idle or gone, or never reaches the server.
Miss ==
  /\ firing # NoCancel
  /\ firing' = NoCancel
  /\ UNCHANGED <<handles, work, inbox, asked, cancelled>>

-----------------------------------------------------------------------------
Serve(r) ==
  \/ Start(r) \/ Acquire(r) \/ Arm(r) \/ NextStatement(r) \/ RouteOneShot(r)
  \/ ConnectOneShot(r) \/ OneShotFails(r) \/ EndBatch(r) \/ Release(r)
  \/ Answer(r) \/ Timeout(r)

Next ==
  \/ \E r \in Request : Serve(r) \/ HostCancels(r)
  \/ \E b \in Backend : LeftoverEnds(b)
  \/ Trigger \/ Strike \/ StrikeLeftover \/ Miss

Spec == Init /\ [][Next]_vars

-----------------------------------------------------------------------------
(* Safety. *)

\* cancel.rs:66-91, query.rs:153-157: the registry never outlives a request's
\* hold on a connection.  Its action names a client the request has checked out
\* at that moment: never one in the pool, nor one a later request got from it.
HandleTruthful ==
  \A r \in Request :
    handles[r] # NoBackend => handles[r] \in {client[r], shot[r]} /\ handles[r] \notin pool

Unspent(r) == r \in asked => \E i \in 1..Len(inbox) : inbox[i] = r

\* query.rs:261-271: until its one cancel has been used, every statement of a
\* request in flight can be cancelled, on whichever of its connections it runs,
\* however often the batch changed between them.
Cancellable ==
  \A r \in Request :
    stage[r] \in {"setup", "prepare", "query", "shotquery"} /\ Unspent(r) =>
      handles[r] = RunsOn(r)

\* query.rs:370-377: a cancel strikes its own request's statements.  It can strike
\* another's only when its own is over and has given back the pooled connection it was
\* aimed at.  A single statement that is struck ends, unless it was still the prepare.
StrikesRight ==
  [][\A v \in cancelled' \ cancelled :
       /\ v # firing.of => stage[firing.of] = "done" /\ firing.at \in Backend
       /\ ~IsBatch(v) /\ stage[v] # "prepare" => RunsOn(v)' = NoBackend]_vars

-----------------------------------------------------------------------------
(* What the comments say beyond that, and the code does not keep. *)

\* query.rs:375-376: a late cancel disrupts no other query.
OnlyAsked == cancelled \subseteq asked

\* query.rs:371-373: a cancelled statement does not run on.
CancelledStops ==
  \A r \in cancelled \cap asked : kind[r] = "single" => RunsOn(r) = NoBackend
=============================================================================
