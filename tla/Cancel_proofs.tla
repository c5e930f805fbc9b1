----------------------------- MODULE Cancel_proofs -----------------------------
(***************************************************************************)
(* Theorems about Cancel, for every number of requests and connections:    *)
(* its types, what the registry names, that a statement in flight is       *)
(* covered by it, and whom a cancel can strike.                            *)
(***************************************************************************)
EXTENDS Cancel, TLAPS

OnClient == {"bare", "ready", "setup", "prepare", "query", "rearm", "closing", "rollback"}
Detour == {"oneshot", "shotquery"}
Guarded == {"ready", "setup", "prepare", "query"}

\* The clients a request has, by where it is.
ClientsOf(r) ==
  /\ stage[r] \in {"new", "waiting", "done"} => client[r] = NoBackend
  /\ stage[r] \in OnClient => client[r] \in Backend
  /\ stage[r] \in Detour => IF IsBatch(r) THEN client[r] \in Backend ELSE client[r] = NoBackend
  /\ IF stage[r] = "shotquery" THEN shot[r] \in OneShot ELSE shot[r] = NoBackend

Clients == \A r \in Request : ClientsOf(r)

\* No client is in two places.
Apart ==
  /\ \A r \in Request : client[r] \notin pool
  /\ \A r, v \in Request : client[r] = client[v] /\ client[r] # NoBackend => r = v
  /\ \A r, v \in Request : shot[r] = shot[v] /\ shot[r] # NoBackend => r = v

\* What a guard registers for, at each stage.
Target(r) == IF stage[r] \in Guarded THEN client[r]
             ELSE IF stage[r] = "shotquery" THEN shot[r] ELSE NoBackend

\* The registry has a request's target or, once its cancel was used, nothing.
Registry ==
  \A r \in Request :
    /\ handles[r] \in {Target(r), NoBackend}
    /\ Unspent(r) => handles[r] = Target(r)

\* A request is cancelled once.
Inbox ==
  /\ \A i \in 1 .. Len(inbox) : inbox[i] \in asked
  /\ \A i, j \in 1 .. Len(inbox) : inbox[i] = inbox[j] => i = j

\* The cancel in progress is aimed at a connection of its request, or at what was one.
Firing ==
  firing # NoCancel =>
    /\ firing.at \in Backend => client[firing.of] = firing.at \/ stage[firing.of] = "done"
    /\ firing.at \in OneShot => \A v \in Request : shot[v] = firing.at => v = firing.of

Inv == TypeOK /\ Clients /\ Apart /\ Registry /\ Inbox /\ Firing

-----------------------------------------------------------------------------
(* The steps of a request. *)

\* Nothing is checked out, registered or asked for at first.
LEMMA Initially == Init => Inv
<1> SUFFICES ASSUME Init PROVE Inv
  OBVIOUS
<1>1. TypeOK
  BY DEF Init, TypeOK, Stage, Kind
<1>2. Clients /\ Apart
  BY ConstantsOK DEF ConstantsOK, Init, Clients, ClientsOf, Apart, OnClient, Detour
<1>3. Registry
  BY DEF Init, Registry, Target, Guarded
<1>4. Inbox /\ Firing
  BY DEF Init, Inbox, Firing
<1> QED BY <1>1, <1>2, <1>3, <1>4 DEF Inv

\* A request takes a step of its own; a statement ends well or not.
Steps(r) ==
  \/ Start(r) \/ Acquire(r) \/ Arm(r) \/ NextStatement(r) \/ RouteOneShot(r)
  \/ ConnectOneShot(r) \/ OneShotFails(r) \/ EndBatch(r) \/ Release(r) \/ Timeout(r)
  \/ \E ok \in BOOLEAN : StatementEnds(r, ok)

\* Only its own entries change, within their types.
OwnEntries(r) ==
  /\ stage' = [stage EXCEPT ![r] = stage'[r]] /\ stage'[r] \in Stage
  /\ client' = [client EXCEPT ![r] = client'[r]]
  /\ shot' = [shot EXCEPT ![r] = shot'[r]]
  /\ handles' = [handles EXCEPT ![r] = handles'[r]]
  /\ kind' = kind
  /\ inTxn' \in [Request -> BOOLEAN]
  /\ stateSet' \in [Request -> BOOLEAN]
  /\ timed' \in [Request -> BOOLEAN]
  /\ leftover' \in SUBSET Backend

\* Its pooled client stays, comes from the pool, or goes back when it is done.
ClientMoves(r) ==
  \/ client'[r] = client[r] /\ pool' = pool
  \/ client[r] = NoBackend /\ client'[r] \in pool /\ pool' = pool \ {client'[r]}
  \/ /\ client'[r] = NoBackend /\ stage'[r] = "done"
     /\ pool' = pool \cup ({client[r]} \ {NoBackend})

\* Its one-shot client stays, is closed, or is a new one.
ShotMoves(r) ==
  \/ shot'[r] \in {shot[r], NoBackend}
  \/ /\ shot'[r] \in OneShot /\ firing.at # shot'[r]
     /\ \A v \in Request : shot[v] # shot'[r]

\* Its entry in the registry is set for where it goes, or both stay.
EntryFollows(r) ==
  \/ handles'[r] = Target(r)'
  \/ handles'[r] = handles[r] /\ Target(r)' = Target(r)

Moves(r) ==
  /\ OwnEntries(r) /\ ClientMoves(r) /\ ShotMoves(r) /\ EntryFollows(r)
  /\ ClientsOf(r)' /\ stage[r] # "done"

\* Every step of a request is such a move.
LEMMA RequestMoves ==
  ASSUME Inv, NEW r \in Request, Steps(r)
  PROVE  Moves(r)
<1> USE ConstantsOK DEF ConstantsOK, Moves, GoTo
<1>0. TypeOK /\ ClientsOf(r)
  BY DEF Inv, Clients
<1>1. CASE Start(r)
  <2>1. OwnEntries(r)
    BY <1>0, <1>1 DEF Start, OwnEntries, TypeOK, Stage
  <2>2. ClientMoves(r) /\ ShotMoves(r)
    BY <1>1 DEF Start, ClientMoves, ShotMoves
  <2>3. EntryFollows(r)
    BY <1>1 DEF Start, EntryFollows, Target, Guarded
  <2>4. ClientsOf(r)' /\ stage[r] # "done"
    BY <1>0, <1>1 DEF Start, ClientsOf, OnClient, Detour, IsBatch
  <2> QED BY <2>1, <2>2, <2>3, <2>4
<1>2. CASE Acquire(r)
  <2>1. OwnEntries(r)
    BY <1>0, <1>2 DEF Acquire, OwnEntries, TypeOK, Stage
  <2>2. ClientMoves(r) /\ ShotMoves(r)
    BY <1>0, <1>2 DEF Acquire, ClientMoves, ShotMoves, TypeOK, ClientsOf
  <2>3. EntryFollows(r)
    BY <1>2 DEF Acquire, EntryFollows, Target, Guarded
  <2>4. ClientsOf(r)' /\ stage[r] # "done"
    BY <1>0, <1>2 DEF Acquire, ClientsOf, Detour, TypeOK
  <2> QED BY <2>1, <2>2, <2>3, <2>4
<1>3. CASE Arm(r)
  <2>1. OwnEntries(r)
    BY <1>0, <1>3 DEF Arm, Register, OwnEntries, TypeOK, Stage
  <2>2. ClientMoves(r) /\ ShotMoves(r)
    BY <1>3 DEF Arm, ClientMoves, ShotMoves
  <2>3. EntryFollows(r)
    BY <1>0, <1>3 DEF Arm, Register, EntryFollows, Target, Guarded, TypeOK
  <2>4. ClientsOf(r)' /\ stage[r] # "done"
    BY <1>0, <1>3 DEF Arm, ClientsOf, OnClient, Detour, TypeOK
  <2> QED BY <2>1, <2>2, <2>3, <2>4
<1>4. CASE NextStatement(r)
  <2>1. OwnEntries(r)
    BY <1>0, <1>4 DEF NextStatement, OwnEntries, TypeOK, Stage
  <2>2. ClientMoves(r) /\ ShotMoves(r)
    BY <1>4 DEF NextStatement, ClientMoves, ShotMoves
  <2>3. EntryFollows(r)
    BY <1>0, <1>4 DEF NextStatement, EntryFollows, Target, Guarded, TypeOK
  <2>4. ClientsOf(r)' /\ stage[r] # "done"
    BY <1>0, <1>4 DEF NextStatement, ClientsOf, OnClient, Detour, TypeOK
  <2> QED BY <2>1, <2>2, <2>3, <2>4
<1>5. CASE RouteOneShot(r)
  <2>1. OwnEntries(r)
    BY <1>0, <1>5 DEF RouteOneShot, Deregister, OwnEntries, TypeOK, Stage
  <2>2. ClientMoves(r) /\ ShotMoves(r)
    BY <1>5 DEF RouteOneShot, ClientMoves, ShotMoves
  <2>3. EntryFollows(r)
    BY <1>0, <1>5 DEF RouteOneShot, Deregister, EntryFollows, Target, Guarded, TypeOK
  <2>4. ClientsOf(r)' /\ stage[r] # "done"
    BY <1>0, <1>5 DEF RouteOneShot, IsBatch, ClientsOf, OnClient
  <2> QED BY <2>1, <2>2, <2>3, <2>4
<1>6. CASE ConnectOneShot(r)
  <2>1. OwnEntries(r)
    BY <1>0, <1>6 DEF ConnectOneShot, Register, OwnEntries, TypeOK, Stage
  <2>2. ClientMoves(r) /\ ShotMoves(r)
    BY <1>6 DEF ConnectOneShot, ClientMoves, ShotMoves
  <2>3. EntryFollows(r)
    BY <1>0, <1>6 DEF ConnectOneShot, Register, EntryFollows, Target, Guarded, TypeOK
  <2>4. ClientsOf(r)' /\ stage[r] # "done"
    BY <1>0, <1>6 DEF ConnectOneShot, ClientsOf, OnClient, Detour, IsBatch, TypeOK
  <2> QED BY <2>1, <2>2, <2>3, <2>4
<1>7. CASE OneShotFails(r)
  <2>1. OwnEntries(r)
    BY <1>0, <1>7 DEF OneShotFails, OwnEntries, TypeOK, Stage
  <2>2. ClientMoves(r) /\ ShotMoves(r)
    BY <1>7 DEF OneShotFails, ClientMoves, ShotMoves
  <2>3. EntryFollows(r)
    BY <1>7 DEF OneShotFails, EntryFollows, Target, Guarded
  <2>4. ClientsOf(r)' /\ stage[r] # "done"
    BY <1>0, <1>7 DEF OneShotFails, ClientsOf, OnClient, Detour, TypeOK
  <2> QED BY <2>1, <2>2, <2>3, <2>4
<1>8. CASE EndBatch(r)
  <2>1. OwnEntries(r)
    BY <1>0, <1>8 DEF EndBatch, Deregister, OwnEntries, TypeOK, Stage
  <2>2. ClientMoves(r) /\ ShotMoves(r)
    BY <1>8 DEF EndBatch, ClientMoves, ShotMoves
  <2>3. EntryFollows(r)
    BY <1>0, <1>8 DEF EndBatch, Deregister, EntryFollows, Target, Guarded, TypeOK
  <2>4. ClientsOf(r)' /\ stage[r] # "done"
    BY <1>0, <1>8 DEF EndBatch, ClientsOf, OnClient, Detour
  <2> QED BY <2>1, <2>2, <2>3, <2>4
<1>9. CASE Release(r)
  <2>1. OwnEntries(r)
    BY <1>0, <1>9 DEF Release, OwnEntries, TypeOK, Stage
  <2>2. ClientMoves(r) /\ ShotMoves(r)
    BY <1>0, <1>9 DEF Release, ClientMoves, ShotMoves, TypeOK
  <2>3. EntryFollows(r)
    BY <1>9 DEF Release, EntryFollows, Target, Guarded
  <2>4. ClientsOf(r)' /\ stage[r] # "done"
    BY <1>0, <1>9 DEF Release, ClientsOf, OnClient, Detour, TypeOK
  <2> QED BY <2>1, <2>2, <2>3, <2>4
<1>10. CASE Timeout(r)
  <2>1. OwnEntries(r)
    BY <1>0, <1>10 DEF Timeout, Over, Deregister, OwnEntries, TypeOK, Stage, ClientsOf, OnClient
  <2>2. ClientMoves(r) /\ ShotMoves(r)
    BY <1>10 DEF Timeout, ClientMoves, ShotMoves
  <2>3. EntryFollows(r)
    BY <1>0, <1>10 DEF Timeout, Over, Deregister, EntryFollows, Target, Guarded, TypeOK
  <2>4. ClientsOf(r)' /\ stage[r] # "done"
    BY <1>0, <1>10 DEF Timeout, Over, ClientsOf, OnClient, Detour, TypeOK
  <2> QED BY <2>1, <2>2, <2>3, <2>4
<1>11. ASSUME NEW ok \in BOOLEAN, StatementEnds(r, ok) PROVE Moves(r)
  <2>1. CASE SetupEnds(r, ok)
    <3>1. OwnEntries(r)
      BY <1>0, <2>1 DEF SetupEnds, Deregister, OwnEntries, TypeOK, Stage
    <3>2. ClientMoves(r) /\ ShotMoves(r)
      BY <2>1 DEF SetupEnds, ClientMoves, ShotMoves
    <3>3. EntryFollows(r)
      BY <1>0, <2>1 DEF SetupEnds, Deregister, EntryFollows, Target, Guarded, TypeOK
    <3>4. ClientsOf(r)' /\ stage[r] # "done"
      BY <1>0, <2>1 DEF SetupEnds, ClientsOf, OnClient, Detour, TypeOK
    <3> QED BY <3>1, <3>2, <3>3, <3>4
  <2>2. CASE PrepareEnds(r, ok)
    <3>1. OwnEntries(r)
      BY <1>0, <2>2 DEF PrepareEnds, Over, Deregister, OwnEntries, TypeOK, Stage
    <3>2. ClientMoves(r) /\ ShotMoves(r)
      BY <2>2 DEF PrepareEnds, ClientMoves, ShotMoves
    <3>3. EntryFollows(r)
      BY <1>0, <2>2 DEF PrepareEnds, Over, Deregister, EntryFollows, Target, Guarded, TypeOK
    <3>4. ClientsOf(r)' /\ stage[r] # "done"
      BY <1>0, <2>2 DEF PrepareEnds, Over, ClientsOf, OnClient, Detour, TypeOK
    <3> QED BY <3>1, <3>2, <3>3, <3>4
  <2>3. CASE QueryEnds(r, ok)
    <3>1. OwnEntries(r)
      BY <1>0, <2>3 DEF QueryEnds, Over, Deregister, OwnEntries, TypeOK, Stage
    <3>2. ClientMoves(r) /\ ShotMoves(r)
      BY <2>3 DEF QueryEnds, ClientMoves, ShotMoves
    <3>3. EntryFollows(r)
      BY <1>0, <2>3 DEF QueryEnds, Over, Deregister, EntryFollows, Target, Guarded, TypeOK
    <3>4. ClientsOf(r)' /\ stage[r] # "done"
      BY <1>0, <2>3 DEF QueryEnds, Over, ClientsOf, OnClient, Detour, TypeOK
    <3> QED BY <3>1, <3>2, <3>3, <3>4
  <2>4. CASE ShotEnds(r, ok)
    <3>1. OwnEntries(r)
      BY <1>0, <2>4 DEF ShotEnds, Deregister, OwnEntries, TypeOK, Stage
    <3>2. ClientMoves(r) /\ ShotMoves(r)
      BY <2>4 DEF ShotEnds, ClientMoves, ShotMoves
    <3>3. EntryFollows(r)
      BY <1>0, <2>4 DEF ShotEnds, Deregister, EntryFollows, Target, Guarded, TypeOK
    <3>4. ClientsOf(r)' /\ stage[r] # "done"
      BY <1>0, <2>4 DEF ShotEnds, ClientsOf, OnClient, Detour, TypeOK
    <3> QED BY <3>1, <3>2, <3>3, <3>4
  <2>5. CASE RollbackEnds(r, ok)
    <3>1. OwnEntries(r)
      BY <1>0, <2>5 DEF RollbackEnds, OwnEntries, TypeOK, Stage
    <3>2. ClientMoves(r) /\ ShotMoves(r)
      BY <2>5 DEF RollbackEnds, ClientMoves, ShotMoves
    <3>3. EntryFollows(r)
      BY <2>5 DEF RollbackEnds, EntryFollows, Target, Guarded
    <3>4. ClientsOf(r)' /\ stage[r] # "done"
      BY <1>0, <2>5 DEF RollbackEnds, ClientsOf, OnClient, Detour
    <3> QED BY <3>1, <3>2, <3>3, <3>4
  <2> QED BY <1>11, <2>1, <2>2, <2>3, <2>4, <2>5 DEF StatementEnds
<1> QED BY <1>1, <1>2, <1>3, <1>4, <1>5, <1>6, <1>7, <1>8, <1>9, <1>10, <1>11 DEF Steps

\* Such a move, with the lane idle or a cancel spent on it, keeps the invariant.
LEMMA RequestStep ==
  ASSUME Inv, NEW r \in Request, Moves(r), UNCHANGED <<inbox, asked>>,
         firing' \in {firing, NoCancel}, cancelled' \in SUBSET Request
  PROVE  Inv'
<1> USE ConstantsOK DEF ConstantsOK
<1>1. /\ TypeOK
      /\ OwnEntries(r) /\ ClientMoves(r) /\ ShotMoves(r) /\ EntryFollows(r)
      /\ ClientsOf(r)' /\ stage[r] # "done"
  BY DEF Inv, Moves
<1>2. \A v \in Request \ {r} : /\ stage'[v] = stage[v] /\ client'[v] = client[v]
                               /\ shot'[v] = shot[v] /\ handles'[v] = handles[v]
  BY <1>1 DEF OwnEntries, TypeOK
<1>3. Target(r)' \in Backend \cup OneShot \cup {NoBackend}
  BY <1>1 DEF Target, Guarded, OnClient, ClientsOf
<1>4. TypeOK'
  <2>1. handles'[r] \in Backend \cup OneShot \cup {NoBackend}
    BY <1>1, <1>3 DEF EntryFollows, TypeOK
  <2>2. /\ client'[r] \in Backend \cup {NoBackend} /\ pool' \in SUBSET Backend
        /\ shot'[r] \in OneShot \cup {NoBackend}
    BY <1>1 DEF ClientMoves, ShotMoves, TypeOK
  <2> QED BY <1>1, <2>1, <2>2 DEF OwnEntries, TypeOK
<1>5. Clients'
  <2> SUFFICES ASSUME NEW v \in Request, v # r PROVE ClientsOf(v)'
    BY <1>1 DEF Clients
  <2> QED BY <1>1, <1>2 DEF Inv, Clients, ClientsOf, IsBatch, OwnEntries
<1>6. Apart'
  <2>1. \A v \in Request : client'[v] \notin pool'
    BY <1>1, <1>2 DEF Inv, Apart, ClientMoves, TypeOK
  <2>2. \A v \in Request \ {r} : client'[v] = client'[r] => client'[v] = NoBackend
    BY <1>1, <1>2 DEF Inv, Apart, ClientMoves, TypeOK
  <2>3. \A v \in Request \ {r} : shot'[v] = shot'[r] => shot'[v] = NoBackend
    BY <1>1, <1>2 DEF Inv, Apart, ShotMoves, TypeOK
  <2>4. \A u, v \in Request \ {r} :
          /\ client'[u] = client'[v] /\ client'[u] # NoBackend => u = v
          /\ shot'[u] = shot'[v] /\ shot'[u] # NoBackend => u = v
    BY <1>2 DEF Inv, Apart
  <2> QED BY <2>1, <2>2, <2>3, <2>4 DEF Apart
<1>7. Registry'
  <2>1. \A v \in Request : Unspent(v)' <=> Unspent(v)
    BY DEF Unspent
  <2>2. /\ handles'[r] \in {Target(r)', NoBackend}
        /\ Unspent(r) => handles'[r] = Target(r)'
    BY <1>1 DEF Inv, Registry, EntryFollows
  <2>3. \A v \in Request \ {r} : Target(v)' = Target(v)
    BY <1>2 DEF Target
  <2> QED BY <1>2, <2>1, <2>2, <2>3 DEF Inv, Registry
<1>8. Inbox'
  BY DEF Inv, Inbox
<1>9. Firing'
  <2> SUFFICES ASSUME firing # NoCancel, firing' = firing PROVE Firing'
    BY DEF Firing
  <2>1. firing.of \in Request
    BY <1>1 DEF TypeOK
  <2>2. ASSUME firing.at \in Backend
        PROVE  client'[firing.of] = firing.at \/ stage'[firing.of] = "done"
    BY <1>1, <1>2, <2>1, <2>2 DEF Inv, Firing, ClientMoves
  <2>3. ASSUME firing.at \in OneShot, NEW v \in Request, shot'[v] = firing.at
        PROVE  v = firing.of
    BY <1>1, <1>2, <2>1, <2>3 DEF Inv, Firing, ShotMoves
  <2> QED BY <2>2, <2>3 DEF Firing
<1> QED BY <1>4, <1>5, <1>6, <1>7, <1>8, <1>9 DEF Inv

-----------------------------------------------------------------------------
(* The steps of the lane and of the server. *)

\* The host asks for a cancel: once for a request, so it is unspent.
LEMMA HostCancelsStep ==
  ASSUME Inv, NEW r \in Request, HostCancels(r)
  PROVE  Inv'
<1>1. TypeOK /\ inbox \in Seq(Request)
  BY DEF Inv, TypeOK
<1>2. /\ Len(inbox') = Len(inbox) + 1
      /\ inbox'[Len(inbox) + 1] = r
      /\ \A i \in 1 .. Len(inbox) : inbox'[i] = inbox[i]
      /\ Len(inbox) \in Nat
  BY <1>1 DEF HostCancels
<1>3. TypeOK'
  BY <1>1 DEF HostCancels, TypeOK, work
<1>4. Clients' /\ Apart' /\ Firing'
  BY DEF HostCancels, work, Inv, Clients, ClientsOf, IsBatch, Apart, Firing
<1>5. Registry'
  <2>1. ASSUME NEW v \in Request, Unspent(v)' PROVE Unspent(v)
    <3>1. CASE v = r
      BY <3>1 DEF HostCancels, Unspent
    <3>2. ASSUME v # r, v \in asked PROVE \E i \in 1 .. Len(inbox) : inbox[i] = v
      <4>1. PICK i \in 1 .. Len(inbox') : inbox'[i] = v
        BY <2>1, <3>2 DEF HostCancels, Unspent
      <4> QED BY <1>2, <3>2, <4>1
    <3> QED BY <3>1, <3>2 DEF Unspent
  <2>2. \A v \in Request : Target(v)' = Target(v) /\ handles'[v] = handles[v]
    BY DEF HostCancels, work, Target
  <2> QED BY <2>1, <2>2 DEF Inv, Registry
<1>6. Inbox'
  <2>1. \A i \in 1 .. Len(inbox) : inbox[i] # r /\ inbox[i] \in asked
    BY DEF Inv, Inbox, HostCancels
  <2>2. \A i \in 1 .. Len(inbox') : i \in 1 .. Len(inbox) \/ i = Len(inbox) + 1
    BY <1>2
  <2>3. \A i \in 1 .. Len(inbox') : inbox'[i] \in asked'
    BY <1>2, <2>1, <2>2 DEF HostCancels
  <2>4. \A i, j \in 1 .. Len(inbox') : inbox'[i] = inbox'[j] => i = j
    BY <1>2, <2>1, <2>2 DEF Inv, Inbox
  <2> QED BY <2>3, <2>4 DEF Inbox
<1> QED BY <1>3, <1>4, <1>5, <1>6 DEF Inv

\* The cancel is taken from the lane, and its action from the registry.
LEMMA TriggerStep ==
  ASSUME Inv, Trigger
  PROVE  Inv'
<1> USE ConstantsOK DEF ConstantsOK
<1> DEFINE r == Head(inbox)
<1>1. TypeOK /\ inbox \in Seq(Request) /\ inbox # <<>>
  BY DEF Inv, TypeOK, Trigger
<1>2. /\ r = inbox[1] /\ 1 \in 1 .. Len(inbox) /\ r \in Request
      /\ Len(inbox') = Len(inbox) - 1 /\ Len(inbox) \in Nat
      /\ \A i \in 1 .. Len(inbox') : inbox'[i] = inbox[i + 1] /\ i + 1 \in 1 .. Len(inbox)
  BY <1>1 DEF Trigger
<1>3. /\ handles' = [handles EXCEPT ![r] = NoBackend]
      /\ firing' = IF handles[r] = NoBackend THEN NoCancel ELSE [of |-> r, at |-> handles[r]]
      /\ UNCHANGED <<kind, stage, client, shot, inTxn, stateSet, timed, leftover, pool>>
      /\ UNCHANGED <<asked, cancelled>>
  BY DEF Trigger, work
<1>4. TypeOK'
  BY <1>1, <1>2, <1>3 DEF Trigger, TypeOK
<1>5. Clients' /\ Apart'
  BY <1>3 DEF Inv, Clients, ClientsOf, IsBatch, Apart
<1>6. Inbox'
  <2>1. \A i \in 1 .. Len(inbox') : inbox'[i] \in asked'
    BY <1>2, <1>3 DEF Inv, Inbox
  <2>2. \A i, j \in 1 .. Len(inbox') : inbox'[i] = inbox'[j] => i = j
    BY <1>2 DEF Inv, Inbox
  <2> QED BY <2>1, <2>2 DEF Inbox
<1>7. Registry'
  <2>1. ASSUME NEW v \in Request, Unspent(v)' PROVE v # r /\ Unspent(v)
    <3>1. ASSUME v \in asked PROVE v # r /\ \E i \in 1 .. Len(inbox) : inbox[i] = v
      <4>1. PICK i \in 1 .. Len(inbox') : inbox'[i] = v
        BY <1>3, <2>1, <3>1 DEF Unspent
      <4>2. inbox[i + 1] = v /\ i + 1 \in 1 .. Len(inbox) /\ i + 1 # 1
        BY <1>2, <4>1
      <4> QED BY <1>2, <4>2 DEF Inv, Inbox
    <3>2. r \in asked
      BY <1>2 DEF Inv, Inbox
    <3> QED BY <3>1, <3>2 DEF Unspent
  <2>2. \A v \in Request : Target(v)' = Target(v)
    BY <1>3 DEF Target
  <2>3. \A v \in Request : handles'[v] = IF v = r THEN NoBackend ELSE handles[v]
    BY <1>1, <1>3 DEF TypeOK
  <2> QED BY <2>1, <2>2, <2>3 DEF Inv, Registry
<1>8. Firing'
  <2> SUFFICES ASSUME handles[r] # NoBackend, firing' = [of |-> r, at |-> handles[r]]
               PROVE  Firing'
    BY <1>3 DEF Firing
  <2>1. handles[r] = Target(r) /\ ClientsOf(r)
    BY <1>2 DEF Inv, Registry, Clients
  <2>2. CASE stage[r] \in Guarded
    <3>1. handles[r] = client[r] /\ client[r] \in Backend
      BY <2>1, <2>2 DEF Target, ClientsOf, Guarded, OnClient
    <3> QED BY <1>3, <3>1 DEF Firing
  <2>3. CASE stage[r] = "shotquery"
    <3>1. handles[r] = shot[r] /\ shot[r] \in OneShot
      BY <2>1, <2>3 DEF Target, ClientsOf, Guarded
    <3> QED BY <1>2, <1>3, <3>1 DEF Firing, Inv, Apart
  <2> QED BY <2>1, <2>2, <2>3 DEF Target
<1> QED BY <1>4, <1>5, <1>6, <1>7, <1>8 DEF Inv

\* What else the server does: an abandoned statement ends, a cancel comes to nothing.
LEMMA ServerStep ==
  ASSUME Inv,
         UNCHANGED <<handles, kind, stage, client, shot, inTxn, stateSet, timed, pool,
                     inbox, asked, cancelled>>,
         leftover' \in SUBSET Backend, firing' \in {firing, NoCancel}
  PROVE  Inv'
<1>1. TypeOK' /\ Clients' /\ Apart' /\ Inbox' /\ Firing'
  BY DEF Inv, TypeOK, Clients, ClientsOf, IsBatch, Apart, Inbox, Firing
<1>2. Registry'
  BY DEF Inv, Registry, Target, Unspent
<1> QED BY <1>1, <1>2 DEF Inv

\* A cancel in progress that strikes a request's statement.
LEMMA StrikeStep ==
  ASSUME Inv, Strike
  PROVE  Inv'
<1>1. PICK v \in Request : StatementEnds(v, FALSE) /\ cancelled' = cancelled \cup {v}
  BY DEF Strike
<1>2. Moves(v)
  BY <1>1, RequestMoves DEF Steps
<1>3. cancelled' \in SUBSET Request
  BY <1>1 DEF Inv, TypeOK
<1> QED BY <1>2, <1>3, RequestStep DEF Strike

\* Every behaviour of the requests and of the cancel lane keeps the invariant.
THEOREM Invariance == Spec => []Inv
<1>1. ASSUME Inv, Next PROVE Inv'
  <2>1. ASSUME NEW r \in Request, Serve(r) PROVE Inv'
    <3>1. Moves(r)
      BY <1>1, <2>1, RequestMoves DEF Serve, Answer, Steps
    <3>2. UNCHANGED lane
      BY <2>1 DEF Serve, Answer, Start, Acquire, Arm, NextStatement, RouteOneShot,
                  ConnectOneShot, OneShotFails, EndBatch, Release, Timeout
    <3>3. cancelled' \in SUBSET Request
      BY <1>1, <3>2 DEF Inv, TypeOK, lane
    <3> QED BY <1>1, <3>1, <3>2, <3>3, RequestStep DEF lane
  <2>2. ASSUME NEW r \in Request, HostCancels(r) PROVE Inv'
    BY <1>1, <2>2, HostCancelsStep
  <2>3. ASSUME NEW b \in Backend, LeftoverEnds(b) PROVE Inv'
    <3>1. leftover' \in SUBSET Backend
      BY <1>1, <2>3 DEF LeftoverEnds, Inv, TypeOK
    <3> QED BY <1>1, <2>3, <3>1, ServerStep DEF LeftoverEnds, lane
  <2>4. CASE Trigger
    BY <1>1, <2>4, TriggerStep
  <2>5. CASE Strike
    BY <1>1, <2>5, StrikeStep
  <2>6. CASE StrikeLeftover
    <3>1. leftover' \in SUBSET Backend
      BY <1>1, <2>6 DEF StrikeLeftover, Inv, TypeOK
    <3> QED BY <1>1, <2>6, <3>1, ServerStep DEF StrikeLeftover
  <2>7. CASE Miss
    BY <1>1, <2>7, ServerStep DEF Miss, work, Inv, TypeOK
  <2> QED BY <1>1, <2>1, <2>2, <2>3, <2>4, <2>5, <2>6, <2>7 DEF Next
<1>2. Inv /\ UNCHANGED vars => Inv'
  BY ServerStep DEF vars, work, lane, Inv, TypeOK
<1> QED BY <1>1, <1>2, Initially, PTL DEF Spec

-----------------------------------------------------------------------------
(* What it is for. *)

\* The state of every request, of the lane and of the registry is well formed.
THEOREM TypeCorrect == Spec => []TypeOK
<1>1. Inv => TypeOK
  BY DEF Inv
<1> QED BY <1>1, Invariance, PTL

\* The registry names a client its request holds, never one in the pool
\* (cancel.rs:66-91, query.rs:153-157).
THEOREM Truthful == Spec => []HandleTruthful
<1>1. Inv => HandleTruthful
  <2> SUFFICES ASSUME Inv, NEW r \in Request, handles[r] # NoBackend
               PROVE  handles[r] \in {client[r], shot[r]} /\ handles[r] \notin pool
    BY DEF HandleTruthful
  <2>1. handles[r] = Target(r) /\ ClientsOf(r) /\ client[r] \notin pool
    BY DEF Inv, Registry, Clients, Apart
  <2>2. shot[r] # NoBackend => shot[r] \notin pool
    BY ConstantsOK DEF ConstantsOK, Inv, TypeOK
  <2> QED BY <2>1, <2>2 DEF Target
<1> QED BY <1>1, Invariance, PTL

\* A statement in flight is the one the registry would cancel, until the request's
\* cancel is used (query.rs:261-271).
THEOREM Covered == Spec => []Cancellable
<1>1. Inv => Cancellable
  <2> SUFFICES ASSUME Inv, NEW r \in Request, Unspent(r),
                      stage[r] \in {"setup", "prepare", "query", "shotquery"}
               PROVE  handles[r] = RunsOn(r)
    BY DEF Cancellable
  <2>1. handles[r] = Target(r)
    BY DEF Inv, Registry
  <2> QED BY <2>1 DEF Target, RunsOn, Guarded
<1> QED BY <1>1, Invariance, PTL

\* A cancel strikes its own request, or one that has borrowed its connection after it
\* was over; what it strikes ends, unless it was the prepare (query.rs:370-377).
THEOREM Strikes == Spec => StrikesRight
<1>1. ASSUME Inv, [Next]_vars, NEW v \in cancelled' \ cancelled
      PROVE  /\ v # firing.of => stage[firing.of] = "done" /\ firing.at \in Backend
             /\ ~IsBatch(v) /\ stage[v] # "prepare" => RunsOn(v)' = NoBackend
  <2>1. CASE UNCHANGED cancelled
    BY <1>1, <2>1
  <2>2. CASE Strike
    <3>1. /\ v \in Request /\ firing # NoCancel
          /\ RunsOn(v) = firing.at /\ StatementEnds(v, FALSE)
      BY <1>1, <2>2 DEF Strike
    <3>2. TypeOK /\ ClientsOf(v) /\ firing.of \in Request /\ firing.at \in Backend \cup OneShot
      BY <1>1, <3>1 DEF Inv, TypeOK, Clients
    <3>3. ASSUME v # firing.of PROVE stage[firing.of] = "done" /\ firing.at \in Backend
      <4>1. CASE stage[v] = "shotquery"
        BY <1>1, <3>1, <3>2, <3>3, <4>1 DEF RunsOn, Inv, Firing, ClientsOf
      <4>2. CASE stage[v] # "shotquery"
        <5>1. client[v] = firing.at /\ client[v] \in Backend
          BY ConstantsOK, <3>1, <3>2, <4>2 DEF ConstantsOK, RunsOn, ClientsOf, OnClient
        <5> QED BY ConstantsOK, <1>1, <3>1, <3>2, <3>3, <5>1
                DEF ConstantsOK, Inv, Apart, Firing
      <4> QED BY <4>1, <4>2
    <3>4. ASSUME ~IsBatch(v), stage[v] # "prepare" PROVE RunsOn(v)' = NoBackend
      BY <3>1, <3>2, <3>4 DEF StatementEnds, SetupEnds, PrepareEnds, QueryEnds, ShotEnds,
                              RollbackEnds, Over, GoTo, RunsOn, TypeOK
    <3> QED BY <3>3, <3>4
  <2>3. CASE \E r \in Request : Serve(r) \/ HostCancels(r)
    BY <2>1, <2>3 DEF Serve, Answer, Start, Acquire, Arm, NextStatement, RouteOneShot,
         ConnectOneShot, OneShotFails, EndBatch, Release, Timeout, HostCancels, lane
  <2>4. CASE (\E b \in Backend : LeftoverEnds(b)) \/ Trigger \/ StrikeLeftover \/ Miss
    BY <2>1, <2>4 DEF LeftoverEnds, Trigger, StrikeLeftover, Miss, lane
  <2> QED BY <1>1, <2>1, <2>2, <2>3, <2>4 DEF Next, vars, lane
<1>2. Inv /\ [Next]_vars =>
        [\A v \in cancelled' \ cancelled :
           /\ v # firing.of => stage[firing.of] = "done" /\ firing.at \in Backend
           /\ ~IsBatch(v) /\ stage[v] # "prepare" => RunsOn(v)' = NoBackend]_vars
  BY <1>1
<1> QED BY <1>2, Invariance, PTL DEF Spec, StrikesRight
=============================================================================
