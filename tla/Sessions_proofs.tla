--------------------------- MODULE Sessions_proofs ---------------------------
(***************************************************************************)
(* Theorems about Sessions, for every set of sessions, workers, slots and  *)
(* connections.                                                            *)
(*                                                                         *)
(* Last, what the tabs are promised as long as the host does not shut the  *)
(* plugin down while it sends requests: a kept transaction is kept for its *)
(* session, is never ended by closing its connection, and Sessions         *)
(* implements TabTransactions.                                             *)
(***************************************************************************)
EXTENDS Sessions, TLAPS

\* What the plugin's own rollback leaves behind, and what a server can answer:
\* a statement never makes a connection vanish, nor one out of nothing.
LEMMA RollbackType ==
  ASSUME NEW t \in TxnState
  PROVE  /\ AfterRollback(t) \in TxnState
         /\ t # "absent" => AfterRollback(t) # "absent"
  BY DEF AfterRollback, TxnState

LEMMA OutcomeType ==
  ASSUME NEW t \in TxnState, NEW e \in TransactionEffect, NEW r \in BOOLEAN,
         NEW o \in ServerOutcomes(t, e, r)
  PROVE  /\ o.ok \in BOOLEAN
         /\ o.txn \in TxnState \ {"absent"}
  BY DEF ServerOutcomes, Outcome, TxnState, TransactionEffect

LEMMA AnswerType ==
  ASSUME NEW t \in TxnState, NEW e \in TransactionEffect, NEW r \in BOOLEAN,
         NEW o \in ServerOutcomes(t, e, r), NEW b \in BOOLEAN
  PROVE  /\ TxnAfterStatement(o, e, b) \in TxnState \ {"absent"}
         /\ InTransactionAfterOutcome(e, o.ok, b) \in BOOLEAN
  <1>1. o.ok \in BOOLEAN /\ o.txn \in TxnState \ {"absent"}
    BY OutcomeType
  <1>2. TxnAfterStatement(o, e, b) \in TxnState \ {"absent"}
    BY <1>1, RollbackType DEF TxnAfterStatement
  <1>3. InTransactionAfterOutcome(e, o.ok, b) \in BOOLEAN
    BY <1>1 DEF InTransactionAfterOutcome, InTransactionAfter, TxnAborted
  <1> QED
    BY <1>2, <1>3

-----------------------------------------------------------------------------
LEMMA TypeInit == Init => TypeOK
  BY ConstantsOK DEF Init, TypeOK, PC, TxnState, Job, NoJob, Queue

\* Appending to and taking from a mutex's queue leaves a queue of workers.
LEMMA QueueType ==
  ASSUME NEW q \in Queue, NEW w \in Worker
  PROVE  /\ Append(q, w) \in Queue
         /\ q # <<>> => Head(q) \in Worker /\ Tail(q) \in Queue
  BY DEF Queue

\* A worker past lock() has its slot; one with a client to use has its client.
LEMMA Has ==
  ASSUME Structure, NEW w \in Worker
  PROVE  /\ pc[w] \in {"cloned", "locking", "dropping"} \/ Inside(w) => ref[w] \in Slot
         /\ pc[w] \in {"setup", "running", "rollback"} =>
              held[w] \in Conn /\ txn[held[w]] \in TxnState \ {"absent"}
  BY DEF Structure, TypeOK, OneHome, HandlerState, Inside

\* What a janitor does to slots that exist leaves pins and bags of connections.
LEMMA TakePinsType ==
  ASSUME TypeOK, NEW j \in Janitor, NEW S \in SUBSET Session, TakePins(j, S),
         \A s \in S : smap[s] \in Slot
  PROVE  /\ bag' \in [Janitor -> SUBSET Conn]
         /\ pinned' \in [Slot -> Conn \cup {NoConn}]
         /\ overdue' \in [Slot -> BOOLEAN]
  <1> DEFINE slots == {smap[s] : s \in S}
  <1>1. {pinned[x] : x \in slots} \ {NoConn} \subseteq Conn
    BY DEF TypeOK
  <1>2. bag' \in [Janitor -> SUBSET Conn]
    BY <1>1 DEF TypeOK, TakePins
  <1>3. pinned' \in [Slot -> Conn \cup {NoConn}] /\ overdue' \in [Slot -> BOOLEAN]
    BY DEF TypeOK, TakePins
  <1> QED
    BY <1>2, <1>3

LEMMA TypeStep == Structure /\ [Next]_vars => TypeOK'
  <1> SUFFICES ASSUME Structure, [Next]_vars PROVE TypeOK'
    OBVIOUS
  <1>0. TypeOK
    BY DEF Structure
  <1> USE ConstantsOK DEF TypeOK, PC, Job, Kind, slotVars, workVars
  <1>1. ASSUME NEW w \in Worker, NEW s \in Session, NEW k \in {"run", "release"},
               Lookup(w, k, s)
        PROVE  TypeOK'
    BY <1>0, <1>1 DEF Lookup
  <1>2. ASSUME NEW w \in Worker, NEW k \in {"run", "single"}, StartSessionless(w, k)
        PROVE  TypeOK'
    BY <1>0, <1>2 DEF StartSessionless
  <1>3. ASSUME NEW w \in Worker, Enqueue(w) PROVE TypeOK'
    <2>1. ref[w] \in Slot /\ pc[w] = "cloned"
      BY <1>3, Has DEF Enqueue
    <2> DEFINE q == Append(waiters[ref[w]], w)
    <2>3. q \in Queue
      BY <1>0, <2>1, QueueType
    <2>4. waiters' = waiters \/ waiters' = [waiters EXCEPT ![ref[w]] = q]
      BY <1>3 DEF Enqueue
    <2> HIDE DEF q
    <2>5. waiters' \in [Slot -> Queue]
      BY <1>0, <2>3, <2>4
    <2>6. owner' \in [Slot -> Worker \cup {NoWorker}]
      BY <1>0, <1>3 DEF Enqueue
    <2> QED
      BY <1>0, <1>3, <2>5, <2>6 DEF Enqueue
  <1>4. ASSUME NEW w \in Worker, TakePinned(w) PROVE TypeOK'
    <2>1. ref[w] \in Slot
      BY <1>4, Has DEF TakePinned, HasLock
    <2> QED
      BY <1>0, <1>4, <2>1 DEF TakePinned
  <1>5. ASSUME NEW w \in Worker, ReleaseTake(w) PROVE TypeOK'
    <2>1. ref[w] \in Slot
      BY <1>5, Has DEF ReleaseTake, HasLock
    <2> QED
      BY <1>0, <1>5, <2>1 DEF ReleaseTake
  <1>6. ASSUME NEW w \in Worker, DropGuard(w) PROVE TypeOK'
    <2> DEFINE x == ref[w]
    <2>1. x \in Slot
      BY <1>6, Has DEF DropGuard
    <2> DEFINE first == Head(waiters[x])
               rest == Tail(waiters[x])
    <2>2. waiters[x] # <<>> => first \in Worker /\ rest \in Queue
      BY <1>0, <2>1, QueueType
    <2>3. \/ waiters' = waiters /\ owner' = [owner EXCEPT ![x] = NoWorker]
          \/ /\ waiters[x] # <<>>
             /\ waiters' = [waiters EXCEPT ![x] = rest]
             /\ owner' = [owner EXCEPT ![x] = first]
      BY <1>6 DEF DropGuard
    <2> HIDE DEF first, rest
    <2>4. owner' \in [Slot -> Worker \cup {NoWorker}] /\ waiters' \in [Slot -> Queue]
      BY <1>0, <2>1, <2>2, <2>3
    <2>5. /\ pinned' \in [Slot -> Conn \cup {NoConn}]
          /\ overdue' \in [Slot -> BOOLEAN]
          /\ txn' \in [Conn -> TxnState]
      BY <1>0, <1>6, <2>1 DEF DropGuard, CloseIn, TxnState
    <2>6. /\ pc' \in [Worker -> PC]
          /\ job' \in [Worker -> Job \cup {NoJob}]
          /\ ref' \in [Worker -> Slot \cup {NoSlot}]
      BY <1>0, <1>6 DEF DropGuard
    <2> QED
      BY <1>0, <1>6, <2>4, <2>5, <2>6 DEF DropGuard
  <1>7. ASSUME NEW w \in Worker, GetClient(w) PROVE TypeOK'
    <2>1. txn' \in [Conn -> TxnState]
      BY <1>0, <1>7 DEF GetClient, TxnState
    <2>2. PICK c \in Conn : held' = [held EXCEPT ![w] = c]
      BY <1>0, <1>7 DEF GetClient, Absent
    <2>3. pool' \subseteq pool
      BY <1>7 DEF GetClient
    <2> QED
      BY <1>0, <1>7, <2>1, <2>2, <2>3 DEF GetClient
  <1>8. ASSUME NEW w \in Worker, GetFails(w) PROVE TypeOK'
    BY <1>0, <1>8 DEF GetFails, AfterWork
  <1>9. ASSUME NEW w \in Worker, SetupDone(w) PROVE TypeOK'
    BY <1>0, <1>9 DEF SetupDone
  <1>10. ASSUME NEW w \in Worker, SetupFails(w) PROVE TypeOK'
    <2>1. held[w] \in Conn
      BY <1>10, Has DEF SetupFails
    <2> QED
      BY <1>0, <1>10, <2>1 DEF SetupFails, AfterWork
  <1>11. ASSUME NEW w \in Worker, ExecStatement(w) PROVE TypeOK'
    <2>1. held[w] \in Conn /\ txn[held[w]] \in TxnState /\ inTxn[w] \in BOOLEAN
      BY <1>0, <1>11, Has DEF ExecStatement
    <2>2. PICK e \in TransactionEffect : \E o \in ServerOutcomes(txn[held[w]], e, EndersRejected) :
            /\ txn' = [txn EXCEPT ![held[w]] = TxnAfterStatement(o, e, inTxn[w])]
            /\ inTxn' = [inTxn EXCEPT ![w] = InTransactionAfterOutcome(e, o.ok, inTxn[w])]
      BY <1>11 DEF ExecStatement
    <2>3. PICK o \in ServerOutcomes(txn[held[w]], e, EndersRejected) :
            /\ txn' = [txn EXCEPT ![held[w]] = TxnAfterStatement(o, e, inTxn[w])]
            /\ inTxn' = [inTxn EXCEPT ![w] = InTransactionAfterOutcome(e, o.ok, inTxn[w])]
      BY <2>2
    <2>4. /\ TxnAfterStatement(o, e, inTxn[w]) \in TxnState
          /\ InTransactionAfterOutcome(e, o.ok, inTxn[w]) \in BOOLEAN
      BY <2>1, AnswerType
    <2> QED
      BY <1>0, <1>11, <2>1, <2>3, <2>4 DEF ExecStatement
  <1>12. ASSUME NEW w \in Worker, PinClient(w) PROVE TypeOK'
    <2>1. held[w] \in Conn /\ ref[w] \in Slot
      BY <1>12, Has DEF PinClient, Inside
    <2> QED
      BY <1>0, <1>12, <2>1 DEF PinClient
  <1>13. ASSUME NEW w \in Worker, EndSessionless(w) PROVE TypeOK'
    BY <1>0, <1>13 DEF EndSessionless
  <1>14. ASSUME NEW w \in Worker, ReturnClient(w) PROVE TypeOK'
    <2>1. held[w] \in Conn
      BY <1>14, Has DEF ReturnClient
    <2> QED
      BY <1>0, <1>14, <2>1 DEF ReturnClient, AfterWork
  <1>15. ASSUME NEW w \in Worker, ExecSingle(w) PROVE TypeOK'
    <2>1. held[w] \in Conn /\ txn[held[w]] \in TxnState
      BY <1>0, <1>15, Has DEF ExecSingle
    <2>2. PICK e \in SessionlessEffects :
            \E o \in ServerOutcomes(txn[held[w]], e, EndersRejected) :
              txn' = [txn EXCEPT ![held[w]] = TxnAfterStatement(o, e, FALSE)]
      BY <1>15 DEF ExecSingle
    <2>3. PICK o \in ServerOutcomes(txn[held[w]], e, EndersRejected) :
            txn' = [txn EXCEPT ![held[w]] = TxnAfterStatement(o, e, FALSE)]
      BY <2>2
    <2>4. TxnAfterStatement(o, e, FALSE) \in TxnState
      BY <2>1, AnswerType
    <2> QED
      BY <1>0, <1>15, <2>1, <2>3, <2>4 DEF ExecSingle
  <1>16. ASSUME NEW w \in Worker, RollbackAndRelease(w) PROVE TypeOK'
    <2>1. held[w] \in Conn /\ AfterRollback(txn[held[w]]) \in TxnState
      BY <1>16, Has, RollbackType DEF RollbackAndRelease
    <2> QED
      BY <1>0, <1>16, <2>1 DEF RollbackAndRelease
  <1>17. CASE Sweep
    <2>1. smap' \in [Session -> Slot \cup {NoSlot}]
      BY <1>0, <1>17 DEF Sweep
    <2>2. \A s \in {r \in Session : Expired(r)} : smap[s] \in Slot
      BY <1>0 DEF Expired, Unlocked
    <2>3. /\ bag' \in [Janitor -> SUBSET Conn]
          /\ pinned' \in [Slot -> Conn \cup {NoConn}]
          /\ overdue' \in [Slot -> BOOLEAN]
      BY <1>0, <1>17, <2>2, TakePinsType DEF Sweep, Janitor
    <2> QED
      BY <1>0, <1>17, <2>1, <2>3 DEF Sweep
  <1>18. CASE ReleaseAll
    <2>1. smap' \in [Session -> Slot \cup {NoSlot}]
      BY <1>0, <1>18 DEF ReleaseAll
    <2>2. \A s \in {r \in Session : Unlocked(r)} : smap[s] \in Slot
      BY <1>0 DEF Unlocked
    <2>3. /\ bag' \in [Janitor -> SUBSET Conn]
          /\ pinned' \in [Slot -> Conn \cup {NoConn}]
          /\ overdue' \in [Slot -> BOOLEAN]
      BY <1>0, <1>18, <2>2, TakePinsType DEF ReleaseAll, Janitor
    <2> QED
      BY <1>0, <1>18, <2>1, <2>3 DEF ReleaseAll
  <1>19. ASSUME NEW j \in Janitor, JanitorRelease(j) PROVE TypeOK'
    BY <1>0, <1>19, RollbackType DEF JanitorRelease
  <1>20. ASSUME NEW x \in Slot, GrowOverdue(x) PROVE TypeOK'
    BY <1>0, <1>20 DEF GrowOverdue
  <1>21. ASSUME NEW c \in Conn, ConnDies(c) PROVE TypeOK'
    BY <1>0, <1>21 DEF ConnDies, TxnState
  <1>22. CASE UNCHANGED vars
    BY <1>0, <1>22 DEF vars
  <1> QED
    BY <1>1, <1>2, <1>3, <1>4, <1>5, <1>6, <1>7, <1>8, <1>9, <1>10, <1>11, <1>12,
       <1>13, <1>14, <1>15, <1>16, <1>17, <1>18, <1>19, <1>20, <1>21, <1>22
       DEF Next, Request, Step

\* What a handler has follows its place in the handler.
LEMMA HandlerStep == Structure /\ [Next]_vars => HandlerState'
  <1> SUFFICES ASSUME Structure, [Next]_vars PROVE HandlerState'
    OBVIOUS
  <1>0. TypeOK /\ HandlerState
    BY DEF Structure
  <1> USE ConstantsOK DEF TypeOK, PC, Job, Kind, NoJob, slotVars, workVars, HandlerState, Inside, WithSession
  <1>1. ASSUME NEW w \in Worker, NEW s \in Session, NEW k \in {"run", "release"},
               Lookup(w, k, s)
        PROVE  HandlerState'
    BY <1>0, <1>1 DEF Lookup
  <1>2. ASSUME NEW w \in Worker, NEW k \in {"run", "single"}, StartSessionless(w, k)
        PROVE  HandlerState'
    BY <1>0, <1>2 DEF StartSessionless
  <1>3. ASSUME NEW w \in Worker, Enqueue(w) PROVE HandlerState'
    BY <1>0, <1>3 DEF Enqueue
  <1>4. ASSUME NEW w \in Worker, TakePinned(w) PROVE HandlerState'
    BY <1>0, <1>4 DEF TakePinned, HasLock
  <1>5. ASSUME NEW w \in Worker, ReleaseTake(w) PROVE HandlerState'
    BY <1>0, <1>5 DEF ReleaseTake, HasLock
  <1>6. ASSUME NEW w \in Worker, DropGuard(w) PROVE HandlerState'
    BY <1>0, <1>6 DEF DropGuard
  <1>7. ASSUME NEW w \in Worker, GetClient(w) PROVE HandlerState'
    BY <1>0, <1>7 DEF GetClient, Absent
  <1>8. ASSUME NEW w \in Worker, GetFails(w) PROVE HandlerState'
    BY <1>0, <1>8 DEF GetFails, AfterWork
  <1>9. ASSUME NEW w \in Worker, SetupDone(w) PROVE HandlerState'
    BY <1>0, <1>9 DEF SetupDone
  <1>10. ASSUME NEW w \in Worker, SetupFails(w) PROVE HandlerState'
    BY <1>0, <1>10 DEF SetupFails, AfterWork
  <1>11. ASSUME NEW w \in Worker, ExecStatement(w) PROVE HandlerState'
    BY <1>0, <1>11 DEF ExecStatement
  <1>12. ASSUME NEW w \in Worker, PinClient(w) PROVE HandlerState'
    BY <1>0, <1>12 DEF PinClient
  <1>13. ASSUME NEW w \in Worker, EndSessionless(w) PROVE HandlerState'
    BY <1>0, <1>13 DEF EndSessionless
  <1>14. ASSUME NEW w \in Worker, ReturnClient(w) PROVE HandlerState'
    BY <1>0, <1>14 DEF ReturnClient, AfterWork
  <1>15. ASSUME NEW w \in Worker, ExecSingle(w) PROVE HandlerState'
    BY <1>0, <1>15 DEF ExecSingle
  <1>16. ASSUME NEW w \in Worker, RollbackAndRelease(w) PROVE HandlerState'
    BY <1>0, <1>16 DEF RollbackAndRelease
  <1>17. CASE Sweep
    BY <1>0, <1>17 DEF Sweep
  <1>18. CASE ReleaseAll
    BY <1>0, <1>18 DEF ReleaseAll
  <1>19. ASSUME NEW j \in Janitor, JanitorRelease(j) PROVE HandlerState'
    BY <1>0, <1>19 DEF JanitorRelease
  <1>20. ASSUME NEW x \in Slot, GrowOverdue(x) PROVE HandlerState'
    BY <1>0, <1>20 DEF GrowOverdue
  <1>21. ASSUME NEW c \in Conn, ConnDies(c) PROVE HandlerState'
    BY <1>0, <1>21 DEF ConnDies
  <1>22. CASE UNCHANGED vars
    BY <1>0, <1>22 DEF vars
  <1> QED
    BY <1>1, <1>2, <1>3, <1>4, <1>5, <1>6, <1>7, <1>8, <1>9, <1>10, <1>11,
       <1>12, <1>13, <1>14, <1>15, <1>16, <1>17, <1>18, <1>19, <1>20, <1>21,
       <1>22
       DEF Next, Request, Step

\* Of the handlers past the lock of one slot there is one.
LEMMA Exclusive ==
  ASSUME Structure, NEW v \in Worker, NEW w \in Worker, Inside(v), Inside(w),
         ref[v] = ref[w]
  PROVE  v = w
  BY DEF Structure, Locking

\* While a run uses a client, its slot stays empty: only the run itself pins.
LEMMA SlotEmptiedStep == Structure /\ [Next]_vars => SlotEmptied'
  <1> SUFFICES ASSUME Structure, [Next]_vars PROVE SlotEmptied'
    OBVIOUS
  <1>0. TypeOK /\ HandlerState /\ SlotEmptied
    BY DEF Structure
  <1> USE ConstantsOK DEF TypeOK, PC, slotVars, workVars, SlotEmptied, HandlerState, Inside, WithSession
  <1>1. ASSUME NEW w \in Worker, NEW s \in Session, NEW k \in {"run", "release"},
               Lookup(w, k, s)
        PROVE  SlotEmptied'
    BY <1>0, <1>1 DEF Lookup
  <1>2. ASSUME NEW w \in Worker, NEW k \in {"run", "single"}, StartSessionless(w, k)
        PROVE  SlotEmptied'
    BY <1>0, <1>2 DEF StartSessionless
  <1>3. ASSUME NEW w \in Worker, Enqueue(w) PROVE SlotEmptied'
    BY <1>0, <1>3 DEF Enqueue
  <1>4. ASSUME NEW w \in Worker, TakePinned(w) PROVE SlotEmptied'
    BY <1>0, <1>4 DEF TakePinned, HasLock
  <1>5. ASSUME NEW w \in Worker, ReleaseTake(w) PROVE SlotEmptied'
    BY <1>0, <1>5 DEF ReleaseTake, HasLock
  <1>6. ASSUME NEW w \in Worker, DropGuard(w) PROVE SlotEmptied'
    BY <1>0, <1>6 DEF DropGuard
  <1>7. ASSUME NEW w \in Worker, GetClient(w) PROVE SlotEmptied'
    BY <1>0, <1>7 DEF GetClient, Absent
  <1>8. ASSUME NEW w \in Worker, GetFails(w) PROVE SlotEmptied'
    BY <1>0, <1>8 DEF GetFails, AfterWork
  <1>9. ASSUME NEW w \in Worker, SetupDone(w) PROVE SlotEmptied'
    BY <1>0, <1>9 DEF SetupDone
  <1>10. ASSUME NEW w \in Worker, SetupFails(w) PROVE SlotEmptied'
    BY <1>0, <1>10 DEF SetupFails, AfterWork
  <1>11. ASSUME NEW w \in Worker, ExecStatement(w) PROVE SlotEmptied'
    BY <1>0, <1>11 DEF ExecStatement
  <1>12. ASSUME NEW w \in Worker, PinClient(w) PROVE SlotEmptied'
    BY <1>0, <1>12, Exclusive DEF PinClient
  <1>13. ASSUME NEW w \in Worker, EndSessionless(w) PROVE SlotEmptied'
    BY <1>0, <1>13 DEF EndSessionless
  <1>14. ASSUME NEW w \in Worker, ReturnClient(w) PROVE SlotEmptied'
    BY <1>0, <1>14 DEF ReturnClient, AfterWork
  <1>15. ASSUME NEW w \in Worker, ExecSingle(w) PROVE SlotEmptied'
    BY <1>0, <1>15 DEF ExecSingle
  <1>16. ASSUME NEW w \in Worker, RollbackAndRelease(w) PROVE SlotEmptied'
    BY <1>0, <1>16 DEF RollbackAndRelease
  <1>17. CASE Sweep
    BY <1>0, <1>17 DEF Sweep, TakePins
  <1>18. CASE ReleaseAll
    BY <1>0, <1>18 DEF ReleaseAll, TakePins
  <1>19. ASSUME NEW j \in Janitor, JanitorRelease(j) PROVE SlotEmptied'
    BY <1>0, <1>19 DEF JanitorRelease
  <1>20. ASSUME NEW x \in Slot, GrowOverdue(x) PROVE SlotEmptied'
    BY <1>0, <1>20 DEF GrowOverdue
  <1>21. ASSUME NEW c \in Conn, ConnDies(c) PROVE SlotEmptied'
    BY <1>0, <1>21 DEF ConnDies
  <1>22. CASE UNCHANGED vars
    BY <1>0, <1>22 DEF vars
  <1> QED
    BY <1>1, <1>2, <1>3, <1>4, <1>5, <1>6, <1>7, <1>8, <1>9, <1>10, <1>11,
       <1>12, <1>13, <1>14, <1>15, <1>16, <1>17, <1>18, <1>19, <1>20, <1>21,
       <1>22
       DEF Next, Request, Step

\* Worker w checks out client c: from the pool, or newly connected; the dropped
\* ones leave the pool for good.
Given(w, c, dropped) ==
  /\ held' = [held EXCEPT ![w] = c]
  /\ pool' = pool \ (dropped \cup {c})
  /\ c \in pool \cup Absent
  /\ \A d \in dropped : txn[d] = "dead"
  /\ txn'[c] # "absent" /\ txn'[c] \in {txn[c], "idle"}
  /\ \A d \in Conn : d # c /\ d \notin dropped => txn'[d] = txn[d]

LEMMA ClientGiven ==
  ASSUME TypeOK, OneHome, NEW w \in Worker, GetClient(w)
  PROVE  \E c \in Conn, dropped \in SUBSET pool : Given(w, c, dropped)
  <1>1. PICK dropped \in SUBSET {c \in pool : txn[c] = "dead"} :
          \/ \E c \in pool \ dropped :
               /\ txn[c] # "dead"
               /\ held' = [held EXCEPT ![w] = c]
               /\ pool' = pool \ (dropped \cup {c})
               /\ txn' = [d \in Conn |-> IF d \in dropped THEN "absent" ELSE txn[d]]
          \/ /\ pool = dropped
             /\ \E c \in Absent \cup dropped :
                  /\ held' = [held EXCEPT ![w] = c]
                  /\ pool' = {}
                  /\ txn' = [d \in Conn |-> IF d = c THEN "idle"
                                            ELSE IF d \in dropped THEN "absent"
                                            ELSE txn[d]]
    BY DEF GetClient
  <1>2. /\ dropped \subseteq pool /\ pool \subseteq Conn
        /\ \A d \in dropped : txn[d] = "dead"
        /\ \A d \in pool : txn[d] # "absent"
    BY DEF TypeOK, OneHome
  <1>3. ASSUME NEW c \in pool \ dropped,
               held' = [held EXCEPT ![w] = c],
               pool' = pool \ (dropped \cup {c}),
               txn' = [d \in Conn |-> IF d \in dropped THEN "absent" ELSE txn[d]]
        PROVE  c \in Conn /\ Given(w, c, dropped)
    BY <1>2, <1>3 DEF Given
  <1>4. ASSUME pool = dropped, NEW c \in Absent \cup dropped,
               held' = [held EXCEPT ![w] = c], pool' = {},
               txn' = [d \in Conn |-> IF d = c THEN "idle"
                                       ELSE IF d \in dropped THEN "absent"
                                       ELSE txn[d]]
        PROVE  c \in Conn /\ Given(w, c, dropped)
    <2>1. c \in Conn
      BY <1>2, <1>4 DEF Absent
    <2>2. pool' = pool \ (dropped \cup {c})
      BY <1>4
    <2> QED
      BY <1>2, <1>4, <2>1, <2>2 DEF Given
  <1> QED
    BY <1>1, <1>2, <1>3, <1>4

\* A connection is handed from one place to another, never copied or lost alive.
LEMMA OneHomeStep == Structure /\ [Next]_vars => OneHome'
  <1> SUFFICES ASSUME Structure, [Next]_vars PROVE OneHome'
    OBVIOUS
  <1>0. TypeOK /\ OneHome /\ HandlerState /\ SlotEmptied
    BY DEF Structure
  <1> USE ConstantsOK DEF TypeOK, slotVars, workVars, OneHome
  <1>1. ASSUME NEW w \in Worker, NEW s \in Session, NEW k \in {"run", "release"},
               Lookup(w, k, s)
        PROVE  OneHome'
    BY <1>0, <1>1 DEF Lookup
  <1>2. ASSUME NEW w \in Worker, NEW k \in {"run", "single"}, StartSessionless(w, k)
        PROVE  OneHome'
    BY <1>0, <1>2 DEF StartSessionless
  <1>3. ASSUME NEW w \in Worker, Enqueue(w) PROVE OneHome'
    BY <1>0, <1>3 DEF Enqueue
  <1>4. ASSUME NEW w \in Worker, TakePinned(w) PROVE OneHome'
    <2>1. ref[w] \in Slot
      BY <1>4, Has DEF TakePinned, HasLock
    <2>2. held[w] = NoConn
      BY <1>0, <1>4 DEF TakePinned, HasLock, HandlerState
    <2> QED
      BY <1>0, <1>4, <2>1, <2>2 DEF TakePinned
  <1>5. ASSUME NEW w \in Worker, ReleaseTake(w) PROVE OneHome'
    <2>1. ref[w] \in Slot
      BY <1>5, Has DEF ReleaseTake, HasLock
    <2>2. held[w] = NoConn
      BY <1>0, <1>5 DEF ReleaseTake, HasLock, HandlerState
    <2> QED
      BY <1>0, <1>5, <2>1, <2>2 DEF ReleaseTake
  <1>6. ASSUME NEW w \in Worker, DropGuard(w) PROVE OneHome'
    <2>1. ref[w] \in Slot
      BY <1>6, Has DEF DropGuard
    <2>2. \/ txn' = txn /\ pinned' = pinned
          \/ /\ txn' = CloseIn(ref[w])
             /\ pinned' = [pinned EXCEPT ![ref[w]] = NoConn]
      BY <1>6 DEF DropGuard
    <2>3. held' = held /\ bag' = bag /\ pool' = pool
      BY <1>6 DEF DropGuard
    <2> QED
      BY <1>0, <2>1, <2>2, <2>3 DEF CloseIn
  <1>7. ASSUME NEW w \in Worker, GetClient(w) PROVE OneHome'
    <2>1. held[w] = NoConn /\ bag' = bag /\ pinned' = pinned
      BY <1>0, <1>7 DEF GetClient, HandlerState
    <2>2. PICK c \in Conn, dropped \in SUBSET pool : Given(w, c, dropped)
      BY <1>0, <1>7, ClientGiven
    <2> QED
      BY <1>0, <2>1, <2>2 DEF Given, Absent
  <1>8. ASSUME NEW w \in Worker, GetFails(w) PROVE OneHome'
    BY <1>0, <1>8 DEF GetFails
  <1>9. ASSUME NEW w \in Worker, SetupDone(w) PROVE OneHome'
    BY <1>0, <1>9 DEF SetupDone
  <1>10. ASSUME NEW w \in Worker, SetupFails(w) PROVE OneHome'
    <2>1. held[w] # NoConn /\ txn[held[w]] # "absent"
      BY <1>0, <1>10, Has DEF SetupFails
    <2> QED
      BY <1>0, <1>10, <2>1 DEF SetupFails
  <1>11. ASSUME NEW w \in Worker, ExecStatement(w) PROVE OneHome'
    <2>1. /\ held[w] \in Conn /\ txn[held[w]] \in TxnState /\ inTxn[w] \in BOOLEAN
          /\ EndersRejected \in BOOLEAN
      BY <1>0, <1>11, Has DEF ExecStatement
    <2>2. PICK t \in TxnState \ {"absent"} : txn' = [txn EXCEPT ![held[w]] = t]
      BY <1>11, <2>1, AnswerType DEF ExecStatement
    <2> QED
      BY <1>0, <1>11, <2>2 DEF ExecStatement
  <1>12. ASSUME NEW w \in Worker, PinClient(w) PROVE OneHome'
    <2>1. ref[w] \in Slot /\ held[w] \in Conn
      BY <1>12, Has DEF PinClient, Inside
    <2>2. pinned[ref[w]] = NoConn
      BY <1>0, <1>12 DEF PinClient, SlotEmptied
    <2>3. pool' = pool
      BY <1>12, <2>2 DEF PinClient
    <2> QED
      BY <1>0, <1>12, <2>1, <2>2, <2>3 DEF PinClient
  <1>13. ASSUME NEW w \in Worker, EndSessionless(w) PROVE OneHome'
    BY <1>0, <1>13 DEF EndSessionless
  <1>14. ASSUME NEW w \in Worker, ReturnClient(w) PROVE OneHome'
    <2>1. held[w] # NoConn /\ txn[held[w]] # "absent"
      BY <1>0, <1>14, Has DEF ReturnClient
    <2> QED
      BY <1>0, <1>14, <2>1 DEF ReturnClient
  <1>15. ASSUME NEW w \in Worker, ExecSingle(w) PROVE OneHome'
    <2>1. /\ held[w] \in Conn /\ txn[held[w]] \in TxnState
          /\ EndersRejected \in BOOLEAN /\ SessionlessEffects \subseteq TransactionEffect
      BY <1>0, <1>15, Has DEF ExecSingle
    <2>2. PICK t \in TxnState \ {"absent"} : txn' = [txn EXCEPT ![held[w]] = t]
      BY <1>15, <2>1, AnswerType DEF ExecSingle
    <2>3. /\ pool' = pool \cup {held[w]} /\ held' = [held EXCEPT ![w] = NoConn]
          /\ pinned' = pinned /\ bag' = bag
      BY <1>15 DEF ExecSingle
    <2> QED
      BY <1>0, <2>1, <2>2, <2>3
  <1>16. ASSUME NEW w \in Worker, RollbackAndRelease(w) PROVE OneHome'
    <2>1. held[w] \in Conn /\ AfterRollback(txn[held[w]]) # "absent"
      BY <1>0, <1>16, Has, RollbackType DEF RollbackAndRelease
    <2> QED
      BY <1>0, <1>16, <2>1 DEF RollbackAndRelease
  <1>17. CASE Sweep
    BY <1>0, <1>17 DEF Sweep, TakePins, Expired, Unlocked, Janitor
  <1>18. CASE ReleaseAll
    BY <1>0, <1>18 DEF ReleaseAll, TakePins, Unlocked, Janitor
  <1>19. ASSUME NEW j \in Janitor, JanitorRelease(j) PROVE OneHome'
    <2>1. PICK c \in bag[j] :
            /\ txn' = [txn EXCEPT ![c] = AfterRollback(@)]
            /\ pool' = pool \cup {c}
            /\ bag' = [bag EXCEPT ![j] = @ \ {c}]
            /\ UNCHANGED <<smap, slotVars, workVars>>
      BY <1>19 DEF JanitorRelease
    <2>2. c \in Conn /\ AfterRollback(txn[c]) # "absent"
      BY <1>0, <2>1, RollbackType
    <2> QED
      BY <1>0, <2>1, <2>2
  <1>20. ASSUME NEW x \in Slot, GrowOverdue(x) PROVE OneHome'
    BY <1>0, <1>20 DEF GrowOverdue
  <1>21. ASSUME NEW c \in Conn, ConnDies(c) PROVE OneHome'
    BY <1>0, <1>21 DEF ConnDies
  <1>22. CASE UNCHANGED vars
    BY <1>0, <1>22 DEF vars
  <1> QED
    BY <1>1, <1>2, <1>3, <1>4, <1>5, <1>6, <1>7, <1>8, <1>9, <1>10, <1>11,
       <1>12, <1>13, <1>14, <1>15, <1>16, <1>17, <1>18, <1>19, <1>20, <1>21,
       <1>22
       DEF Next, Request, Step

\* A mutex's queue, read by position, when a worker joins it or its head leaves.
LEMMA QueueContents ==
  ASSUME NEW q \in Queue, NEW w \in Worker
  PROVE  /\ Len(q) \in Nat
         /\ \A i \in 1..Len(q) : q[i] \in Worker
         /\ Len(Append(q, w)) = Len(q) + 1
         /\ \A i \in 1..Len(q) + 1 :
              Append(q, w)[i] = IF i = Len(q) + 1 THEN w ELSE q[i]
         /\ q = <<>> => Len(q) = 0
         /\ q # <<>> => /\ Len(q) >= 1
                        /\ Head(q) = q[1]
                        /\ Len(Tail(q)) = Len(q) - 1
                        /\ \A i \in 1..Len(q) - 1 : Tail(q)[i] = q[i + 1]
  BY DEF Queue

\* A queue without duplicates stays one when a newcomer joins.
LEMMA AppendDistinct ==
  ASSUME NEW q \in Queue, NEW w \in Worker,
         \A i, k \in 1..Len(q) : q[k] = q[i] => k = i,
         \A i \in 1..Len(q) : q[i] # w
  PROVE  \A i, k \in 1..Len(Append(q, w)) : Append(q, w)[k] = Append(q, w)[i] => k = i
  <1> DEFINE n == Len(q)
             a == Append(q, w)
  <1>1. /\ n \in Nat
        /\ Len(a) = n + 1
        /\ \A i \in 1..n + 1 : a[i] = IF i = n + 1 THEN w ELSE q[i]
    BY QueueContents
  <1>2. /\ \A i, k \in 1..n : q[k] = q[i] => k = i
        /\ \A i \in 1..n : q[i] # w
    OBVIOUS
  <1> HIDE DEF n, a
  <1> SUFFICES ASSUME NEW i \in 1..n + 1, NEW k \in 1..n + 1, a[k] = a[i]
               PROVE  k = i
    BY <1>1 DEF a
  <1>3. i \in 1..n \/ i = n + 1
    BY <1>1
  <1>4. k \in 1..n \/ k = n + 1
    BY <1>1
  <1> QED
    BY <1>1, <1>2, <1>3, <1>4

\* A slot's mutex passes from its owner to the first in its queue.
LEMMA LockingStep == Structure /\ [Next]_vars => Locking'
  <1> SUFFICES ASSUME Structure, [Next]_vars PROVE Locking'
    OBVIOUS
  <1>0. TypeOK /\ HandlerState /\ Locking
    BY DEF Structure
  <1> USE ConstantsOK DEF TypeOK, PC, slotVars, workVars, Locking, MutexOK, HandlerState, Inside, WithSession
  <1>1. ASSUME NEW w \in Worker, NEW s \in Session, NEW k \in {"run", "release"},
               Lookup(w, k, s)
        PROVE  Locking'
    BY <1>0, <1>1 DEF Lookup
  <1>2. ASSUME NEW w \in Worker, NEW k \in {"run", "single"}, StartSessionless(w, k)
        PROVE  Locking'
    BY <1>0, <1>2 DEF StartSessionless
  <1>3. ASSUME NEW w \in Worker, Enqueue(w) PROVE Locking'
    <2> DEFINE x == ref[w]
               q == Append(waiters[x], w)
    <2>1. x \in Slot /\ waiters[x] \in Queue
      BY <1>0, <1>3, Has DEF Enqueue
    <2>2. /\ Len(waiters[x]) \in Nat
          /\ Len(q) = Len(waiters[x]) + 1
          /\ \A i \in 1..Len(waiters[x]) + 1 :
               q[i] = IF i = Len(waiters[x]) + 1 THEN w ELSE waiters[x][i]
          /\ \A i \in 1..Len(waiters[x]) : waiters[x][i] \in Worker
      BY <2>1, QueueContents
    <2>3. /\ pc[w] = "cloned"
          /\ pc' = [pc EXCEPT ![w] = "locking"]
          /\ UNCHANGED <<job, ref>>
          /\ \/ /\ owner[x] = NoWorker
                /\ owner' = [owner EXCEPT ![x] = w]
                /\ waiters' = waiters
             \/ /\ owner[x] # NoWorker
                /\ owner' = owner
                /\ waiters' = [waiters EXCEPT ![x] = q]
      BY <1>3 DEF Enqueue
    <2> HIDE DEF q
    <2>4. CASE owner[x] = NoWorker
      <3>1. Len(waiters[x]) = 0
        BY <1>0, <2>1, <2>4, QueueContents
      <3> QED
        BY <1>0, <2>1, <2>3, <2>4, <3>1
    <2>5. CASE owner[x] # NoWorker
      <3>1. \A v \in Worker : Inside(v)' => owner'[ref'[v]] = v
        BY <1>0, <2>1, <2>3, <2>5
      <3>2. \A i \in 1..Len(q) : pc'[q[i]] = "locking" /\ ref'[q[i]] = x /\ owner'[x] # q[i]
        BY <1>0, <2>1, <2>2, <2>3, <2>5
      <3>3. \A i, k \in 1..Len(q) : q[k] = q[i] => k = i
        <4>1. /\ \A i, k \in 1..Len(waiters[x]) : waiters[x][k] = waiters[x][i] => k = i
              /\ \A i \in 1..Len(waiters[x]) : waiters[x][i] # w
          BY <1>0, <2>1, <2>3
        <4> QED
          BY <2>1, <4>1, AppendDistinct DEF q
      <3> QED
        BY <1>0, <2>1, <2>3, <2>5, <3>1, <3>2, <3>3
    <2> QED
      BY <2>4, <2>5
  <1>4. ASSUME NEW w \in Worker, TakePinned(w) PROVE Locking'
    BY <1>0, <1>4 DEF TakePinned, HasLock
  <1>5. ASSUME NEW w \in Worker, ReleaseTake(w) PROVE Locking'
    BY <1>0, <1>5 DEF ReleaseTake, HasLock
  <1>6. ASSUME NEW w \in Worker, DropGuard(w) PROVE Locking'
    <2>0. PICK x \in Slot : x = ref[w]
      BY <1>6, Has DEF DropGuard
    <2>a. PICK first : first = Head(waiters[x])
      OBVIOUS
    <2>b. PICK rest : rest = Tail(waiters[x])
      OBVIOUS
    <2>1. ref[w] = x /\ waiters[x] \in Queue /\ owner[x] = w
      BY <1>0, <1>6, <2>0 DEF DropGuard
    <2>2. /\ Len(waiters[x]) \in Nat
          /\ \A i \in 1..Len(waiters[x]) : waiters[x][i] \in Worker
          /\ waiters[x] # <<>> => /\ Len(waiters[x]) >= 1
                                  /\ first = waiters[x][1]
                                  /\ Len(rest) = Len(waiters[x]) - 1
                                  /\ \A i \in 1..Len(waiters[x]) - 1 : rest[i] = waiters[x][i + 1]
      BY <2>1, <2>a, <2>b, QueueContents
    <2>3. /\ pc[w] = "dropping"
          /\ \/ pc' = [pc EXCEPT ![w] = "idle"]
             \/ pc' = [pc EXCEPT ![w] = "rollback"]
          /\ ref' = [ref EXCEPT ![w] = NoSlot]
          /\ \/ /\ waiters[x] = <<>>
                /\ owner' = [owner EXCEPT ![x] = NoWorker]
                /\ waiters' = waiters
             \/ /\ waiters[x] # <<>>
                /\ owner' = [owner EXCEPT ![x] = first]
                /\ waiters' = [waiters EXCEPT ![x] = rest]
      BY <1>6, <2>0, <2>a, <2>b DEF DropGuard
    <2>4. \A v \in Worker : v # w => WithSession(v)' = WithSession(v)
      BY <1>0, <1>6 DEF DropGuard
    <2>7. \A y \in Slot \ {x} : MutexOK(y)'
      <3> SUFFICES ASSUME NEW y \in Slot, y # x PROVE MutexOK(y)'
        OBVIOUS
      <3>1. owner'[y] = owner[y] /\ waiters'[y] = waiters[y]
        BY <1>0, <2>1, <2>3
      <3>2. \A v \in Worker : ref[v] = y => pc'[v] = pc[v] /\ ref'[v] = y /\ v # w
        BY <1>0, <2>1, <2>3
      <3>3. waiters[y] \in Queue
        BY <1>0
      <3>4. \A i \in 1..Len(waiters[y]) : waiters[y][i] \in Worker
        BY <3>3, QueueContents
      <3> QED
        BY <1>0, <2>3, <2>4, <3>1, <3>2, <3>4
    <2>5. CASE waiters[x] = <<>>
      <3>1. Len(waiters[x]) = 0
        BY <2>1, <2>5, QueueContents
      <3>2. waiters' = waiters /\ owner' = [owner EXCEPT ![x] = NoWorker]
        BY <2>3, <2>5
      <3>3. \A v \in Worker : Inside(v)' => owner'[ref'[v]] = v
        BY <1>0, <2>1, <2>3, <2>4, <3>2
      <3> QED
        BY <1>0, <2>1, <2>3, <2>4, <2>5, <2>7, <3>1, <3>2, <3>3
    <2>6. CASE waiters[x] # <<>>
      <3>1. first \in Worker /\ pc[first] = "locking" /\ ref[first] = x /\ first # w
        BY <1>0, <2>1, <2>2, <2>6
      <3>2. \A v \in Worker : Inside(v)' => owner'[ref'[v]] = v
        BY <1>0, <2>1, <2>3, <2>4, <2>6
      <3>3. \A i \in 1..Len(rest) :
              pc'[rest[i]] = "locking" /\ ref'[rest[i]] = x /\ first # rest[i]
        BY <1>0, <2>1, <2>2, <2>3, <2>6
      <3>4. \A i, k \in 1..Len(rest) : rest[k] = rest[i] => k = i
        <4>1. \A i, k \in 1..Len(waiters[x]) : waiters[x][k] = waiters[x][i] => k = i
          BY <1>0, <2>1
        <4> QED
          <5> SUFFICES ASSUME NEW i \in 1..Len(rest), NEW k \in 1..Len(rest),
                              rest[k] = rest[i]
                       PROVE  k = i
            OBVIOUS
          <5>1. i + 1 \in 1..Len(waiters[x]) /\ k + 1 \in 1..Len(waiters[x])
            BY <2>2, <2>6
          <5>2. waiters[x][k + 1] = waiters[x][i + 1]
            BY <2>2, <2>6
          <5>3. k + 1 = i + 1
            BY <4>1, <5>1, <5>2
          <5>4. i \in Nat /\ k \in Nat
            BY <2>2, <2>6
          <5> QED
            BY <5>3, <5>4
      <3>5. waiters' = [waiters EXCEPT ![x] = rest] /\ owner' = [owner EXCEPT ![x] = first]
        BY <2>3, <2>6
      <3> QED
        <4>1. Inside(first)' \/ pc'[first] = "locking"
          BY <1>0, <2>3, <3>1
        <4>2. MutexOK(x)'
          <5>1. owner'[x] = first /\ waiters'[x] = rest
            BY <1>0, <2>1, <3>5
          <5>2. first # NoWorker /\ ref'[first] = x
            BY <1>0, <2>3, <3>1
          <5> QED
            BY <3>3, <3>4, <4>1, <5>1, <5>2
        <4> HIDE DEF MutexOK, Inside
        <4> QED
          BY <2>7, <3>2, <4>2
    <2> QED
      BY <2>5, <2>6
  <1>7. ASSUME NEW w \in Worker, GetClient(w) PROVE Locking'
    BY <1>0, <1>7 DEF GetClient, Absent
  <1>8. ASSUME NEW w \in Worker, GetFails(w) PROVE Locking'
    BY <1>0, <1>8 DEF GetFails, AfterWork
  <1>9. ASSUME NEW w \in Worker, SetupDone(w) PROVE Locking'
    BY <1>0, <1>9 DEF SetupDone
  <1>10. ASSUME NEW w \in Worker, SetupFails(w) PROVE Locking'
    BY <1>0, <1>10 DEF SetupFails, AfterWork
  <1>11. ASSUME NEW w \in Worker, ExecStatement(w) PROVE Locking'
    BY <1>0, <1>11 DEF ExecStatement
  <1>12. ASSUME NEW w \in Worker, PinClient(w) PROVE Locking'
    BY <1>0, <1>12 DEF PinClient
  <1>13. ASSUME NEW w \in Worker, EndSessionless(w) PROVE Locking'
    BY <1>0, <1>13 DEF EndSessionless
  <1>14. ASSUME NEW w \in Worker, ReturnClient(w) PROVE Locking'
    BY <1>0, <1>14 DEF ReturnClient, AfterWork
  <1>15. ASSUME NEW w \in Worker, ExecSingle(w) PROVE Locking'
    BY <1>0, <1>15 DEF ExecSingle
  <1>16. ASSUME NEW w \in Worker, RollbackAndRelease(w) PROVE Locking'
    BY <1>0, <1>16 DEF RollbackAndRelease
  <1>17. CASE Sweep
    BY <1>0, <1>17 DEF Sweep, TakePins
  <1>18. CASE ReleaseAll
    BY <1>0, <1>18 DEF ReleaseAll, TakePins
  <1>19. ASSUME NEW j \in Janitor, JanitorRelease(j) PROVE Locking'
    BY <1>0, <1>19 DEF JanitorRelease
  <1>20. ASSUME NEW x \in Slot, GrowOverdue(x) PROVE Locking'
    BY <1>0, <1>20 DEF GrowOverdue
  <1>21. ASSUME NEW c \in Conn, ConnDies(c) PROVE Locking'
    BY <1>0, <1>21 DEF ConnDies
  <1>22. CASE UNCHANGED vars
    BY <1>0, <1>22 DEF vars
  <1> QED
    BY <1>1, <1>2, <1>3, <1>4, <1>5, <1>6, <1>7, <1>8, <1>9, <1>10, <1>11,
       <1>12, <1>13, <1>14, <1>15, <1>16, <1>17, <1>18, <1>19, <1>20, <1>21,
       <1>22
       DEF Next, Request, Step

-----------------------------------------------------------------------------
LEMMA StructureInit == Init => Structure
  <1> SUFFICES ASSUME Init PROVE Structure
    OBVIOUS
  <1> USE ConstantsOK DEF Init
  <1>1. TypeOK
    BY TypeInit
  <1>2. OneHome
    BY DEF OneHome, Janitor
  <1>3. HandlerState
    BY DEF HandlerState, Inside, WithSession, NoJob
  <1>4. Locking
    BY DEF Locking, MutexOK, Inside
  <1>5. SlotEmptied
    BY DEF SlotEmptied
  <1> QED
    BY <1>1, <1>2, <1>3, <1>4, <1>5 DEF Structure

LEMMA StructureStep == Structure /\ [Next]_vars => Structure'
  BY TypeStep, OneHomeStep, HandlerStep, LockingStep, SlotEmptiedStep DEF Structure

\* Whatever the host sends and the server answers: variables keep their types,
\* a connection is in one place at a time, a handler has what its place in the
\* code needs, and a slot's mutex has one owner and an orderly queue.
THEOREM Structured == Spec => []Structure
  <1>1. Init => Structure
    BY StructureInit
  <1>2. Structure /\ [Next]_vars => Structure'
    BY StructureStep
  <1> QED
    BY <1>1, <1>2, PTL DEF Spec

-----------------------------------------------------------------------------
\* Under the host's discipline a statement without a session leaves an idle
\* connection idle, and the flag of a batch follows the server's state.
LEMMA AnswerIdle ==
  ASSUME NEW t \in {"idle", "dead"}, NEW e \in TransactionEffect \ {"Opens"},
         NEW o \in ServerOutcomes(t, e, FALSE)
  PROVE  TxnAfterStatement(o, e, FALSE) \in {"idle", "dead"}
  BY DEF ServerOutcomes, Outcome, TransactionEffect, TxnAfterStatement, TxnAborted

Believed(flag) == IF flag THEN {"open", "dead"} ELSE {"idle", "dead"}

LEMMA AnswerTracked ==
  ASSUME NEW b \in BOOLEAN, NEW t \in Believed(b), NEW e \in TransactionEffect,
         NEW o \in ServerOutcomes(t, e, FALSE)
  PROVE  TxnAfterStatement(o, e, b) \in Believed(InTransactionAfterOutcome(e, o.ok, b))
  <1>1. o.ok \in BOOLEAN
    BY DEF ServerOutcomes, Outcome
  <1>2. CASE TxnAborted(e, o.ok, b)
    BY <1>1, <1>2 DEF ServerOutcomes, Outcome, TransactionEffect, TxnAfterStatement,
                      TxnAborted, InTransactionAfterOutcome, AfterRollback, Believed
  <1>3. CASE ~TxnAborted(e, o.ok, b)
    BY <1>1, <1>3 DEF ServerOutcomes, Outcome, TransactionEffect, TxnAfterStatement,
                      TxnAborted, InTransactionAfterOutcome, InTransactionAfter, Believed
  <1> QED
    BY <1>2, <1>3

\* Every way back into the pool is behind a rollback or an idle connection.
LEMMA CleanStep == Structure /\ Clean /\ HostDiscipline /\ [Next]_vars => Clean'
  <1> SUFFICES ASSUME Structure /\ Clean /\ HostDiscipline, [Next]_vars PROVE Clean'
    OBVIOUS
  <1>0. TypeOK /\ OneHome /\ HandlerState /\ SlotEmptied /\ Clean
    BY DEF Structure
  <1> USE ConstantsOK DEF TypeOK, PC, slotVars, workVars, Clean, ClientState, PoolClean, PinnedOpen, OneHome, HandlerState
  <1>1. ASSUME NEW w \in Worker, NEW s \in Session, NEW k \in {"run", "release"},
               Lookup(w, k, s)
        PROVE  Clean'
    BY <1>0, <1>1 DEF Lookup
  <1>2. ASSUME NEW w \in Worker, NEW k \in {"run", "single"}, StartSessionless(w, k)
        PROVE  Clean'
    BY <1>0, <1>2 DEF StartSessionless
  <1>3. ASSUME NEW w \in Worker, Enqueue(w) PROVE Clean'
    BY <1>0, <1>3 DEF Enqueue
  <1>4. ASSUME NEW w \in Worker, TakePinned(w) PROVE Clean'
    <2>1. ref[w] \in Slot
      BY <1>4, Has DEF TakePinned, HasLock
    <2> QED
      BY <1>0, <1>4, <2>1 DEF TakePinned, HasLock
  <1>5. ASSUME NEW w \in Worker, ReleaseTake(w) PROVE Clean'
    <2>1. ref[w] \in Slot
      BY <1>5, Has DEF ReleaseTake, HasLock
    <2> QED
      BY <1>0, <1>5, <2>1 DEF ReleaseTake, HasLock
  <1>6. ASSUME NEW w \in Worker, DropGuard(w) PROVE Clean'
    <2>1. ref[w] \in Slot
      BY <1>6, Has DEF DropGuard
    <2>2. \/ txn' = txn /\ pinned' = pinned
          \/ /\ txn' = CloseIn(ref[w])
             /\ pinned' = [pinned EXCEPT ![ref[w]] = NoConn]
      BY <1>6 DEF DropGuard
    <2>3. /\ held' = held /\ pool' = pool /\ inTxn' = inTxn
          /\ pc'[w] \in {"idle", "rollback"}
          /\ \A v \in Worker \ {w} : pc'[v] = pc[v] /\ job'[v] = job[v]
      BY <1>0, <1>6 DEF DropGuard
    <2> QED
      BY <1>0, <2>1, <2>2, <2>3 DEF CloseIn
  <1>7. ASSUME NEW w \in Worker, GetClient(w) PROVE Clean'
    <2>1. PICK c \in Conn, dropped \in SUBSET pool : Given(w, c, dropped)
      BY <1>0, <1>7, ClientGiven
    <2>2. pc' = [pc EXCEPT ![w] = "setup"] /\ UNCHANGED <<pinned, job, inTxn>>
      BY <1>7 DEF GetClient
    <2>3. txn'[c] \in {"idle", "dead"}
      BY <1>0, <2>1 DEF Given, Absent
    <2>4. \A d \in Conn : d # c /\ d \notin pool => txn'[d] = txn[d]
      BY <2>1 DEF Given
    <2>5. c \in pool \/ txn[c] = "absent"
      BY <2>1 DEF Given, Absent
    <2>6. ClientState'
      BY <1>0, <2>1, <2>2, <2>3, <2>4, <2>5 DEF Given
    <2>7. PoolClean'
      BY <1>0, <2>1 DEF Given
    <2>8. PinnedOpen'
      BY <1>0, <2>2, <2>4, <2>5
    <2> QED
      BY <2>6, <2>7, <2>8
  <1>8. ASSUME NEW w \in Worker, GetFails(w) PROVE Clean'
    BY <1>0, <1>8 DEF GetFails, AfterWork
  <1>9. ASSUME NEW w \in Worker, SetupDone(w) PROVE Clean'
    BY <1>0, <1>9 DEF SetupDone
  <1>10. ASSUME NEW w \in Worker, SetupFails(w) PROVE Clean'
    <2>1. held[w] # NoConn /\ txn[held[w]] # "absent"
      BY <1>0, <1>10, Has DEF SetupFails
    <2> QED
      BY <1>0, <1>10, <2>1 DEF SetupFails, AfterWork
  <1>11. ASSUME NEW w \in Worker, ExecStatement(w) PROVE Clean'
    <2>1. /\ held[w] \in Conn /\ inTxn[w] \in BOOLEAN
          /\ txn[held[w]] \in Believed(inTxn[w])
          /\ pc[w] = "running" /\ job[w].kind = "run"
      BY <1>0, <1>11, Has DEF ExecStatement, Believed
    <2>a. PICK e \in TransactionEffect : \E o \in ServerOutcomes(txn[held[w]], e, FALSE) :
            /\ txn' = [txn EXCEPT ![held[w]] = TxnAfterStatement(o, e, inTxn[w])]
            /\ inTxn' = [inTxn EXCEPT ![w] = InTransactionAfterOutcome(e, o.ok, inTxn[w])]
      BY <1>11 DEF ExecStatement, HostDiscipline
    <2>2. PICK o \in ServerOutcomes(txn[held[w]], e, FALSE) :
            /\ txn' = [txn EXCEPT ![held[w]] = TxnAfterStatement(o, e, inTxn[w])]
            /\ inTxn' = [inTxn EXCEPT ![w] = InTransactionAfterOutcome(e, o.ok, inTxn[w])]
      BY <2>a
    <2>3. TxnAfterStatement(o, e, inTxn[w])
            \in Believed(InTransactionAfterOutcome(e, o.ok, inTxn[w]))
      BY <2>1, AnswerTracked
    <2>4. InTransactionAfterOutcome(e, o.ok, inTxn[w]) \in BOOLEAN
      BY <2>1 DEF InTransactionAfterOutcome, InTransactionAfter, TxnAborted
    <2>5. UNCHANGED <<pc, job, held, pool, pinned>>
      BY <1>11 DEF ExecStatement
    <2>6. PICK t, b : /\ t \in Believed(b)
                      /\ txn' = [txn EXCEPT ![held[w]] = t]
                      /\ inTxn' = [inTxn EXCEPT ![w] = b]
      BY <2>2, <2>3
    <2> QED
      BY <1>0, <2>1, <2>5, <2>6 DEF Believed
  <1>12. ASSUME NEW w \in Worker, PinClient(w) PROVE Clean'
    <2>1. ref[w] \in Slot /\ held[w] \in Conn
      BY <1>12, Has DEF PinClient, Inside
    <2>2. pinned[ref[w]] = NoConn
      BY <1>0, <1>12 DEF PinClient, SlotEmptied
    <2>3. pool' = pool
      BY <1>12, <2>2 DEF PinClient
    <2> QED
      BY <1>0, <1>12, <2>1, <2>2, <2>3 DEF PinClient
  <1>13. ASSUME NEW w \in Worker, EndSessionless(w) PROVE Clean'
    BY <1>0, <1>13 DEF EndSessionless
  <1>14. ASSUME NEW w \in Worker, ReturnClient(w) PROVE Clean'
    <2>1. held[w] # NoConn /\ txn[held[w]] # "absent"
      BY <1>0, <1>14, Has DEF ReturnClient
    <2> QED
      BY <1>0, <1>14, <2>1 DEF ReturnClient, AfterWork
  <1>15. ASSUME NEW w \in Worker, ExecSingle(w) PROVE Clean'
    <2>1. /\ held[w] \in Conn /\ txn[held[w]] \in {"idle", "dead"}
          /\ SessionlessEffects \subseteq TransactionEffect \ {"Opens"}
      BY <1>0, <1>15, Has DEF ExecSingle, HostDiscipline
    <2>a. PICK e \in SessionlessEffects : \E o \in ServerOutcomes(txn[held[w]], e, FALSE) :
            txn' = [txn EXCEPT ![held[w]] = TxnAfterStatement(o, e, FALSE)]
      BY <1>15 DEF ExecSingle, HostDiscipline
    <2>2. PICK o \in ServerOutcomes(txn[held[w]], e, FALSE) :
            txn' = [txn EXCEPT ![held[w]] = TxnAfterStatement(o, e, FALSE)]
      BY <2>a
    <2>3. TxnAfterStatement(o, e, FALSE) \in {"idle", "dead"}
      BY <2>1, AnswerIdle
    <2>4. PICK t \in {"idle", "dead"} : txn' = [txn EXCEPT ![held[w]] = t]
      BY <2>2, <2>3
    <2>5. /\ pool' = pool \cup {held[w]} /\ pc' = [pc EXCEPT ![w] = "idle"]
          /\ held' = [held EXCEPT ![w] = NoConn] /\ pinned' = pinned /\ inTxn' = inTxn
          /\ \A v \in Worker \ {w} : job'[v] = job[v]
      BY <1>0, <1>15 DEF ExecSingle
    <2> QED
      BY <1>0, <2>1, <2>4, <2>5
  <1>16. ASSUME NEW w \in Worker, RollbackAndRelease(w) PROVE Clean'
    <2>1. held[w] \in Conn /\ txn[held[w]] \in TxnState \ {"absent"}
      BY <1>0, <1>16, Has DEF RollbackAndRelease
    <2>2. AfterRollback(txn[held[w]]) \in {"idle", "dead"}
      BY <2>1 DEF AfterRollback, TxnState
    <2> QED
      BY <1>0, <1>16, <2>1, <2>2 DEF RollbackAndRelease
  <1>17. CASE Sweep
    BY <1>0, <1>17 DEF Sweep, TakePins
  <1>18. CASE ReleaseAll
    BY <1>0, <1>18 DEF ReleaseAll, TakePins
  <1>19. ASSUME NEW j \in Janitor, JanitorRelease(j) PROVE Clean'
    <2>1. PICK c \in bag[j] :
            /\ txn' = [txn EXCEPT ![c] = AfterRollback(@)]
            /\ pool' = pool \cup {c}
            /\ bag' = [bag EXCEPT ![j] = @ \ {c}]
            /\ UNCHANGED <<smap, slotVars, workVars>>
      BY <1>19 DEF JanitorRelease
    <2>2. c \in Conn /\ AfterRollback(txn[c]) \in {"idle", "dead"}
      BY <1>0, <2>1 DEF AfterRollback, TxnState
    <2> QED
      BY <1>0, <2>1, <2>2
  <1>20. ASSUME NEW x \in Slot, GrowOverdue(x) PROVE Clean'
    BY <1>0, <1>20 DEF GrowOverdue
  <1>21. ASSUME NEW c \in Conn, ConnDies(c) PROVE Clean'
    BY <1>0, <1>21 DEF ConnDies
  <1>22. CASE UNCHANGED vars
    BY <1>0, <1>22 DEF vars
  <1> QED
    BY <1>1, <1>2, <1>3, <1>4, <1>5, <1>6, <1>7, <1>8, <1>9, <1>10, <1>11,
       <1>12, <1>13, <1>14, <1>15, <1>16, <1>17, <1>18, <1>19, <1>20, <1>21,
       <1>22
       DEF Next, Request, Step

\* If the host opens no transaction without a session and the server refuses no
\* COMMIT unexecuted, the in_transaction flag always tells the truth, only open
\* transactions are kept, and no connection in the pool has one.
THEOREM Cleanliness ==
  ASSUME HostDiscipline
  PROVE  Spec => [](PoolClean /\ PinnedOpen /\ FlagTruthful)
  <1>1. Init => Structure /\ Clean
    <2>1. Init => Clean
      BY DEF Init, Clean, ClientState, PoolClean, PinnedOpen
    <2> QED
      BY <2>1, StructureInit
  <1>2. Structure /\ Clean /\ [Next]_vars => (Structure /\ Clean)'
    BY StructureStep, CleanStep
  <1>3. Structure /\ Clean => PoolClean /\ PinnedOpen /\ FlagTruthful
    BY DEF Clean, ClientState, FlagTruthful
  <1> QED
    BY <1>1, <1>2, <1>3, PTL DEF Spec

\* Whatever is kept for a session is a transaction (pin_client is reached only with
\* in_transaction, query.rs).
THEOREM Pins == ASSUME HostDiscipline PROVE Spec => []PinnedOpen
BY Cleanliness, PTL

\* The flag a handler pins, rolls back and replies by is the server's state.
THEOREM Flags == ASSUME HostDiscipline PROVE Spec => []FlagTruthful
BY Cleanliness, PTL

-----------------------------------------------------------------------------
\* Without a shutdown the map never lets go of a slot somebody refers to.
LEMMA TrackedStep == Structure /\ Tracked /\ ~HostShutsDown /\ [Next]_vars => Tracked'
  <1> SUFFICES ASSUME Structure /\ Tracked /\ ~HostShutsDown, [Next]_vars PROVE Tracked'
    OBVIOUS
  <1>0. TypeOK /\ HandlerState
    BY DEF Structure
  <1> USE ConstantsOK DEF TypeOK, PC, slotVars, workVars, Tracked, HandlerState, Inside, WithSession
  <1>1. ASSUME NEW w \in Worker, NEW s \in Session, NEW k \in {"run", "release"},
               Lookup(w, k, s)
        PROVE  Tracked'
    BY <1>0, <1>1 DEF Lookup, FreeSlots, Mapped, Referenced
  <1>2. ASSUME NEW w \in Worker, NEW k \in {"run", "single"}, StartSessionless(w, k)
        PROVE  Tracked'
    BY <1>0, <1>2 DEF StartSessionless
  <1>3. ASSUME NEW w \in Worker, Enqueue(w) PROVE Tracked'
    BY <1>0, <1>3 DEF Enqueue
  <1>4. ASSUME NEW w \in Worker, TakePinned(w) PROVE Tracked'
    BY <1>0, <1>4 DEF TakePinned, HasLock
  <1>5. ASSUME NEW w \in Worker, ReleaseTake(w) PROVE Tracked'
    BY <1>0, <1>5 DEF ReleaseTake, HasLock
  <1>6. ASSUME NEW w \in Worker, DropGuard(w) PROVE Tracked'
    BY <1>0, <1>6 DEF DropGuard
  <1>7. ASSUME NEW w \in Worker, GetClient(w) PROVE Tracked'
    BY <1>0, <1>7 DEF GetClient, Absent
  <1>8. ASSUME NEW w \in Worker, GetFails(w) PROVE Tracked'
    BY <1>0, <1>8 DEF GetFails, AfterWork
  <1>9. ASSUME NEW w \in Worker, SetupDone(w) PROVE Tracked'
    BY <1>0, <1>9 DEF SetupDone
  <1>10. ASSUME NEW w \in Worker, SetupFails(w) PROVE Tracked'
    BY <1>0, <1>10 DEF SetupFails, AfterWork
  <1>11. ASSUME NEW w \in Worker, ExecStatement(w) PROVE Tracked'
    BY <1>0, <1>11 DEF ExecStatement
  <1>12. ASSUME NEW w \in Worker, PinClient(w) PROVE Tracked'
    BY <1>0, <1>12 DEF PinClient
  <1>13. ASSUME NEW w \in Worker, EndSessionless(w) PROVE Tracked'
    BY <1>0, <1>13 DEF EndSessionless
  <1>14. ASSUME NEW w \in Worker, ReturnClient(w) PROVE Tracked'
    BY <1>0, <1>14 DEF ReturnClient, AfterWork
  <1>15. ASSUME NEW w \in Worker, ExecSingle(w) PROVE Tracked'
    BY <1>0, <1>15 DEF ExecSingle
  <1>16. ASSUME NEW w \in Worker, RollbackAndRelease(w) PROVE Tracked'
    BY <1>0, <1>16 DEF RollbackAndRelease
  <1>17. CASE Sweep
    <2>1. \A w \in Worker : ref[w] # NoSlot => job[w].session \in Session
      BY <1>0 DEF Job, NoJob
    <2>2. \A w \in Worker : ref[w] # NoSlot => ~Forgotten(job[w].session)
      BY DEF Forgotten, Referenced
    <2>3. /\ smap' = [s \in Session |-> IF Forgotten(s) THEN NoSlot ELSE smap[s]]
          /\ ref' = ref /\ job' = job
      BY <1>17 DEF Sweep
    <2> QED
      BY <2>1, <2>2, <2>3
  <1>18. CASE ReleaseAll
    BY <1>0, <1>18 DEF ReleaseAll
  <1>19. ASSUME NEW j \in Janitor, JanitorRelease(j) PROVE Tracked'
    BY <1>0, <1>19 DEF JanitorRelease
  <1>20. ASSUME NEW x \in Slot, GrowOverdue(x) PROVE Tracked'
    BY <1>0, <1>20 DEF GrowOverdue
  <1>21. ASSUME NEW c \in Conn, ConnDies(c) PROVE Tracked'
    BY <1>0, <1>21 DEF ConnDies
  <1>22. CASE UNCHANGED vars
    BY <1>0, <1>22 DEF vars
  <1> QED
    BY <1>1, <1>2, <1>3, <1>4, <1>5, <1>6, <1>7, <1>8, <1>9, <1>10, <1>11,
       <1>12, <1>13, <1>14, <1>15, <1>16, <1>17, <1>18, <1>19, <1>20, <1>21,
       <1>22
       DEF Next, Request, Step

\* Unless the host shuts the plugin down while it sends requests, the runs of a
\* session exclude each other and no run is separated from its transaction.
THEOREM Serialized ==
  ASSUME ~HostShutsDown
  PROVE  Spec => [](Tracked /\ OneRunPerSession /\ RunHasTheTransaction)
  <1>1. Init => Structure /\ Tracked
    <2>1. Init => Tracked
      BY DEF Init, Tracked
    <2> QED
      BY <2>1, StructureInit
  <1>2. Structure /\ Tracked /\ [Next]_vars => (Structure /\ Tracked)'
    BY StructureStep, TrackedStep
  <1>3. ASSUME Structure, Tracked, NEW s \in Session, NEW w \in Worker, InRun(w, s)
        PROVE  /\ Inside(w) /\ ref[w] # NoSlot /\ smap[s] = ref[w]
               /\ pinned[ref[w]] = NoConn
    <2>1. job[w].session = s /\ WithSession(w) /\ Inside(w)
      BY <1>3, ConstantsOK DEF InRun, WithSession, Inside
    <2>2. ref[w] # NoSlot /\ smap[s] = ref[w]
      BY <1>3, <2>1 DEF Structure, HandlerState, Tracked
    <2> QED
      BY <1>3, <2>1, <2>2 DEF Structure, SlotEmptied, InRun
  <1>4. Structure /\ Tracked => Tracked /\ OneRunPerSession /\ RunHasTheTransaction
    BY <1>3, Exclusive DEF OneRunPerSession, RunHasTheTransaction
  <1> QED
    BY <1>1, <1>2, <1>4, PTL DEF Spec

\* The map never loses a slot that is referred to, nor gives it to another session
\* (the reference count sweep_idle looks at).
THEOREM Mapping == ASSUME ~HostShutsDown PROVE Spec => []Tracked
BY Serialized, PTL

\* No second connection is kept for a session that runs.
THEOREM Together == ASSUME ~HostShutsDown PROVE Spec => []RunHasTheTransaction
BY Serialized, PTL

-----------------------------------------------------------------------------
(* What the tabs are promised. *)

Steady == Structure /\ Tracked

\* The two halves of the invariant hold together.
LEMMA SteadyAlways == ASSUME ~HostShutsDown PROVE Spec => []Steady
<1>1. Spec => []Structure
  BY Structured
<1>2. Spec => []Tracked
  BY Serialized, PTL
<1> QED BY <1>1, <1>2, PTL DEF Steady

\* A handler with a slot has the slot its session has in the map.
LEMMA OwnSlot ==
  ASSUME Steady, NEW w \in Worker, ref[w] # NoSlot
  PROVE  job[w].session \in Session /\ smap[job[w].session] = ref[w] /\ ref[w] \in Slot
<1>1. WithSession(w)
  BY DEF Steady, Structure, HandlerState, Inside
<1>2. job[w].session \in Session
  BY <1>1 DEF Steady, Structure, TypeOK, Job, NoJob, WithSession
<1> QED BY <1>2 DEF Steady, Structure, TypeOK, Tracked

\* The guard that is dropped is never the last of a slot with a pin.
LEMMA NotTheLast ==
  ASSUME Steady, NEW w \in Worker, DropGuard(w)
  PROVE  UNCHANGED <<smap, pinned, overdue, held, txn>>
<1>1. ref[w] # NoSlot
  BY DEF Steady, Structure, HandlerState, Inside, DropGuard
<1>2. Mapped(ref[w])
  BY <1>1, OwnSlot DEF Mapped
<1> QED BY <1>2 DEF DropGuard

\* The plugin ends a transaction with a statement, never by closing its connection
\* (session.rs, Slot::drop is a safety net no run falls into).
THEOREM NeverCloses == ASSUME ~HostShutsDown PROVE Spec => NeverClosesOpen
<1>1. ASSUME Steady, [Next]_vars, NEW c \in Conn, txn[c] = "open"
      PROVE  txn'[c] # "absent"
  <2> USE <1>1
  <2>0. txn \in [Conn -> TxnState]
    BY DEF Steady, Structure, TypeOK
  <2>1. ASSUME NEW w \in Worker, GetClient(w) PROVE txn'[c] # "absent"
    BY <2>0, <2>1 DEF GetClient
  <2>2. ASSUME NEW w \in Worker, DropGuard(w) PROVE txn'[c] # "absent"
    BY <2>2, NotTheLast
  <2>3. ASSUME NEW w \in Worker, ExecStatement(w) \/ ExecSingle(w) PROVE txn'[c] # "absent"
    <3>1. PICK e \in TransactionEffect, b \in BOOLEAN :
            \E o \in ServerOutcomes(txn[held[w]], e, EndersRejected) :
              txn' = [txn EXCEPT ![held[w]] = TxnAfterStatement(o, e, b)]
      <4>1. inTxn[w] \in BOOLEAN /\ SessionlessEffects \subseteq TransactionEffect
        BY ConstantsOK DEF ConstantsOK, Steady, Structure, TypeOK
      <4> QED BY <2>3, <4>1 DEF ExecStatement, ExecSingle
    <3> QED BY <2>0, <3>1 DEF ServerOutcomes, Outcome, TxnAfterStatement, AfterRollback
  <2>4. ASSUME NEW w \in Worker, RollbackAndRelease(w) PROVE txn'[c] # "absent"
    BY <2>0, <2>4 DEF RollbackAndRelease, AfterRollback
  <2>5. ASSUME NEW j \in Janitor, JanitorRelease(j) PROVE txn'[c] # "absent"
    BY <2>0, <2>5 DEF JanitorRelease, AfterRollback
  <2>6. ASSUME NEW d \in Conn, ConnDies(d) PROVE txn'[c] # "absent"
    BY <2>0, <2>6 DEF ConnDies
  <2>7. CASE UNCHANGED txn
    BY <2>7
  <2>8. CASE \E w \in Worker : Request(w)
    BY <2>7, <2>8 DEF Request, Lookup, StartSessionless
  <2>9. ASSUME NEW w \in Worker,
               \/ Enqueue(w) \/ TakePinned(w) \/ ReleaseTake(w) \/ GetFails(w) \/ SetupDone(w)
               \/ SetupFails(w) \/ PinClient(w) \/ EndSessionless(w) \/ ReturnClient(w)
        PROVE  txn'[c] # "absent"
    BY <2>7, <2>9 DEF Enqueue, TakePinned, ReleaseTake, GetFails, SetupDone, SetupFails,
                      PinClient, EndSessionless, ReturnClient
  <2>10. CASE Sweep \/ ReleaseAll \/ (\E x \in Slot : GrowOverdue(x)) \/ UNCHANGED vars
    BY <2>7, <2>10 DEF Sweep, ReleaseAll, GrowOverdue, vars
  <2> QED BY <2>1, <2>2, <2>3, <2>4, <2>5, <2>6, <2>8, <2>9, <2>10 DEF Next, Step
<1>2. Steady /\ [Next]_vars => [\A c \in Conn : txn[c] = "open" => txn'[c] # "absent"]_vars
  BY <1>1
<1> QED BY <1>2, SteadyAlways, PTL DEF Spec, NeverClosesOpen

\* A kept transaction moves to a run or the release of its session or, overdue, to
\* the sweep (session.rs: take, release, sweep_idle).
THEOREM Kept == ASSUME ~HostShutsDown PROVE Spec => KeptForItsSession
<1>1. ASSUME Steady, [Next]_vars, NEW s \in Session, NEW c \in Conn, PinnedFor(s, c)
      PROVE  \/ PinnedFor(s, c)'
             \/ \E w \in Worker : job[w].session = s /\ held'[w] = c
             \/ overdue[smap[s]] /\ c \in bag'["sweeper"]
             \/ c \in bag'["shutdown"]
  <2> DEFINE Goal == \/ PinnedFor(s, c)'
                     \/ \E w \in Worker : job[w].session = s /\ held'[w] = c
                     \/ overdue[smap[s]] /\ c \in bag'["sweeper"]
                     \/ c \in bag'["shutdown"]
  <2> SUFFICES Goal
    OBVIOUS
  <2>0. /\ smap[s] # NoSlot /\ smap[s] \in Slot /\ pinned[smap[s]] = c /\ c # NoConn
        /\ smap \in [Session -> Slot \cup {NoSlot}] /\ pinned \in [Slot -> Conn \cup {NoConn}]
        /\ held \in [Worker -> Conn \cup {NoConn}]
    BY <1>1, ConstantsOK DEF ConstantsOK, PinnedFor, Steady, Structure, TypeOK
  <2>1. ASSUME NEW w \in Worker, TakePinned(w) \/ ReleaseTake(w) PROVE Goal
    <3>1. ref[w] # NoSlot
      BY <1>1, <2>1 DEF Steady, Structure, HandlerState, TakePinned, ReleaseTake, HasLock
    <3>2. CASE ref[w] = smap[s]
      <4>1. job[w].session = s
        BY <1>1, <2>0, <3>1, <3>2, OwnSlot DEF Steady, Tracked
      <4>2. held'[w] = c
        BY <2>0, <2>1, <3>2 DEF TakePinned, ReleaseTake
      <4> QED BY <4>1, <4>2
    <3>3. CASE ref[w] # smap[s]
      BY <2>0, <2>1, <3>3 DEF TakePinned, ReleaseTake, PinnedFor
    <3> QED BY <3>2, <3>3
  <2>2. ASSUME NEW w \in Worker, PinClient(w) PROVE Goal
    <3>1. pinned[ref[w]] = NoConn
      BY <1>1, <2>2 DEF PinClient, Steady, Structure, SlotEmptied
    <3> QED BY <2>0, <2>2, <3>1 DEF PinClient, PinnedFor
  <2>3. ASSUME NEW w \in Worker, DropGuard(w) PROVE Goal
    BY <1>1, <2>3, NotTheLast DEF PinnedFor
  <2>4. CASE Sweep
    <3>1. bag'["sweeper"] = bag["sweeper"]
             \cup ({pinned[x] : x \in {smap[r] : r \in {t \in Session : Expired(t)}}} \ {NoConn})
      BY <1>1, <2>4 DEF Sweep, TakePins, Steady, Structure, TypeOK, Janitor
    <3>2. CASE Expired(s)
      BY <2>0, <3>1, <3>2 DEF Expired
    <3>3. CASE ~Expired(s)
      <4>1. \A r \in Session : Expired(r) => smap[r] # smap[s]
        BY <1>1, <2>0, <3>3 DEF Steady, Tracked
      <4>2. pinned'[smap[s]] = c
        BY <2>0, <2>4, <4>1 DEF Sweep, TakePins
      <4>3. smap'[s] = smap[s]
        BY <2>0, <2>4, <3>3 DEF Sweep, Forgotten
      <4> QED BY <2>0, <4>2, <4>3 DEF PinnedFor
    <3> QED BY <3>2, <3>3
  <2>5. ASSUME NEW w \in Worker, NEW r \in Session, NEW k \in {"run", "release"}, Lookup(w, k, r)
        PROVE  Goal
    BY <2>0, <2>5 DEF Lookup, slotVars, PinnedFor
  <2>6. CASE UNCHANGED <<smap, pinned>>
    BY <1>1, <2>6 DEF PinnedFor
  <2>7. ASSUME NEW w \in Worker,
               \/ \E k \in {"run", "single"} : StartSessionless(w, k)
               \/ Enqueue(w) \/ GetClient(w) \/ GetFails(w) \/ SetupDone(w) \/ SetupFails(w)
               \/ ExecStatement(w) \/ EndSessionless(w) \/ ReturnClient(w) \/ ExecSingle(w)
               \/ RollbackAndRelease(w)
        PROVE  Goal
    BY <2>6, <2>7 DEF StartSessionless, Enqueue, GetClient, GetFails, SetupDone, SetupFails,
         ExecStatement, EndSessionless, ReturnClient, ExecSingle, RollbackAndRelease, slotVars
  <2>8. CASE \/ \E j \in Janitor : JanitorRelease(j)
             \/ \E x \in Slot : GrowOverdue(x)
             \/ \E d \in Conn : ConnDies(d)
             \/ UNCHANGED vars
    BY <2>6, <2>8 DEF JanitorRelease, GrowOverdue, ConnDies, slotVars, vars
  <2>9. ~ReleaseAll
    BY DEF ReleaseAll
  <2> QED BY <1>1, <2>1, <2>2, <2>3, <2>4, <2>5, <2>7, <2>8, <2>9 DEF Next, Request, Step
<1>2. Steady /\ [Next]_vars =>
        [\A s \in Session, c \in Conn : PinnedFor(s, c) =>
           \/ PinnedFor(s, c)'
           \/ \E w \in Worker : job[w].session = s /\ held'[w] = c
           \/ overdue[smap[s]] /\ c \in bag'["sweeper"]
           \/ c \in bag'["shutdown"]]_vars
  BY <1>1
<1> QED BY <1>2, SteadyAlways, PTL DEF Spec, KeptForItsSession

-----------------------------------------------------------------------------
(* Sessions implements TabTransactions. *)

\* What is kept for a session.
KeptOf(s) == IF smap[s] # NoSlot THEN pinned[smap[s]] ELSE NoConn

\* Nothing is kept in a slot that has left the map.
PinsMapped == \A x \in Slot : pinned[x] # NoConn => Mapped(x)

LEMMA PinsMappedStep ==
  ASSUME Steady, PinsMapped, ~HostShutsDown, [Next]_vars
  PROVE  PinsMapped'
<1>0. /\ smap \in [Session -> Slot \cup {NoSlot}] /\ pinned \in [Slot -> Conn \cup {NoConn}]
      /\ ref \in [Worker -> Slot \cup {NoSlot}]
  BY DEF Steady, Structure, TypeOK
<1>1. ASSUME NEW w \in Worker, NEW k \in {"run", "release"}, NEW s \in Session, Lookup(w, k, s)
      PROVE  PinsMapped'
  <2>1. pinned' = pinned /\ \A r \in Session : smap[r] # NoSlot => smap'[r] = smap[r]
    BY <1>0, <1>1 DEF Lookup, slotVars
  <2> QED BY <1>0, <2>1, ConstantsOK DEF ConstantsOK, PinsMapped, Mapped
<1>2. ASSUME NEW w \in Worker, PinClient(w) PROVE PinsMapped'
  <2>1. ref[w] # NoSlot
    BY <1>2 DEF Steady, Structure, HandlerState, Inside, PinClient
  <2>2. Mapped(ref[w])
    BY <2>1, OwnSlot DEF Mapped
  <2> QED BY <1>0, <1>2, <2>2 DEF PinsMapped, Mapped, PinClient
<1>3. ASSUME NEW w \in Worker, DropGuard(w) PROVE PinsMapped'
  BY <1>3, NotTheLast DEF PinsMapped, Mapped
<1>4. CASE Sweep
  <2> SUFFICES ASSUME NEW x \in Slot, pinned'[x] # NoConn PROVE \E s \in Session : smap'[s] = x
    BY DEF PinsMapped, Mapped
  <2>1. pinned[x] # NoConn /\ \A s \in Session : Expired(s) => smap[s] # x
    BY <1>0, <1>4 DEF Sweep, TakePins
  <2>2. PICK s \in Session : smap[s] = x
    BY <2>1 DEF PinsMapped, Mapped
  <2>3. ~Forgotten(s)
    BY <2>1, <2>2 DEF Forgotten
  <2> QED BY <1>4, <2>2, <2>3 DEF Sweep
<1>5. ASSUME smap' = smap, pinned' \in [Slot -> Conn \cup {NoConn}],
             \A x \in Slot : pinned'[x] \in {pinned[x], NoConn}
      PROVE  PinsMapped'
  BY <1>5 DEF PinsMapped, Mapped
<1>6. ASSUME NEW w \in Worker, TakePinned(w) \/ ReleaseTake(w) PROVE PinsMapped'
  BY <1>0, <1>5, <1>6 DEF TakePinned, ReleaseTake
<1>7. CASE UNCHANGED <<smap, pinned>>
  BY <1>0, <1>5, <1>7
<1>8. ASSUME NEW w \in Worker,
             \/ \E k \in {"run", "single"} : StartSessionless(w, k)
             \/ Enqueue(w) \/ GetClient(w) \/ GetFails(w) \/ SetupDone(w) \/ SetupFails(w)
             \/ ExecStatement(w) \/ EndSessionless(w) \/ ReturnClient(w) \/ ExecSingle(w)
             \/ RollbackAndRelease(w)
      PROVE  PinsMapped'
  BY <1>7, <1>8 DEF StartSessionless, Enqueue, GetClient, GetFails, SetupDone, SetupFails,
       ExecStatement, EndSessionless, ReturnClient, ExecSingle, RollbackAndRelease, slotVars
<1>9. CASE \/ \E j \in Janitor : JanitorRelease(j)
           \/ \E x \in Slot : GrowOverdue(x)
           \/ \E d \in Conn : ConnDies(d)
           \/ UNCHANGED vars
  BY <1>7, <1>9 DEF JanitorRelease, GrowOverdue, ConnDies, slotVars, vars
<1>10. ~ReleaseAll
  BY DEF ReleaseAll
<1> QED BY <1>1, <1>2, <1>3, <1>4, <1>6, <1>8, <1>9, <1>10 DEF Next, Request, Step

Firm == Steady /\ PinsMapped

\* The runs of a session are one, in its slot, which is empty.
LEMMA Runner ==
  ASSUME Steady, NEW s \in Session, NEW w \in Worker, InRun(w, s)
  PROVE  /\ Inside(w) /\ ref[w] # NoSlot /\ smap[s] = ref[w] /\ owner[ref[w]] = w
         /\ KeptOf(s) = NoConn
         /\ \A v \in Worker : InRun(v, s) => v = w
<1>1. ASSUME NEW v \in Worker, InRun(v, s)
      PROVE  /\ Inside(v) /\ ref[v] # NoSlot /\ smap[s] = ref[v] /\ owner[ref[v]] = v
             /\ pinned[ref[v]] = NoConn
  <2>1. job[v].session = s /\ WithSession(v) /\ Inside(v)
    BY <1>1, ConstantsOK DEF ConstantsOK, InRun, WithSession, Inside
  <2>2. ref[v] # NoSlot
    BY <2>1 DEF Steady, Structure, HandlerState
  <2> QED BY <1>1, <2>1, <2>2, OwnSlot DEF Steady, Structure, SlotEmptied, Locking, InRun
<1> QED BY <1>1 DEF KeptOf

\* The same of the state after a step.
LEMMA RunnerAfter ==
  ASSUME Steady', NEW s \in Session, NEW w \in Worker, InRun(w, s)'
  PROVE  KeptOf(s)' = NoConn /\ \A v \in Worker : InRun(v, s)' => v = w
<1>1. ASSUME NEW v \in Worker, InRun(v, s)'
      PROVE  smap'[s] = ref'[v] /\ owner'[ref'[v]] = v /\ pinned'[ref'[v]] = NoConn
  <2>1. job'[v].session = s /\ WithSession(v)' /\ Inside(v)'
    BY <1>1, ConstantsOK DEF ConstantsOK, InRun, WithSession, Inside
  <2>2. ref'[v] # NoSlot
    BY <2>1 DEF Steady, Structure, HandlerState
  <2> QED BY <1>1, <2>1, <2>2 DEF Steady, Tracked, Structure, SlotEmptied, Locking, InRun
<1> QED BY <1>1 DEF KeptOf

\* What a tab sees of its session, before and after a step.
LEMMA Seen ==
  ASSUME Steady, NEW s \in Session
  PROVE  /\ \A w \in Worker : InRun(w, s) => tabPhase[s] = "busy" /\ tabConn[s] = held[w]
         /\ (\A w \in Worker : ~InRun(w, s)) =>
              /\ tabPhase[s] = IF KeptOf(s) # NoConn THEN "kept" ELSE "free"
              /\ tabConn[s] = KeptOf(s)
<1>1. ASSUME NEW w \in Worker, InRun(w, s) PROVE RunnerOf(s) = {w}
  BY <1>1, Runner DEF RunnerOf
<1>2. ASSUME \A w \in Worker : ~InRun(w, s) PROVE RunnerOf(s) = {}
  BY <1>2 DEF RunnerOf
<1> QED BY <1>1, <1>2 DEF tabPhase, tabConn, KeptOf

LEMMA SeenAfter ==
  ASSUME Steady', NEW s \in Session
  PROVE  /\ \A w \in Worker : InRun(w, s)' => tabPhase'[s] = "busy" /\ tabConn'[s] = held'[w]
         /\ (\A w \in Worker : ~InRun(w, s)') =>
              /\ tabPhase'[s] = IF KeptOf(s)' # NoConn THEN "kept" ELSE "free"
              /\ tabConn'[s] = KeptOf(s)'
<1>1. ASSUME NEW w \in Worker, InRun(w, s)' PROVE RunnerOf(s)' = {w}
  BY <1>1, RunnerAfter DEF RunnerOf
<1>2. ASSUME \A w \in Worker : ~InRun(w, s)' PROVE RunnerOf(s)' = {}
  BY <1>2 DEF RunnerOf
<1> QED BY <1>1, <1>2 DEF tabPhase, tabConn, KeptOf

\* A session none of whose runs moves, and whose pin stays, looks the same.
Undisturbed(s) ==
  /\ \A w \in Worker : /\ InRun(w, s)' <=> InRun(w, s)
                       /\ InRun(w, s) => held'[w] = held[w]
  /\ KeptOf(s)' = KeptOf(s)

LEMMA LooksTheSame ==
  ASSUME Steady, Steady', NEW s \in Session, Undisturbed(s)
  PROVE  tabPhase'[s] = tabPhase[s] /\ tabConn'[s] = tabConn[s]
<1>1. CASE \E w \in Worker : InRun(w, s)
  BY <1>1, Seen, SeenAfter DEF Undisturbed
<1>2. CASE \A w \in Worker : ~InRun(w, s)
  BY <1>2, Seen, SeenAfter DEF Undisturbed
<1> QED BY <1>1, <1>2

\* A step that concerns one session, seen from the tabs.
LEMMA OneTab ==
  ASSUME Steady, Steady', NEW s \in Session, \A r \in Session \ {s} : Undisturbed(r)
  PROVE  /\ tabPhase' = [tabPhase EXCEPT ![s] = tabPhase'[s]]
         /\ tabConn' = [tabConn EXCEPT ![s] = tabConn'[s]]
<1>1. \A r \in Session \ {s} : tabPhase'[r] = tabPhase[r] /\ tabConn'[r] = tabConn[r]
  BY LooksTheSame
<1>2. /\ tabPhase = [r \in Session |-> tabPhase[r]] /\ tabConn = [r \in Session |-> tabConn[r]]
      /\ tabPhase' = [r \in Session |-> tabPhase'[r]] /\ tabConn' = [r \in Session |-> tabConn'[r]]
  BY DEF tabPhase, tabConn
<1> QED BY <1>1, <1>2

\* A step that concerns none.
LEMMA NoTab ==
  ASSUME Steady, Steady', \A s \in Session : Undisturbed(s)
  PROVE  UNCHANGED <<tabPhase, tabConn>>
<1>1. \A r \in Session : tabPhase'[r] = tabPhase[r] /\ tabConn'[r] = tabConn[r]
  BY LooksTheSame
<1>2. /\ tabPhase = [r \in Session |-> tabPhase[r]] /\ tabConn = [r \in Session |-> tabConn[r]]
      /\ tabPhase' = [r \in Session |-> tabPhase'[r]] /\ tabConn' = [r \in Session |-> tabConn'[r]]
  BY DEF tabPhase, tabConn
<1> QED BY <1>1, <1>2

\* The steps of w leave the other workers alone.
Alone(w) == \A v \in Worker \ {w} : pc'[v] = pc[v] /\ job'[v] = job[v] /\ held'[v] = held[v]

LEMMA StepAlone == ASSUME Steady, NEW w \in Worker, Request(w) \/ Step(w) PROVE Alone(w)
<1> USE DEF Steady, Structure, TypeOK, Alone, slotVars, workVars
<1>1. CASE Request(w)
  BY <1>1 DEF Request, Lookup, StartSessionless
<1>2. CASE Enqueue(w) \/ TakePinned(w) \/ ReleaseTake(w) \/ DropGuard(w)
  BY <1>2 DEF Enqueue, TakePinned, ReleaseTake, DropGuard
<1>3. CASE GetClient(w)
  BY <1>3 DEF GetClient
<1>4. CASE GetFails(w) \/ SetupDone(w) \/ SetupFails(w) \/ ExecStatement(w)
  BY <1>4 DEF GetFails, SetupDone, SetupFails, ExecStatement
<1>5. CASE PinClient(w) \/ EndSessionless(w) \/ ReturnClient(w) \/ ExecSingle(w) \/ RollbackAndRelease(w)
  BY <1>5 DEF PinClient, EndSessionless, ReturnClient, ExecSingle, RollbackAndRelease
<1> QED BY <1>1, <1>2, <1>3, <1>4, <1>5 DEF Step

\* A worker that begins no run, ends none and changes no pin is not seen.
LEMMA Unseen ==
  ASSUME Steady, Steady', NEW w \in Worker, Alone(w),
         \A s \in Session : /\ InRun(w, s)' <=> InRun(w, s)
                            /\ InRun(w, s) => held'[w] = held[w]
                            /\ KeptOf(s)' = KeptOf(s)
  PROVE  UNCHANGED <<tabPhase, tabConn>>
<1>1. \A s \in Session : Undisturbed(s)
  BY DEF Undisturbed, Alone, InRun
<1> QED BY <1>1, NoTab

\* The run of one session, by the worker that serves it, is seen there only.
LEMMA SeenOnce ==
  ASSUME Steady, Steady', NEW w \in Worker, Alone(w), NEW s \in Session,
         job[w].session = s, job'[w] \in {job[w], NoJob},
         \A r \in Session \ {s} : KeptOf(r)' = KeptOf(r)
  PROVE  /\ tabPhase' = [tabPhase EXCEPT ![s] = tabPhase'[s]]
         /\ tabConn' = [tabConn EXCEPT ![s] = tabConn'[s]]
<1>1. NoJob.session = NoSession /\ NoSession \notin Session
  BY ConstantsOK DEF ConstantsOK, NoJob
<1>2. \A r \in Session \ {s} : ~InRun(w, r) /\ ~InRun(w, r)'
  BY <1>1 DEF InRun
<1>3. \A r \in Session \ {s} : Undisturbed(r)
  BY <1>2 DEF Undisturbed, Alone, InRun
<1> QED BY <1>3, OneTab

\* A change of the pin in one session's slot is no change of what the others keep.
LEMMA KeptElsewhere ==
  ASSUME Steady, NEW s \in Session, smap[s] # NoSlot, smap' = smap,
         \A x \in Slot \ {smap[s]} : pinned'[x] = pinned[x]
  PROVE  \A r \in Session \ {s} : KeptOf(r)' = KeptOf(r)
<1>1. smap \in [Session -> Slot \cup {NoSlot}]
  BY DEF Steady, Structure, TypeOK
<1> QED BY <1>1 DEF Steady, Tracked, KeptOf

\* Whoever has the lock of its session's slot and is in no run, finds none going on.
LEMMA NoRunner ==
  ASSUME Steady, NEW w \in Worker, HasLock(w)
  PROVE  /\ ref[w] # NoSlot /\ ref[w] \in Slot
         /\ job[w].session \in Session /\ smap[job[w].session] = ref[w]
         /\ \A v \in Worker : ~InRun(v, job[w].session)
<1>1. ref[w] # NoSlot
  BY DEF Steady, Structure, HandlerState, HasLock
<1>2. ASSUME NEW v \in Worker, InRun(v, job[w].session) PROVE FALSE
  <2>1. owner[ref[w]] = v
    BY <1>1, <1>2, OwnSlot, Runner
  <2> QED BY <1>2, <2>1 DEF HasLock, InRun
<1> QED BY <1>1, <1>2, OwnSlot

\* A run takes its session's pin: to the tab, it begins on what was kept.
LEMMA MapsTake ==
  ASSUME Steady, Steady', NEW w \in Worker, TakePinned(w), NEW s \in Session, s = job[w].session
  PROVE  Tabs!Begin(s)
<1>1. /\ ref[w] \in Slot /\ smap[s] = ref[w] /\ ref[w] # NoSlot
      /\ \A v \in Worker : ~InRun(v, s)
  BY NoRunner DEF TakePinned
<1>2. /\ pinned \in [Slot -> Conn \cup {NoConn}] /\ job \in [Worker -> Job \cup {NoJob}]
      /\ held \in [Worker -> Conn \cup {NoConn}] /\ pc \in [Worker -> PC]
  BY DEF Steady, Structure, TypeOK
<1>3. Alone(w)
  BY StepAlone DEF Step
<1>4. \A r \in Session \ {s} : KeptOf(r)' = KeptOf(r)
  BY <1>1, <1>2, KeptElsewhere DEF TakePinned
<1>5. /\ tabPhase' = [tabPhase EXCEPT ![s] = tabPhase'[s]]
      /\ tabConn' = [tabConn EXCEPT ![s] = tabConn'[s]]
  <2>1. job'[w] = job[w]
    BY DEF TakePinned
  <2> QED BY <1>1, <1>3, <1>4, <2>1, SeenOnce
<1>6. InRun(w, s)'
  <2>1. job[w] = [kind |-> "run", session |-> s]
    BY <1>1, <1>2, ConstantsOK DEF ConstantsOK, Job, NoJob, TakePinned
  <2> QED BY <1>2, <2>1 DEF TakePinned, InRun
<1>7. tabPhase'[s] = "busy" /\ tabConn'[s] = KeptOf(s)
  <2>1. tabPhase'[s] = "busy" /\ tabConn'[s] = held'[w]
    BY <1>1, <1>6, SeenAfter
  <2> QED BY <1>1, <1>2, <2>1 DEF TakePinned, KeptOf
<1>8. tabPhase[s] \in {"free", "kept"} /\ tabConn[s] = KeptOf(s)
  BY <1>1, Seen
<1>9. tabConn' = tabConn
  BY <1>5, <1>7, <1>8 DEF tabConn
<1> QED BY <1>5, <1>7, <1>8, <1>9 DEF Tabs!Begin

\* The end of a session's run, as the tab sees it.
LEMMA RunEnds ==
  ASSUME Steady, Steady', NEW w \in Worker, NEW s \in Session, InRun(w, s), Alone(w),
         pc'[w] = "dropping", job' = job, smap' = smap,
         \A x \in Slot \ {ref[w]} : pinned'[x] = pinned[x]
  PROVE  /\ tabPhase[s] = "busy" /\ tabConn[s] = held[w]
         /\ tabPhase' = [tabPhase EXCEPT ![s] = IF KeptOf(s)' # NoConn THEN "kept" ELSE "free"]
         /\ tabConn' = [tabConn EXCEPT ![s] = KeptOf(s)']
<1>1. smap[s] = ref[w] /\ ref[w] # NoSlot /\ job[w].session = s
  BY Runner DEF InRun
<1>2. \A r \in Session \ {s} : KeptOf(r)' = KeptOf(r)
  BY <1>1, KeptElsewhere
<1>3. \A v \in Worker : ~InRun(v, s)'
  BY Runner DEF Alone, InRun
<1>4. /\ tabPhase' = [tabPhase EXCEPT ![s] = tabPhase'[s]]
      /\ tabConn' = [tabConn EXCEPT ![s] = tabConn'[s]]
  BY <1>1, <1>2, SeenOnce
<1>5. /\ tabPhase'[s] = IF KeptOf(s)' # NoConn THEN "kept" ELSE "free"
      /\ tabConn'[s] = KeptOf(s)'
  BY <1>3, SeenAfter
<1> QED BY <1>4, <1>5, Seen

\* A run is over without a transaction, or never got a connection.
LEMMA MapsFinish ==
  ASSUME Steady, Steady', NEW w \in Worker, NEW s \in Session, InRun(w, s),
         GetFails(w) \/ SetupFails(w) \/ ReturnClient(w)
  PROVE  Tabs!Finish(s)
<1>1. Alone(w)
  BY StepAlone DEF Step
<1>2. WithSession(w) /\ pc \in [Worker -> PC] /\ job \in [Worker -> Job \cup {NoJob}]
  BY ConstantsOK DEF ConstantsOK, Steady, Structure, TypeOK, InRun, WithSession
<1>3. pc'[w] = "dropping" /\ job' = job /\ smap' = smap /\ pinned' = pinned
  BY <1>2 DEF GetFails, SetupFails, ReturnClient, AfterWork, slotVars
<1>4. KeptOf(s)' = NoConn
  BY <1>3, Runner DEF KeptOf
<1> QED BY <1>1, <1>3, <1>4, RunEnds DEF Tabs!Finish

\* A run pins its connection: to the tab, the transaction is kept on it.
LEMMA MapsPin ==
  ASSUME Steady, Steady', NEW w \in Worker, NEW s \in Session, InRun(w, s), PinClient(w)
  PROVE  Tabs!Keep(s)
<1>1. Alone(w)
  BY StepAlone DEF Step
<1>2. /\ pc \in [Worker -> PC] /\ pinned \in [Slot -> Conn \cup {NoConn}]
      /\ ref[w] \in Slot /\ smap[s] = ref[w] /\ ref[w] # NoSlot
      /\ held[w] # NoConn
  <2>1. ref[w] # NoSlot /\ smap[s] = ref[w]
    BY Runner
  <2> QED BY <2>1, OwnSlot DEF Steady, Structure, TypeOK, HandlerState, PinClient
<1>3. /\ pc'[w] = "dropping" /\ job' = job /\ smap' = smap
      /\ \A x \in Slot \ {ref[w]} : pinned'[x] = pinned[x]
  BY <1>2 DEF PinClient
<1>4. KeptOf(s)' = held[w]
  BY <1>2 DEF PinClient, KeptOf
<1>5. /\ tabPhase[s] = "busy" /\ tabConn[s] = held[w]
      /\ tabPhase' = [tabPhase EXCEPT ![s] = "kept"]
      /\ tabConn' = [tabConn EXCEPT ![s] = held[w]]
  BY <1>1, <1>2, <1>3, <1>4, RunEnds
<1>6. tabConn' = tabConn
  BY <1>5 DEF tabConn
<1> QED BY <1>2, <1>5, <1>6 DEF Tabs!Keep

\* A run gets a client: to the tab, a connection that no other session has.
LEMMA MapsGet ==
  ASSUME Steady, Steady', NEW w \in Worker, NEW s \in Session, InRun(w, s), GetClient(w)
  PROVE  \E c \in Conn : Tabs!Attach(s, c)
<1>0. /\ Alone(w) /\ held \in [Worker -> Conn \cup {NoConn}] /\ held[w] = NoConn
      /\ pc \in [Worker -> PC] /\ pool \in SUBSET Conn
  BY StepAlone DEF Step, Steady, Structure, TypeOK, HandlerState, GetClient
<1>1. PICK c \in Conn : held' = [held EXCEPT ![w] = c] /\ (c \in pool \/ txn[c] = "absent")
  BY <1>0 DEF GetClient, Absent
<1>2. c # NoConn
  BY ConstantsOK DEF ConstantsOK
<1>3. /\ \A v \in Worker : held[v] # c
      /\ \A x \in Slot : pinned[x] # c
  BY <1>1, <1>2 DEF Steady, Structure, OneHome
<1>4. ASSUME NEW r \in Session PROVE tabConn[r] # c
  <2>1. KeptOf(r) # c
    BY <1>2, <1>3 DEF KeptOf, Steady, Structure, TypeOK
  <2> QED BY <1>3, <2>1, Seen
<1>5. job' = job /\ smap' = smap /\ pinned' = pinned /\ pc'[w] = "setup"
  BY <1>0 DEF GetClient, slotVars
<1>6. InRun(w, s)' /\ job[w].session = s
  BY <1>5 DEF InRun
<1>7. /\ tabPhase' = [tabPhase EXCEPT ![s] = tabPhase'[s]]
      /\ tabConn' = [tabConn EXCEPT ![s] = tabConn'[s]]
  BY <1>0, <1>5, <1>6, SeenOnce DEF KeptOf
<1>8. /\ tabPhase[s] = "busy" /\ tabConn[s] = NoConn
      /\ tabPhase'[s] = "busy" /\ tabConn'[s] = c
  BY <1>0, <1>1, <1>6, Seen, SeenAfter
<1>9. tabPhase' = tabPhase
  BY <1>7, <1>8 DEF tabPhase
<1> QED BY <1>4, <1>7, <1>8, <1>9 DEF Tabs!Attach

\* A release takes the pin: to the tab, what was kept has expired, if anything was.
LEMMA MapsRelease ==
  ASSUME Steady, Steady', NEW w \in Worker, ReleaseTake(w), NEW s \in Session, s = job[w].session
  PROVE  Tabs!Expire({s}) \/ UNCHANGED <<tabPhase, tabConn>>
<1>1. /\ ref[w] \in Slot /\ smap[s] = ref[w] /\ ref[w] # NoSlot
      /\ \A v \in Worker : ~InRun(v, s)
  BY NoRunner DEF ReleaseTake
<1>2. /\ pinned \in [Slot -> Conn \cup {NoConn}] /\ Alone(w) /\ job' = job /\ smap' = smap
      /\ \A r \in Session : ~InRun(w, r) /\ ~InRun(w, r)'
  <2>1. Alone(w)
    BY StepAlone DEF Step
  <2>2. pinned \in [Slot -> Conn \cup {NoConn}]
    BY DEF Steady, Structure, TypeOK
  <2>3. job' = job /\ smap' = smap /\ job[w].kind = "release"
    BY DEF ReleaseTake
  <2>4. \A r \in Session : ~InRun(w, r) /\ ~InRun(w, r)'
    BY <2>3 DEF InRun
  <2> QED BY <2>1, <2>2, <2>3, <2>4
<1>3. \A r \in Session \ {s} : KeptOf(r)' = KeptOf(r)
  BY <1>1, <1>2, KeptElsewhere DEF ReleaseTake
<1>4. KeptOf(s)' = NoConn
  BY <1>1, <1>2 DEF KeptOf, ReleaseTake
<1>5. CASE KeptOf(s) = NoConn
  BY <1>2, <1>3, <1>4, <1>5, Unseen
<1>6. CASE KeptOf(s) # NoConn
  <2>1. /\ tabPhase' = [tabPhase EXCEPT ![s] = tabPhase'[s]]
        /\ tabConn' = [tabConn EXCEPT ![s] = tabConn'[s]]
    BY <1>2, <1>3, SeenOnce
  <2>2. \A v \in Worker : ~InRun(v, s)'
    BY <1>1, <1>2 DEF Alone, InRun
  <2>3. tabPhase[s] = "kept" /\ tabPhase'[s] = "free" /\ tabConn'[s] = NoConn
    <3>1. tabPhase[s] = "kept"
      BY <1>1, <1>6, Seen
    <3>2. tabPhase'[s] = "free" /\ tabConn'[s] = NoConn
      BY <1>4, <2>2, SeenAfter
    <3> QED BY <3>1, <3>2
  <2>4. /\ tabPhase' = [r \in Session |-> IF r \in {s} THEN "free" ELSE tabPhase[r]]
        /\ tabConn' = [r \in Session |-> IF r \in {s} THEN NoConn ELSE tabConn[r]]
    <3>1. tabPhase = [r \in Session |-> tabPhase[r]] /\ tabConn = [r \in Session |-> tabConn[r]]
      BY DEF tabPhase, tabConn
    <3> QED BY <2>1, <2>3, <3>1
  <2> QED BY <2>3, <2>4 DEF Tabs!Expire
<1> QED BY <1>5, <1>6

\* A sweep takes the overdue pins: to the tabs, what they had kept has expired.
LEMMA MapsSweep ==
  ASSUME Steady, Steady', Sweep
  PROVE  \E S \in SUBSET Session : Tabs!Expire(S)
<1> DEFINE S == {s \in Session : Expired(s)}
<1>0. /\ smap \in [Session -> Slot \cup {NoSlot}] /\ pinned \in [Slot -> Conn \cup {NoConn}]
      /\ owner \in [Slot -> Worker \cup {NoWorker}]
  BY DEF Steady, Structure, TypeOK
<1>1. \A w \in Worker : pc'[w] = pc[w] /\ job'[w] = job[w] /\ held'[w] = held[w]
  BY DEF Sweep, workVars
<1>2. \A w \in Worker, s \in Session : InRun(w, s)' <=> InRun(w, s)
  BY <1>1 DEF InRun
<1>3. ASSUME NEW s \in Session, Expired(s)
      PROVE  tabPhase[s] = "kept" /\ tabPhase'[s] = "free" /\ tabConn'[s] = NoConn
  <2>1. smap[s] \in Slot /\ smap[s] # NoSlot /\ owner[smap[s]] = NoWorker /\ KeptOf(s) # NoConn
    BY <1>0, <1>3 DEF Expired, Unlocked, KeptOf
  <2>2. \A w \in Worker : ~InRun(w, s)
    BY <2>1, Runner, ConstantsOK DEF ConstantsOK
  <2>3. KeptOf(s)' = NoConn
    BY <1>0, <1>3, <2>1 DEF Sweep, TakePins, KeptOf
  <2> QED BY <1>2, <2>1, <2>2, <2>3, Seen, SeenAfter
<1>4. ASSUME NEW s \in Session, ~Expired(s)
      PROVE  tabPhase'[s] = tabPhase[s] /\ tabConn'[s] = tabConn[s]
  <2>1. KeptOf(s)' = KeptOf(s)
    <3>1. CASE smap[s] = NoSlot
      BY <3>1 DEF Sweep, KeptOf
    <3>2. CASE smap[s] # NoSlot
      <4>1. smap[s] \in Slot /\ \A r \in Session : Expired(r) => smap[r] # smap[s]
        BY <1>0, <1>4, <3>2 DEF Steady, Tracked
      <4>2. pinned'[smap[s]] = pinned[smap[s]]
        BY <4>1 DEF Sweep, TakePins
      <4>3. CASE Forgotten(s)
        <5>1. pinned[smap[s]] = NoConn /\ smap'[s] = NoSlot
          BY <1>4, <4>3 DEF Forgotten, Sweep
        <5> QED BY <3>2, <5>1 DEF KeptOf
      <4>4. CASE ~Forgotten(s)
        BY <4>2, <4>4 DEF Sweep, KeptOf
      <4> QED BY <4>3, <4>4
    <3> QED BY <3>1, <3>2
  <2> QED BY <1>1, <1>2, <2>1, LooksTheSame DEF Undisturbed
<1>5. /\ tabPhase' = [s \in Session |-> IF s \in S THEN "free" ELSE tabPhase[s]]
      /\ tabConn' = [s \in Session |-> IF s \in S THEN NoConn ELSE tabConn[s]]
  <2>1. /\ tabPhase' = [s \in Session |-> tabPhase'[s]]
        /\ tabConn' = [s \in Session |-> tabConn'[s]]
    BY DEF tabPhase, tabConn
  <2> QED BY <1>3, <1>4, <2>1
<1>6. Tabs!Expire(S)
  BY <1>3, <1>5 DEF Tabs!Expire
<1> QED BY <1>6

\* A request that finds or makes its slot has changed nothing that is kept.
LEMMA LookupUnseen ==
  ASSUME Firm, Steady', NEW w \in Worker, NEW k \in {"run", "release"}, NEW s \in Session,
         Lookup(w, k, s)
  PROVE  UNCHANGED <<tabPhase, tabConn>>
<1>0. /\ smap \in [Session -> Slot \cup {NoSlot}] /\ pinned \in [Slot -> Conn \cup {NoConn}]
      /\ pc \in [Worker -> PC]
  BY DEF Firm, Steady, Structure, TypeOK
<1>1. \A r \in Session : KeptOf(r)' = KeptOf(r)
  <2>1. PICK x \in Slot : /\ IF smap[s] = NoSlot THEN x \in FreeSlots ELSE x = smap[s]
                          /\ smap' = [smap EXCEPT ![s] = x]
    BY DEF Lookup
  <2>2. x # NoSlot
    BY ConstantsOK DEF ConstantsOK
  <2>3. smap[s] = NoSlot => pinned[x] = NoConn
    BY <2>1 DEF FreeSlots, Firm, PinsMapped
  <2> QED BY <1>0, <2>1, <2>2, <2>3 DEF Lookup, slotVars, KeptOf
<1>2. \A r \in Session : ~InRun(w, r) /\ ~InRun(w, r)'
  BY <1>0 DEF Lookup, InRun
<1>3. Alone(w)
  BY StepAlone DEF Request, Firm
<1> QED BY <1>1, <1>2, <1>3, Unseen DEF Firm

\* What a worker does before it has the lock, between two of the steps above, and for
\* requests without a session, no tab sees.
LEMMA WorkerUnseen ==
  ASSUME Steady, Steady', NEW w \in Worker,
         \/ \E k \in {"run", "single"} : StartSessionless(w, k)
         \/ Enqueue(w) \/ DropGuard(w) \/ SetupDone(w) \/ ExecStatement(w)
         \/ EndSessionless(w) \/ ExecSingle(w) \/ RollbackAndRelease(w)
         \/ /\ \A s \in Session : ~InRun(w, s)
            /\ GetClient(w) \/ GetFails(w) \/ SetupFails(w) \/ ReturnClient(w)
  PROVE  UNCHANGED <<tabPhase, tabConn>>
<1>0. /\ pc \in [Worker -> PC] /\ job \in [Worker -> Job \cup {NoJob}]
      /\ held \in [Worker -> Conn \cup {NoConn}]
      /\ NoSession \notin Session /\ NoJob.session = NoSession
  BY ConstantsOK DEF ConstantsOK, Steady, Structure, TypeOK, NoJob
<1>1. Alone(w)
  BY StepAlone DEF Step, Request
<1>2. smap' = smap /\ pinned' = pinned
  BY NotTheLast DEF StartSessionless, Enqueue, SetupDone, ExecStatement, EndSessionless,
     ExecSingle, RollbackAndRelease, GetClient, GetFails, SetupFails, ReturnClient, slotVars
<1>3. \A s \in Session : KeptOf(s)' = KeptOf(s)
  BY <1>2 DEF KeptOf
<1>4. ASSUME NEW s \in Session
      PROVE  (InRun(w, s)' <=> InRun(w, s)) /\ (InRun(w, s) => held'[w] = held[w])
  <2>1. CASE (\E k \in {"run", "single"} : StartSessionless(w, k)) \/ Enqueue(w) \/ DropGuard(w)
    BY <1>0, <2>1 DEF StartSessionless, Enqueue, DropGuard, InRun
  <2>2. CASE SetupDone(w) \/ ExecStatement(w)
    BY <1>0, <2>2 DEF SetupDone, ExecStatement, InRun
  <2>3. CASE EndSessionless(w) \/ ExecSingle(w) \/ RollbackAndRelease(w)
    <3>1. \/ job[w].session = NoSession
          \/ job[w].kind = "single"
          \/ pc[w] = "rollback"
      BY <2>3 DEF EndSessionless, ExecSingle, RollbackAndRelease, WithSession
    <3>2. pc'[w] \in {"rollback", "idle"}
      BY <1>0, <2>3 DEF EndSessionless, ExecSingle, RollbackAndRelease
    <3> QED BY <1>0, <3>1, <3>2 DEF InRun
  <2>4. CASE /\ ~InRun(w, s)
             /\ GetClient(w) \/ GetFails(w) \/ SetupFails(w) \/ ReturnClient(w)
    <3>1. pc[w] \in {"acquire", "setup", "running"} /\ job'[w] \in {job[w], NoJob}
      BY <1>0, <2>4 DEF GetClient, GetFails, SetupFails, ReturnClient
    <3> QED BY <1>0, <2>4, <3>1 DEF InRun
  <2> QED BY <2>1, <2>2, <2>3, <2>4
<1> QED BY <1>1, <1>3, <1>4, Unseen

\* Whatever step is taken, the tabs see one that TabTransactions allows, or none.
LEMMA Maps ==
  ASSUME Firm, Steady', ~HostShutsDown, [Next]_vars
  PROVE  [Tabs!TabNext]_<<tabPhase, tabConn>>
<1> USE DEF Firm
<1>0. job \in [Worker -> Job \cup {NoJob}]
  BY DEF Steady, Structure, TypeOK
<1>1. ASSUME NEW w \in Worker, NEW s \in Session, InRun(w, s),
             GetClient(w) \/ GetFails(w) \/ SetupFails(w) \/ ReturnClient(w)
      PROVE  Tabs!TabNext
  BY <1>1, MapsGet, MapsFinish DEF Tabs!TabNext
<1>2. ASSUME NEW w \in Worker, TakePinned(w) PROVE Tabs!TabNext
  <2>1. job[w].session \in Session
    BY <1>2, NoRunner DEF TakePinned
  <2> QED BY <1>2, <2>1, MapsTake DEF Tabs!TabNext
<1>3. ASSUME NEW w \in Worker, ReleaseTake(w)
      PROVE  Tabs!TabNext \/ UNCHANGED <<tabPhase, tabConn>>
  <2>1. job[w].session \in Session
    BY <1>3, NoRunner DEF ReleaseTake
  <2> QED BY <1>3, <2>1, MapsRelease DEF Tabs!TabNext
<1>4. ASSUME NEW w \in Worker, PinClient(w) PROVE Tabs!TabNext
  <2>1. PICK s \in Session : InRun(w, s)
    BY <1>0, <1>4, ConstantsOK DEF ConstantsOK, PinClient, WithSession, InRun, Job, NoJob
  <2> QED BY <1>4, <2>1, MapsPin DEF Tabs!TabNext
<1>5. CASE Sweep
  BY <1>5, MapsSweep DEF Tabs!TabNext
<1>6. CASE \/ \E j \in Janitor : JanitorRelease(j)
           \/ \E x \in Slot : GrowOverdue(x)
           \/ \E d \in Conn : ConnDies(d)
           \/ UNCHANGED vars
  <2>1. UNCHANGED <<smap, pinned, pc, job, held>>
    BY <1>6 DEF JanitorRelease, GrowOverdue, ConnDies, slotVars, workVars, vars
  <2> QED BY <2>1, NoTab DEF Undisturbed, KeptOf, InRun
<1>7. ASSUME NEW w \in Worker, Request(w) PROVE UNCHANGED <<tabPhase, tabConn>>
  BY <1>7, LookupUnseen, WorkerUnseen DEF Request
<1>8. ASSUME NEW w \in Worker, Step(w) PROVE Tabs!TabNext \/ UNCHANGED <<tabPhase, tabConn>>
  <2>1. CASE \E s \in Session : InRun(w, s)
    BY <1>1, <1>2, <1>3, <1>4, <1>8, <2>1, WorkerUnseen DEF Step
  <2>2. CASE \A s \in Session : ~InRun(w, s)
    BY <1>2, <1>3, <1>4, <1>8, <2>2, WorkerUnseen DEF Step
  <2> QED BY <2>1, <2>2
<1>9. ~ReleaseAll
  BY DEF ReleaseAll
<1> QED BY <1>5, <1>6, <1>7, <1>8, <1>9 DEF Next

LEMMA FirmInit == Init => Firm /\ Tabs!TabInit
<1> SUFFICES ASSUME Init PROVE Firm /\ Tabs!TabInit
  OBVIOUS
<1>1. Structure
  BY StructureInit
<1>2. Tracked /\ PinsMapped
  BY DEF Init, Tracked, PinsMapped
<1>3. \A s \in Session, w \in Worker : ~InRun(w, s)
  BY DEF Init, InRun
<1>4. ASSUME NEW s \in Session PROVE tabPhase[s] = "free" /\ tabConn[s] = NoConn
  BY <1>1, <1>2, <1>3, Seen DEF Init, KeptOf, Steady
<1>5. tabPhase = [s \in Session |-> "free"] /\ tabConn = [s \in Session |-> NoConn]
  <2>1. tabPhase = [s \in Session |-> tabPhase[s]] /\ tabConn = [s \in Session |-> tabConn[s]]
    BY DEF tabPhase, tabConn
  <2> QED BY <1>4, <2>1
<1> QED BY <1>1, <1>2, <1>5 DEF Firm, Steady, Tabs!TabInit

\* Sessions implements TabTransactions: runs of one session one at a time, each on the
\* connection the last one kept (session.rs, the header).
THEOREM Implements == ASSUME ~HostShutsDown PROVE Spec => ImplementsTabs
<1>1. Init => Firm /\ Tabs!TabInit
  BY FirmInit
<1>2. Firm /\ [Next]_vars => Firm'
  BY StructureStep, TrackedStep, PinsMappedStep DEF Firm, Steady
<1>3. Firm /\ Firm' /\ [Next]_vars => [Tabs!TabNext]_Tabs!tabVars
  BY Maps DEF Firm, Tabs!tabVars
<1> QED BY <1>1, <1>2, <1>3, PTL DEF Spec, ImplementsTabs, Tabs!TabSpec
=============================================================================
