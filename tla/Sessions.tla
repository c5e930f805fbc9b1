------------------------------ MODULE Sessions ------------------------------
(***************************************************************************)
(* Connections pinned to host sessions: session.rs, the session path of    *)
(* handlers/query.rs (run_batch_in_session) and the session-less           *)
(* single-statement path (exec_query), over one connection pool that       *)
(* recycles without resetting.                                             *)
(*                                                                         *)
(* Worker w serves one request at a time:                                  *)
(*   "run"     a batch, or a single statement sent with a session id;      *)
(*   "single"  a single statement sent without one;                        *)
(*   "release" release_session.                                            *)
(* The janitors are the cleanup task ("sweeper", sweep_idle) and the       *)
(* shutdown handler ("shutdown", release_all).                             *)
(*                                                                         *)
(* A Slot is a heap object behind an Arc: the map holds one reference,     *)
(* every worker whose ref names it another; it is dropped with its last    *)
(* reference.  Its mutex is tokio's: a released lock passes to the first   *)
(* waiter, so try_lock succeeds only when nobody owns it.                  *)
(***************************************************************************)
EXTENDS TxnEffects, Naturals, Sequences, FiniteSets

CONSTANTS
  Session,            \* session ids the host sends
  Worker,             \* the workers of the general lane
  Slot,               \* identities for slot objects
  Conn,               \* identities for the pool's connections (its max size)
  NoSession, NoSlot, NoConn, NoWorker,
  SessionlessEffects, \* classes of statement the host sends without session
  EndersRejected,     \* may the server refuse a COMMIT/ROLLBACK unexecuted?
  HostShutsDown       \* does the host send shutdown while it sends requests?

ASSUME ConstantsOK ==
  /\ NoSession \notin Session
  /\ NoSlot \notin Slot
  /\ NoConn \notin Conn
  /\ NoWorker \notin Worker
  /\ SessionlessEffects \subseteq TransactionEffect
  /\ EndersRejected \in BOOLEAN
  /\ HostShutsDown \in BOOLEAN

Janitor == {"sweeper", "shutdown"}
Kind    == {"run", "single", "release"}
Queue   == Seq(Worker)

VARIABLES
  smap,    \* the session map: the slot each session id has, if any
  pinned,  \* per slot, the connection pinned in it
  overdue, \* per slot, whether its pin is older than MAX_IDLE
  owner,   \* per slot, the worker that owns its mutex
  waiters, \* per slot, the FIFO queue of its mutex
  pc,      \* per worker, where in its handler it is
  job,     \* per worker, the request: its kind and session
  ref,     \* per worker, the slot it holds a reference to
  held,    \* per worker, the connection it has checked out
  inTxn,   \* per worker, the handler's in_transaction flag
  bag,     \* per janitor, clients taken from slots and not yet rolled back
  pool,    \* the connections lying in the pool
  txn      \* per connection, the server's transaction state

slotVars == <<pinned, overdue, owner, waiters>>
workVars == <<pc, job, ref, held, inTxn>>
vars == <<smap, pinned, overdue, owner, waiters, pc, job, ref, held, inTxn,
          bag, pool, txn>>

NoJob == [kind |-> "none", session |-> NoSession]
Job == [kind : Kind, session : Session \cup {NoSession}]

PC == {"idle", "cloned", "locking", "acquire", "setup", "running", "dropping",
       "rollback"}

TypeOK ==
  /\ smap \in [Session -> Slot \cup {NoSlot}]
  /\ pinned \in [Slot -> Conn \cup {NoConn}]
  /\ overdue \in [Slot -> BOOLEAN]
  /\ owner \in [Slot -> Worker \cup {NoWorker}]
  /\ waiters \in [Slot -> Queue]
  /\ pc \in [Worker -> PC]
  /\ job \in [Worker -> Job \cup {NoJob}]
  /\ ref \in [Worker -> Slot \cup {NoSlot}]
  /\ held \in [Worker -> Conn \cup {NoConn}]
  /\ inTxn \in [Worker -> BOOLEAN]
  /\ bag \in [Janitor -> SUBSET Conn]
  /\ pool \in SUBSET Conn
  /\ txn \in [Conn -> TxnState]

Init ==
  /\ smap = [s \in Session |-> NoSlot]
  /\ pinned = [x \in Slot |-> NoConn]
  /\ overdue = [x \in Slot |-> FALSE]
  /\ owner = [x \in Slot |-> NoWorker]
  /\ waiters = [x \in Slot |-> <<>>]
  /\ pc = [w \in Worker |-> "idle"]
  /\ job = [w \in Worker |-> NoJob]
  /\ ref = [w \in Worker |-> NoSlot]
  /\ held = [w \in Worker |-> NoConn]
  /\ inTxn = [w \in Worker |-> FALSE]
  /\ bag = [j \in Janitor |-> {}]
  /\ pool = {}
  /\ txn = [c \in Conn |-> "absent"]

-----------------------------------------------------------------------------
(* Helpers. *)

Mapped(x)     == \E s \in Session : smap[s] = x
Referenced(x) == \E w \in Worker : ref[w] = x

\* Identities no live slot object has: what an allocation may choose from.
FreeSlots == {x \in Slot : ~Mapped(x) /\ ~Referenced(x)}

\* Mutant of HasLock: the handler does not wait for its slot's mutex.
NoWait(w) == pc[w] = "locking"

HasLock(w) == pc[w] = "locking" /\ owner[ref[w]] = w

WithSession(w) == job[w].session # NoSession

\* Connections that exist, and no longer lie in the pool.
CheckedOut == {c \in Conn : txn[c] # "absent" /\ c \notin pool}

Absent == {c \in Conn : txn[c] = "absent"}

\* Where a handler goes when its work is done: to drop its guard, if it has one.
AfterWork(w) == IF WithSession(w) THEN "dropping" ELSE "idle"

\* session.rs drops the last reference to a slot: a connection still pinned in
\* it is closed, and the server rolls its transaction back.
CloseIn(x) == IF pinned[x] = NoConn THEN txn ELSE [txn EXCEPT ![pinned[x]] = "absent"]

-----------------------------------------------------------------------------
(* A request with a session id: lock its slot. *)

\* lock(), first half: under the map's lock, find or create the slot and clone
\* its Arc.
Lookup(w, k, s) ==
  /\ pc[w] = "idle"
  /\ \E x \in Slot :
       /\ IF smap[s] = NoSlot THEN x \in FreeSlots ELSE x = smap[s]
       /\ smap' = [smap EXCEPT ![s] = x]
       /\ ref' = [ref EXCEPT ![w] = x]
  /\ job' = [job EXCEPT ![w] = [kind |-> k, session |-> s]]
  /\ pc' = [pc EXCEPT ![w] = "cloned"]
  /\ UNCHANGED <<slotVars, held, inTxn, bag, pool, txn>>

\* lock(), second half: lock_owned() takes a free mutex or joins its queue.
Enqueue(w) ==
  /\ pc[w] = "cloned"
  /\ IF owner[ref[w]] = NoWorker
       THEN /\ owner' = [owner EXCEPT ![ref[w]] = w]
            /\ UNCHANGED waiters
       ELSE /\ waiters' = [waiters EXCEPT ![ref[w]] = Append(@, w)]
            /\ UNCHANGED owner
  /\ pc' = [pc EXCEPT ![w] = "locking"]
  /\ UNCHANGED <<smap, pinned, overdue, job, ref, held, inTxn, bag, pool, txn>>

\* The guard and the Arc are dropped: the mutex passes on, and a slot with no
\* reference left goes with whatever is pinned in it.
DropGuard(w) ==
  LET x == ref[w]
      last == ~Mapped(x) /\ \A v \in Worker \ {w} : ref[v] # x
  IN
  /\ pc[w] = "dropping"
  /\ IF waiters[x] = <<>>
       THEN /\ owner' = [owner EXCEPT ![x] = NoWorker]
            /\ UNCHANGED waiters
       ELSE /\ owner' = [owner EXCEPT ![x] = Head(waiters[x])]
            /\ waiters' = [waiters EXCEPT ![x] = Tail(@)]
  /\ ref' = [ref EXCEPT ![w] = NoSlot]
  /\ txn' = IF last THEN CloseIn(x) ELSE txn
  /\ pinned' = IF last THEN [pinned EXCEPT ![x] = NoConn] ELSE pinned
  /\ overdue' = IF last THEN [overdue EXCEPT ![x] = FALSE] ELSE overdue
  /\ pc' = [pc EXCEPT ![w] = IF held[w] = NoConn THEN "idle" ELSE "rollback"]
  /\ job' = [job EXCEPT ![w] = IF held[w] = NoConn THEN NoJob ELSE @]
  /\ UNCHANGED <<smap, held, inTxn, bag, pool>>

-----------------------------------------------------------------------------
(* run_batch_in_session and exec_query. *)

\* A batch, or a single statement, that names no session.
StartSessionless(w, k) ==
  /\ pc[w] = "idle"
  /\ job' = [job EXCEPT ![w] = [kind |-> k, session |-> NoSession]]
  /\ inTxn' = [inTxn EXCEPT ![w] = FALSE]
  /\ pc' = [pc EXCEPT ![w] = "acquire"]
  /\ UNCHANGED <<smap, slotVars, ref, held, bag, pool, txn>>

\* Mutant of TakePinned: a run leaves the pin alone and takes a pooled client.
FreshClient(w) ==
  /\ HasLock(w)
  /\ job[w].kind = "run"
  /\ inTxn' = [inTxn EXCEPT ![w] = FALSE]
  /\ pc' = [pc EXCEPT ![w] = "acquire"]
  /\ UNCHANGED <<smap, slotVars, job, ref, held, bag, pool, txn>>

\* With the lock held, take the pinned connection out of the slot; with one,
\* the run continues its transaction, without one it needs a pooled client.
TakePinned(w) ==
  LET c == pinned[ref[w]] IN
  /\ HasLock(w)
  /\ job[w].kind = "run"
  /\ held' = [held EXCEPT ![w] = c]
  /\ inTxn' = [inTxn EXCEPT ![w] = c # NoConn]
  /\ pinned' = [pinned EXCEPT ![ref[w]] = NoConn]
  /\ overdue' = [overdue EXCEPT ![ref[w]] = FALSE]
  /\ pc' = [pc EXCEPT ![w] = IF c # NoConn THEN "running" ELSE "acquire"]
  /\ UNCHANGED <<smap, owner, waiters, job, ref, bag, pool, txn>>

\* pool.get(): waits for one of the pool's permits, then pops pooled
\* connections, discarding dead ones, until one is alive, and connects anew
\* when none is.
GetClient(w) ==
  /\ pc[w] = "acquire"
  /\ CheckedOut # Conn
  /\ \E dropped \in SUBSET {c \in pool : txn[c] = "dead"} :
       \/ \E c \in pool \ dropped :
            /\ txn[c] # "dead"
            /\ held' = [held EXCEPT ![w] = c]
            /\ pool' = pool \ (dropped \cup {c})
            /\ txn' = [d \in Conn |-> IF d \in dropped THEN "absent" ELSE txn[d]]
       \/ /\ pool = dropped
          /\ \E c \in Absent \cup dropped :
               /\ held' = [held EXCEPT ![w] = c]
               /\ pool' = {}
               /\ txn' = [d \in Conn |-> IF d = c THEN "idle"
                                         ELSE IF d \in dropped THEN "absent"
                                         ELSE txn[d]]
  /\ pc' = [pc EXCEPT ![w] = "setup"]
  /\ UNCHANGED <<smap, slotVars, job, ref, inTxn, bag>>

\* pool.get() fails: the handler returns the error.
GetFails(w) ==
  /\ pc[w] = "acquire"
  /\ pc' = [pc EXCEPT ![w] = AfterWork(w)]
  /\ job' = [job EXCEPT ![w] = IF WithSession(w) THEN @ ELSE NoJob]
  /\ UNCHANGED <<smap, slotVars, ref, held, inTxn, bag, pool, txn>>

\* apply_search_path on a fresh client succeeds, or no schema was given.
SetupDone(w) ==
  /\ pc[w] = "setup"
  /\ pc' = [pc EXCEPT ![w] = "running"]
  /\ UNCHANGED <<smap, slotVars, job, ref, held, inTxn, bag, pool, txn>>

\* Mutant of SetupFails: the early return forgets the client.
LeakClient(w) ==
  /\ pc[w] = "setup"
  /\ held' = [held EXCEPT ![w] = NoConn]
  /\ pc' = [pc EXCEPT ![w] = AfterWork(w)]
  /\ job' = [job EXCEPT ![w] = IF WithSession(w) THEN @ ELSE NoJob]
  /\ UNCHANGED <<smap, slotVars, ref, inTxn, bag, pool, txn>>

\* apply_search_path fails: the early return drops the client into the pool.
SetupFails(w) ==
  /\ pc[w] = "setup"
  /\ pool' = pool \cup {held[w]}
  /\ held' = [held EXCEPT ![w] = NoConn]
  /\ pc' = [pc EXCEPT ![w] = AfterWork(w)]
  /\ job' = [job EXCEPT ![w] = IF WithSession(w) THEN @ ELSE NoJob]
  /\ UNCHANGED <<smap, slotVars, ref, inTxn, bag, txn>>

\* One statement of a batch: it runs, the handler rolls back a block the
\* statement aborted, and the flag is recomputed.  An error does not end the
\* batch.
ExecStatement(w) ==
  /\ pc[w] = "running"
  /\ job[w].kind = "run"
  /\ \E e \in TransactionEffect : \E o \in ServerOutcomes(txn[held[w]], e, EndersRejected) :
       /\ txn' = [txn EXCEPT ![held[w]] = TxnAfterStatement(o, e, inTxn[w])]
       /\ inTxn' = [inTxn EXCEPT ![w] = InTransactionAfterOutcome(e, o.ok, inTxn[w])]
  /\ UNCHANGED <<smap, slotVars, pc, job, ref, held, bag, pool>>

\* The batch is over with a transaction open and a session to keep it for.
\* Pinning over a pinned connection would drop the old one into the pool.
PinClient(w) ==
  LET x == ref[w]
      old == pinned[x]
  IN
  /\ pc[w] = "running"
  /\ job[w].kind = "run"
  /\ WithSession(w) /\ inTxn[w]
  /\ pinned' = [pinned EXCEPT ![x] = held[w]]
  /\ overdue' = [overdue EXCEPT ![x] = FALSE]
  /\ pool' = pool \cup ({old} \ {NoConn})
  /\ held' = [held EXCEPT ![w] = NoConn]
  /\ pc' = [pc EXCEPT ![w] = "dropping"]
  /\ UNCHANGED <<smap, owner, waiters, job, ref, inTxn, bag, txn>>

\* The batch is over with a transaction open and no session: roll it back.
EndSessionless(w) ==
  /\ pc[w] = "running"
  /\ job[w].kind = "run"
  /\ ~WithSession(w) /\ inTxn[w]
  /\ pc' = [pc EXCEPT ![w] = "rollback"]
  /\ UNCHANGED <<smap, slotVars, job, ref, held, inTxn, bag, pool, txn>>

\* The batch is over with no transaction open: the client drops into the pool.
ReturnClient(w) ==
  /\ pc[w] = "running"
  /\ job[w].kind = "run"
  /\ ~inTxn[w]
  /\ pool' = pool \cup {held[w]}
  /\ held' = [held EXCEPT ![w] = NoConn]
  /\ pc' = [pc EXCEPT ![w] = AfterWork(w)]
  /\ job' = [job EXCEPT ![w] = IF WithSession(w) THEN @ ELSE NoJob]
  /\ UNCHANGED <<smap, slotVars, ref, inTxn, bag, txn>>

\* exec_query: one statement, always run as if no transaction could be open,
\* and the client drops into the pool whatever the statement did.
ExecSingle(w) ==
  /\ pc[w] = "running"
  /\ job[w].kind = "single"
  /\ \E e \in SessionlessEffects : \E o \in ServerOutcomes(txn[held[w]], e, EndersRejected) :
       txn' = [txn EXCEPT ![held[w]] = TxnAfterStatement(o, e, FALSE)]
  /\ pool' = pool \cup {held[w]}
  /\ held' = [held EXCEPT ![w] = NoConn]
  /\ pc' = [pc EXCEPT ![w] = "idle"]
  /\ job' = [job EXCEPT ![w] = NoJob]
  /\ UNCHANGED <<smap, slotVars, ref, inTxn, bag>>

\* rollback_and_release, for the client a worker holds.  A ROLLBACK that fails
\* is only logged; the client drops into the pool either way.
RollbackAndRelease(w) ==
  /\ pc[w] = "rollback"
  /\ txn' = [txn EXCEPT ![held[w]] = AfterRollback(@)]
  /\ pool' = pool \cup {held[w]}
  /\ held' = [held EXCEPT ![w] = NoConn]
  /\ pc' = [pc EXCEPT ![w] = "idle"]
  /\ job' = [job EXCEPT ![w] = NoJob]
  /\ UNCHANGED <<smap, slotVars, ref, inTxn, bag>>

-----------------------------------------------------------------------------
(* release, sweep_idle and release_all. *)

\* release(): take what is pinned, drop the guard, and only then roll back.
ReleaseTake(w) ==
  /\ HasLock(w)
  /\ job[w].kind = "release"
  /\ held' = [held EXCEPT ![w] = pinned[ref[w]]]
  /\ pinned' = [pinned EXCEPT ![ref[w]] = NoConn]
  /\ overdue' = [overdue EXCEPT ![ref[w]] = FALSE]
  /\ pc' = [pc EXCEPT ![w] = "dropping"]
  /\ UNCHANGED <<smap, owner, waiters, job, ref, inTxn, bag, pool, txn>>

\* try_lock() succeeds: the mutex has no owner, so nobody waits for it either.
Unlocked(s) == smap[s] # NoSlot /\ owner[smap[s]] = NoWorker

\* Mutants of Expired: every unlocked pin is taken; or the young ones are.
AnyPin(s)   == Unlocked(s) /\ pinned[smap[s]] # NoConn
YoungPin(s) == AnyPin(s) /\ ~overdue[smap[s]]

\* The slot has expired: it is unlocked, and its pin is older than MAX_IDLE.
Expired(s) == Unlocked(s) /\ pinned[smap[s]] # NoConn /\ overdue[smap[s]]

\* Mutant of Forgotten: no look at the reference count.
ForgottenInUse(s) == Unlocked(s) /\ (pinned[smap[s]] = NoConn \/ Expired(s))

\* Only the map holds the slot and nothing is left pinned in it.
Forgotten(s) ==
  /\ Unlocked(s)
  /\ pinned[smap[s]] = NoConn \/ Expired(s)
  /\ ~Referenced(smap[s])

\* Take the pins of the sessions in S out of their slots, for janitor j.
TakePins(j, S) ==
  LET slots == {smap[s] : s \in S} IN
  /\ bag' = [bag EXCEPT ![j] = @ \cup ({pinned[x] : x \in slots} \ {NoConn})]
  /\ pinned' = [x \in Slot |-> IF x \in slots THEN NoConn ELSE pinned[x]]
  /\ overdue' = [x \in Slot |-> IF x \in slots THEN FALSE ELSE overdue[x]]

\* sweep_idle(), under the map's lock.
Sweep ==
  /\ bag["sweeper"] = {}
  /\ TakePins("sweeper", {s \in Session : Expired(s)})
  /\ smap' = [s \in Session |-> IF Forgotten(s) THEN NoSlot ELSE smap[s]]
  /\ UNCHANGED <<owner, waiters, workVars, pool, txn>>

\* release_all(), under the map's lock: every slot whose lock is free is taken
\* from and forgotten, whoever else refers to it.
ReleaseAll ==
  /\ HostShutsDown
  /\ bag["shutdown"] = {}
  /\ TakePins("shutdown", {s \in Session : Unlocked(s)})
  /\ smap' = [s \in Session |-> IF Unlocked(s) THEN NoSlot ELSE smap[s]]
  /\ UNCHANGED <<owner, waiters, workVars, pool, txn>>

\* Mutant of JanitorRelease: the client is dropped as it is.
DropUnreset(j) ==
  \E c \in bag[j] :
    /\ pool' = pool \cup {c}
    /\ bag' = [bag EXCEPT ![j] = @ \ {c}]
    /\ UNCHANGED <<smap, slotVars, workVars, txn>>

\* A janitor rolls back and releases the clients it took, one by one.
JanitorRelease(j) ==
  \E c \in bag[j] :
    /\ txn' = [txn EXCEPT ![c] = AfterRollback(@)]
    /\ pool' = pool \cup {c}
    /\ bag' = [bag EXCEPT ![j] = @ \ {c}]
    /\ UNCHANGED <<smap, slotVars, workVars>>

-----------------------------------------------------------------------------
(* The environment: time, and the server. *)

\* MAX_IDLE elapses for a pinned connection.
GrowOverdue(x) ==
  /\ pinned[x] # NoConn
  /\ ~overdue[x]
  /\ overdue' = [overdue EXCEPT ![x] = TRUE]
  /\ UNCHANGED <<smap, pinned, owner, waiters, workVars, bag, pool, txn>>

\* A connection breaks; the server rolls its transaction back.
ConnDies(c) ==
  /\ txn[c] \notin {"absent", "dead"}
  /\ txn' = [txn EXCEPT ![c] = "dead"]
  /\ UNCHANGED <<smap, slotVars, workVars, bag, pool>>

-----------------------------------------------------------------------------
Request(w) ==
  \/ \E s \in Session, k \in {"run", "release"} : Lookup(w, k, s)
  \/ \E k \in {"run", "single"} : StartSessionless(w, k)

\* What a worker does by itself once it has a request.
Step(w) ==
  \/ Enqueue(w) \/ TakePinned(w) \/ ReleaseTake(w) \/ DropGuard(w)
  \/ GetClient(w) \/ GetFails(w) \/ SetupDone(w) \/ SetupFails(w)
  \/ ExecStatement(w) \/ PinClient(w) \/ EndSessionless(w) \/ ReturnClient(w)
  \/ ExecSingle(w) \/ RollbackAndRelease(w)

Next ==
  \/ \E w \in Worker : Request(w) \/ Step(w)
  \/ Sweep
  \/ ReleaseAll
  \/ \E j \in Janitor : JanitorRelease(j)
  \/ \E x \in Slot : GrowOverdue(x)
  \/ \E c \in Conn : ConnDies(c)

Spec == Init /\ [][Next]_vars

\* A run reads the flag; here is what the workers do to get one answered.
FinishRun(w) == PinClient(w) \/ EndSessionless(w) \/ ReturnClient(w)
SetUp(w)     == SetupDone(w) \/ SetupFails(w)

\* The scheduling the code relies on: every task is polled again once what it
\* awaits is ready, batches are finite, the server answers, and the cleanup
\* timer ticks.  Strong fairness on GetClient is the FIFO order of the pool's
\* semaphore.
Fairness ==
  /\ \A w \in Worker :
       /\ WF_vars(Enqueue(w)) /\ WF_vars(TakePinned(w)) /\ WF_vars(ReleaseTake(w))
       /\ WF_vars(DropGuard(w)) /\ SF_vars(GetClient(w)) /\ WF_vars(SetUp(w))
       /\ WF_vars(FinishRun(w)) /\ WF_vars(ExecSingle(w))
       /\ WF_vars(RollbackAndRelease(w))
  /\ WF_vars(Sweep)
  /\ \A j \in Janitor : WF_vars(JanitorRelease(j))
  /\ \A x \in Slot : WF_vars(GrowOverdue(x))

FairSpec == Spec /\ Fairness

-----------------------------------------------------------------------------
(* Safety. *)

\* What a session's run does between taking the slot's pin and dropping the
\* slot's guard.
InRun(w, s) ==
  /\ job[w] = [kind |-> "run", session |-> s]
  /\ pc[w] \in {"acquire", "setup", "running"}

PinnedFor(s, c) == smap[s] # NoSlot /\ pinned[smap[s]] = c

\* session.rs:14-16: the pool resets nothing, so no connection may lie in it
\* with a transaction open or aborted: the next borrower would inherit it.
PoolClean == \A c \in pool : txn[c] \in {"idle", "dead"}

\* query.rs:133: a pinned connection only exists because its transaction is
\* still open (or the server has dropped the connection meanwhile); it is never
\* an aborted one, which every later run of the session would trip over.
PinnedOpen == \A x \in Slot : pinned[x] # NoConn => txn[pinned[x]] \in {"open", "dead"}

\* The in_transaction the handler pins, rolls back and replies by is the
\* server's: TRUE exactly when the live connection has a transaction open.
FlagTruthful ==
  \A w \in Worker :
    /\ pc[w] = "running" /\ job[w].kind = "run"
    /\ txn[held[w]] # "dead"
    => txn[held[w]] = IF inTxn[w] THEN "open" ELSE "idle"

\* session.rs:18-20: each session has its own lock, held for a whole run, so
\* overlapping calls for one session run one after the other.
OneRunPerSession ==
  \A s \in Session : \A v, w \in Worker : InRun(v, s) /\ InRun(w, s) => v = w

\* session.rs:18-20, "on the same connection": while a session runs, no other
\* connection is kept for it that its transaction could be stranded on.
RunHasTheTransaction ==
  \A s \in Session, w \in Worker :
    InRun(w, s) => smap[s] # NoSlot /\ pinned[smap[s]] = NoConn

\* A transaction kept for a session moves only to a run or a release of that
\* same session, or, once it is overdue, to the sweeper; the plugin never
\* closes it and never serves it to anybody else.
KeptForItsSession ==
  [][\A s \in Session, c \in Conn : PinnedFor(s, c) =>
       \/ PinnedFor(s, c)'
       \/ \E w \in Worker : job[w].session = s /\ held'[w] = c
       \/ overdue[smap[s]] /\ c \in bag'["sweeper"]
       \/ c \in bag'["shutdown"]]_vars

\* The plugin ends transactions with a statement, never by closing a live
\* connection that has one: Slot::drop is a safety net no run falls into.
NeverClosesOpen ==
  [][\A c \in Conn : txn[c] = "open" => txn'[c] # "absent"]_vars

(* Liveness, under FairSpec. *)

\* A pin nobody touches is released: an overdue one does not stay pinned.
OverdueReleased == \A x \in Slot : overdue[x] ~> ~overdue[x]

\* However the pool was exhausted by kept transactions and whoever waits for
\* whose lock, once the host sends nothing more every request is answered and
\* every kept transaction is rolled back.
Quiet == /\ \A w \in Worker : pc[w] = "idle"
         /\ \A x \in Slot : pinned[x] = NoConn
         /\ \A j \in Janitor : bag[j] = {}

HostActs == \E w \in Worker : Request(w)

Drains == <>[][~HostActs]_vars => <>[]Quiet
(* Refinement: seen from the tabs, TabTransactions. *)

RunnerOf(s) == {w \in Worker : InRun(w, s)}

tabPhase ==
  [s \in Session |->
     IF RunnerOf(s) # {} THEN "busy"
     ELSE IF smap[s] # NoSlot /\ pinned[smap[s]] # NoConn THEN "kept"
     ELSE "free"]

tabConn ==
  [s \in Session |->
     IF RunnerOf(s) # {} THEN held[CHOOSE w \in RunnerOf(s) : TRUE]
     ELSE IF smap[s] # NoSlot THEN pinned[smap[s]]
     ELSE NoConn]

Tabs == INSTANCE TabTransactions WITH phase <- tabPhase, conn <- tabConn

\* Every behaviour is one of TabTransactions: one run per session at a time,
\* each continuing the transaction the last one kept, on the same connection.
ImplementsTabs == Tabs!TabSpec
-----------------------------------------------------------------------------
(* The inductive invariant behind the safety properties. *)

\* What the host must not do, and the server not answer, for the pool to stay
\* clean: no transaction opened without a session, no COMMIT or ROLLBACK
\* refused before it is executed.
HostDiscipline == "Opens" \notin SessionlessEffects /\ ~EndersRejected

\* Workers that own their slot's lock and have left lock().
Inside(w) == WithSession(w) /\ pc[w] \in {"acquire", "setup", "running", "dropping"}

\* A connection has one home, and exists exactly when it has one.
OneHome ==
  /\ \A c \in pool : txn[c] # "absent"
  /\ \A w \in Worker : held[w] # NoConn => txn[held[w]] # "absent" /\ held[w] \notin pool
  /\ \A x \in Slot : pinned[x] # NoConn => txn[pinned[x]] # "absent" /\ pinned[x] \notin pool
  /\ \A j \in Janitor : \A c \in bag[j] : txn[c] # "absent" /\ c \notin pool
  /\ \A v, w \in Worker : held[v] = held[w] /\ held[v] # NoConn => v = w
  /\ \A x, y \in Slot : pinned[x] = pinned[y] /\ pinned[x] # NoConn => x = y
  /\ \A w \in Worker, x \in Slot : held[w] # NoConn => held[w] # pinned[x]
  /\ \A j \in Janitor : \A c \in bag[j] :
       /\ \A w \in Worker : held[w] # c
       /\ \A x \in Slot : pinned[x] # c
       /\ \A k \in Janitor : c \in bag[k] => k = j

\* Where a handler is says what it has.
HandlerState ==
  \A w \in Worker :
    /\ pc[w] = "idle" <=> job[w] = NoJob
    /\ ref[w] # NoSlot <=> pc[w] \in {"cloned", "locking"} \/ Inside(w)
    /\ pc[w] \in {"cloned", "locking", "dropping"} => WithSession(w)
    /\ job[w].kind = "release" => WithSession(w)
    /\ job[w].kind = "single" => ~WithSession(w)
    /\ pc[w] \in {"acquire", "setup"} => job[w].kind \in {"run", "single"} /\ ~inTxn[w]
    /\ pc[w] = "running" => job[w].kind \in {"run", "single"}
    /\ pc[w] \in {"setup", "running", "rollback"} => held[w] # NoConn
    /\ pc[w] \in {"idle", "cloned", "locking", "acquire"} => held[w] = NoConn

\* The owner of a slot's mutex is inside or about to enter; those that wait for
\* it are queued once each, and only behind an owner.
MutexOK(x) ==
  /\ owner[x] # NoWorker =>
       ref[owner[x]] = x /\ (pc[owner[x]] = "locking" \/ Inside(owner[x]))
  /\ owner[x] = NoWorker => waiters[x] = <<>>
  /\ \A i \in 1..Len(waiters[x]) :
       /\ pc[waiters[x][i]] = "locking"
       /\ ref[waiters[x][i]] = x
       /\ owner[x] # waiters[x][i]
  /\ \A i, k \in 1..Len(waiters[x]) : waiters[x][k] = waiters[x][i] => k = i

Locking ==
  /\ \A w \in Worker : Inside(w) => owner[ref[w]] = w
  /\ \A x \in Slot : MutexOK(x)

\* While a run uses a client, its slot is empty: pinning overwrites nothing.
SlotEmptied ==
  \A w \in Worker :
    WithSession(w) /\ pc[w] \in {"acquire", "setup", "running"} => pinned[ref[w]] = NoConn

\* The client of a handler is in the state the handler believes it is in.
ClientState ==
  \A w \in Worker :
    /\ pc[w] = "setup" => txn[held[w]] \in {"idle", "dead"}
    /\ pc[w] = "running" /\ job[w].kind = "single" => txn[held[w]] \in {"idle", "dead"}
    /\ pc[w] = "running" /\ job[w].kind = "run" =>
         txn[held[w]] \in IF inTxn[w] THEN {"open", "dead"} ELSE {"idle", "dead"}

\* Holds whatever the host sends and the server answers.
Structure ==
  /\ TypeOK
  /\ OneHome
  /\ HandlerState
  /\ Locking
  /\ SlotEmptied

\* Holds under HostDiscipline.
Clean ==
  /\ ClientState
  /\ PoolClean
  /\ PinnedOpen

\* Without a shutdown, every reference is to the slot its session has in the
\* map, and no two sessions share a slot.
Tracked ==
  /\ \A w \in Worker : ref[w] # NoSlot => smap[job[w].session] = ref[w]
  /\ \A r, s \in Session : smap[r] = smap[s] /\ smap[r] # NoSlot => r = s
=============================================================================
