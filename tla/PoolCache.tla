------------------------------ MODULE PoolCache ------------------------------
(***************************************************************************)
(* The pool cache of client.rs: POOLS, get_pool_client, the one-shot       *)
(* clients and cleanup_idle_pools, with the pool size of settings.rs.      *)
(*                                                                         *)
(* A deadpool Pool is a counted reference; it is closed with its idle      *)
(* connections when the last clone of it is dropped.  A client handed out  *)
(* refers to its pool weakly: dropped, it goes back to a pool that is      *)
(* still there and is closed otherwise.                                    *)
(*                                                                         *)
(* The stages of a caller:                                                 *)
(*   "free"        between two calls                                       *)
(*   "building"    the cache has no pool under its key, it builds one      *)
(*   "built"       it has built one and not yet locked the cache again     *)
(*   "getting"     in pool.get(), waiting for a permit                     *)
(*   "connecting"  in pool.get(), with a permit and no idle connection     *)
(*   "failed"      pool.get() returned an error, nothing evicted yet       *)
(*   "using"       it has a client                                         *)
(***************************************************************************)
EXTENDS Naturals, FiniteSets

CONSTANTS
  Caller,   \* the tasks that call into client.rs
  Param,    \* the connection parameters of the host's requests
  Pool,     \* identities for pools, reused as memory is
  Setting,  \* the values of poolMaxSize; 0 is one that does not parse
  NoParam, NoPool,
  DefaultPoolMaxSize, MaxPoolMaxSize

\* The fields of the parameters that make a difference to a pool: a connection
\* string, or the discrete target (host, port, database, user) and password; and
\* the TLS parameters and startup script.  "absent" is no connection string,
\* "blank" an empty one or one of white space.
Shape(p) == DOMAIN p = {"string", "target", "password", "rest"} /\ p.string # ""

ASSUME ConstantsOK ==
  /\ \A p \in Param : Shape(p)
  /\ NoParam \notin Param
  /\ NoPool \notin Pool
  /\ Setting \subseteq Nat
  /\ DefaultPoolMaxSize \in 1 .. MaxPoolMaxSize
  /\ MaxPoolMaxSize \in Nat

VARIABLES
  maxSize,  \* POOL_MAX_SIZE
  cache,    \* POOLS: per key, the pool cached under it
  pools,    \* per pool, what it is
  stage,    \* per caller, where it is
  params,   \* per caller, the parameters of its request
  shot,     \* per caller, whether it wants a one-shot client
  clone,    \* per caller, the pool it has a reference to
  origin    \* per caller, the pool its client comes from

vars == <<maxSize, cache, pools, stage, params, shot, clone, origin>>
request == <<params, shot>>

-----------------------------------------------------------------------------
(* Keys and pools. *)

HasString(p) == p.string \notin {"absent", "blank"}

\* Mutant of ConnectionKey: the key of before #134, without the string.
KeyWithoutString(p) ==
  [string |-> "", target |-> p.target, password |-> p.password, rest |-> p.rest]

\* connection_key: a connection string stands for the target and the password.
ConnectionKey(p) ==
  IF HasString(p)
    THEN [string |-> p.string, target |-> "", password |-> "", rest |-> p.rest]
    ELSE [string |-> "", target |-> p.target, password |-> p.password, rest |-> p.rest]

Key == {ConnectionKey(p) : p \in Param}

\* What build_pool_impl takes from p for the connections of the pool.
OpenedWith(p) ==
  [login |-> IF HasString(p) THEN <<p.string>> ELSE <<p.target, p.password>>,
   rest |-> p.rest]

\* Mutant of PoolMaxSize: a size of zero is let through.
ZeroAllowed(v) == IF v > MaxPoolMaxSize THEN MaxPoolMaxSize ELSE v

\* pool_max_size_from_value.
PoolMaxSize(v) ==
  IF v = 0 THEN DefaultPoolMaxSize
  ELSE IF v > MaxPoolMaxSize THEN MaxPoolMaxSize ELSE v

Gone == [params |-> NoParam, limit |-> 0, idle |-> 0, failed |-> FALSE]

\* failed records that a get on the pool has returned an error.
PoolState ==
  [params : Param \cup {NoParam}, limit : 0 .. MaxPoolMaxSize, idle : Nat,
   failed : BOOLEAN]

Stage == {"free", "building", "built", "getting", "connecting", "failed", "using"}

TypeOK ==
  /\ maxSize \in 1 .. MaxPoolMaxSize
  /\ cache \in [Key -> Pool \cup {NoPool}]
  /\ pools \in [Pool -> PoolState]
  /\ stage \in [Caller -> Stage]
  /\ params \in [Caller -> Param \cup {NoParam}]
  /\ shot \in [Caller -> BOOLEAN]
  /\ clone \in [Caller -> Pool \cup {NoPool}]
  /\ origin \in [Caller -> Pool \cup {NoPool}]

Init ==
  /\ maxSize = DefaultPoolMaxSize
  /\ cache = [k \in Key |-> NoPool]
  /\ pools = [p \in Pool |-> Gone]
  /\ stage = [c \in Caller |-> "free"]
  /\ params = [c \in Caller |-> NoParam]
  /\ shot = [c \in Caller |-> FALSE]
  /\ clone = [c \in Caller |-> NoPool]
  /\ origin = [c \in Caller |-> NoPool]

Cached(p) == \E k \in Key : cache[k] = p

\* Some reference keeps the pool.
Alive(p) == Cached(p) \/ \E c \in Caller : clone[c] = p

Out(p) == {c \in Caller : origin[c] = p}

Inside(p) == {c \in Caller : clone[c] = p /\ stage[c] \in {"getting", "connecting"}}

Connecting(p) == {c \in Inside(p) : stage[c] = "connecting"}

\* The pool's semaphore.
Permit(p) == Cardinality(Out(p)) + Cardinality(Connecting(p)) < pools[p].limit

Free(p) == ~Alive(p) /\ Out(p) = {}

\* A pool that lost its last reference is closed; ps is the pools before that.
Settle(ps) ==
  pools' = [p \in Pool |->
    IF Alive(p)' THEN ps[p]
    ELSE IF Out(p)' # {} THEN [ps[p] EXCEPT !.idle = 0]
    ELSE Gone]

GoTo(c, s) == stage' = [stage EXCEPT ![c] = s]

\* The call is over.
Leave(c) ==
  /\ GoTo(c, "free")
  /\ params' = [params EXCEPT ![c] = NoParam]
  /\ shot' = [shot EXCEPT ![c] = FALSE]

-----------------------------------------------------------------------------
(* get_or_create_pool_with_key and building. *)

\* A call of get_pool_client, up to the first lock of the cache.
Call(c, p) ==
  /\ stage[c] = "free"
  /\ params' = [params EXCEPT ![c] = p]
  /\ shot' = [shot EXCEPT ![c] = FALSE]
  /\ LET q == cache[ConnectionKey(p)] IN
       /\ GoTo(c, IF q = NoPool THEN "building" ELSE "getting")
       /\ clone' = [clone EXCEPT ![c] = q]
  /\ UNCHANGED <<maxSize, cache, pools, origin>>

\* Mutant of CallOneShot: the one-shot client is drawn from a cached pool.
OneShotFromCache(c, p) ==
  /\ stage[c] = "free"
  /\ params' = [params EXCEPT ![c] = p]
  /\ shot' = [shot EXCEPT ![c] = TRUE]
  /\ LET q == cache[ConnectionKey(p)] IN
       /\ GoTo(c, IF q = NoPool THEN "building" ELSE "getting")
       /\ clone' = [clone EXCEPT ![c] = q]
  /\ UNCHANGED <<maxSize, cache, pools, origin>>

\* A call of oneshot_pool_client.
CallOneShot(c, p) ==
  /\ stage[c] = "free"
  /\ params' = [params EXCEPT ![c] = p]
  /\ shot' = [shot EXCEPT ![c] = TRUE]
  /\ GoTo(c, "building")
  /\ UNCHANGED <<maxSize, cache, pools, clone, origin>>

\* build_pool: lazy, but for the preflight of a startup script.  The size in
\* force is read last.
Build(c) ==
  /\ stage[c] = "building"
  /\ \E p \in Pool :
       /\ Free(p)
       /\ clone' = [clone EXCEPT ![c] = p]
       /\ pools' = [pools EXCEPT ![p] =
            [params |-> params[c], limit |-> maxSize, idle |-> 0, failed |-> FALSE]]
  /\ GoTo(c, IF shot[c] THEN "getting" ELSE "built")
  /\ UNCHANGED <<maxSize, cache, request, origin>>

\* The connection string, TLS material or startup script is no good.
BuildFails(c) ==
  /\ stage[c] = "building"
  /\ Leave(c)
  /\ UNCHANGED <<maxSize, cache, pools, clone, origin>>

\* The second lock of the cache: or_insert keeps a pool another caller has put
\* there in the meantime.
Insert(c) ==
  /\ stage[c] = "built"
  /\ LET k == ConnectionKey(params[c])
         q == IF cache[k] = NoPool THEN clone[c] ELSE cache[k]
     IN /\ cache' = [cache EXCEPT ![k] = q]
        /\ clone' = [clone EXCEPT ![c] = q]
  /\ GoTo(c, "getting")
  /\ UNCHANGED <<maxSize, request, origin>>
  /\ Settle(pools)

-----------------------------------------------------------------------------
(* pool.get() and what follows. *)

\* The caller leaves get_pool_client with a client, and its clone is dropped.
HandOut(c, ps) ==
  /\ origin' = [origin EXCEPT ![c] = clone[c]]
  /\ clone' = [clone EXCEPT ![c] = NoPool]
  /\ GoTo(c, "using")
  /\ UNCHANGED <<maxSize, cache, request>>
  /\ Settle(ps)

GetIdle(c) ==
  /\ stage[c] = "getting"
  /\ Permit(clone[c])
  /\ pools[clone[c]].idle > 0
  /\ HandOut(c, [pools EXCEPT ![clone[c]].idle = @ - 1])

GetConnects(c) ==
  /\ stage[c] = "getting"
  /\ Permit(clone[c])
  /\ pools[clone[c]].idle = 0
  /\ GoTo(c, "connecting")
  /\ UNCHANGED <<maxSize, cache, pools, request, clone, origin>>

Connected(c) ==
  /\ stage[c] = "connecting"
  /\ HandOut(c, pools)

\* The connection, or one of its post_create hooks, fails.
ConnectFails(c) ==
  /\ stage[c] = "connecting"
  /\ pools' = [pools EXCEPT ![clone[c]].failed = TRUE]
  /\ GoTo(c, "failed")
  /\ UNCHANGED <<maxSize, cache, request, clone, origin>>

\* Mutant of Evict: the failed pool stays.
NoEviction(c) ==
  /\ stage[c] = "failed"
  /\ clone' = [clone EXCEPT ![c] = NoPool]
  /\ Leave(c)
  /\ UNCHANGED <<maxSize, cache, origin>>
  /\ Settle(pools)

\* The error arm of get_pool_client removes what is under the key.
Evict(c) ==
  /\ stage[c] = "failed"
  /\ cache' = IF shot[c] THEN cache
              ELSE [cache EXCEPT ![ConnectionKey(params[c])] = NoPool]
  /\ clone' = [clone EXCEPT ![c] = NoPool]
  /\ Leave(c)
  /\ UNCHANGED <<maxSize, origin>>
  /\ Settle(pools)

\* The caller drops its client.
Drop(c) ==
  /\ stage[c] = "using"
  /\ origin' = [origin EXCEPT ![c] = NoPool]
  /\ Leave(c)
  /\ UNCHANGED <<maxSize, cache, clone>>
  /\ Settle([pools EXCEPT ![origin[c]].idle = IF Alive(origin[c]) THEN @ + 1 ELSE @])

\* An idle connection ends; get throws it away and looks on.
IdleEnds(p) ==
  /\ pools[p].idle > 0
  /\ pools' = [pools EXCEPT ![p].idle = @ - 1]
  /\ UNCHANGED <<maxSize, cache, stage, request, clone, origin>>

-----------------------------------------------------------------------------
(* The cleanup task and the initialize request. *)

\* Mutant of MayGo: an idle connection is enough.
HasIdle(p) == Out(p) = {} \/ pools[p].idle > 0

\* size > available: with a client out, not every connection is available.  How
\* far into get a caller must be for deadpool's status to show it is left open.
MayGo(p) == Out(p) = {}
MustGo(p) == Out(p) = {} /\ Inside(p) = {}

\* cleanup_idle_pools.
Cleanup ==
  /\ \E dropped \in SUBSET {k \in Key : cache[k] # NoPool /\ MayGo(cache[k])} :
       /\ {k \in Key : cache[k] # NoPool /\ MustGo(cache[k])} \subseteq dropped
       /\ cache' = [k \in Key |-> IF k \in dropped THEN NoPool ELSE cache[k]]
  /\ UNCHANGED <<maxSize, stage, request, clone, origin>>
  /\ Settle(pools)

\* set_pool_max_size; pools already built keep their size.
Initialize ==
  /\ \E v \in Setting : maxSize' = PoolMaxSize(v)
  /\ UNCHANGED <<cache, pools, stage, request, clone, origin>>

-----------------------------------------------------------------------------
(* The specification. *)

Next ==
  \/ \E c \in Caller :
       \/ \E p \in Param : Call(c, p) \/ CallOneShot(c, p)
       \/ Build(c) \/ BuildFails(c) \/ Insert(c)
       \/ GetIdle(c) \/ GetConnects(c) \/ Connected(c) \/ ConnectFails(c)
       \/ Evict(c) \/ Drop(c)
  \/ \E p \in Pool : IdleEnds(p)
  \/ Cleanup
  \/ Initialize

Spec == Init /\ [][Next]_vars

-----------------------------------------------------------------------------
(* Properties. *)

\* A client was opened with the parameters of the request that uses it, however
\* many callers, builds and evictions the cache has seen in between (#132, #134).
RightTarget ==
  \A c \in Caller :
    stage[c] = "using" => OpenedWith(pools[origin[c]].params) = OpenedWith(params[c])

\* A pool that failed a get is in the cache only as long as that caller is on
\* its way to evict it: no race puts it back (#132).
NoPoisoned ==
  \A k \in Key : cache[k] # NoPool /\ pools[cache[k]].failed =>
    \E c \in Caller :
      stage[c] = "failed" /\ ConnectionKey(params[c]) = k /\ clone[c] = cache[k]

\* The pool of a one-shot client is gone when the client is handed out, so that
\* the client is closed when it is dropped and no other request ever uses it.
OneShotsDie ==
  \A c \in Caller : stage[c] = "using" /\ shot[c] =>
    /\ ~Alive(origin[c])
    /\ Out(origin[c]) = {c}

\* A pool with a client out leaves the cache by a failed get under its key and
\* in no other way: neither a second builder nor the cleanup displaces it.
BusyKept ==
  [][\A k \in Key :
       cache[k] # NoPool /\ Out(cache[k]) # {} /\ cache'[k] # cache[k] =>
         \E c \in Caller :
           stage[c] = "failed" /\ stage'[c] = "free" /\ ConnectionKey(params[c]) = k]_vars
=============================================================================
