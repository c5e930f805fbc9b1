--------------------------- MODULE PoolCache_proofs ---------------------------
(***************************************************************************)
(* Theorems about PoolCache, for every number of callers, pools and        *)
(* parameters: its types, and its safety invariants by way of Inv.         *)
(***************************************************************************)
EXTENDS PoolCache, TLAPS

\* A pool that is referred to for a key was built from parameters with that key.
Matches(p, k) ==
  p # NoPool => pools[p].params \in Param /\ ConnectionKey(pools[p].params) = k

Keyed ==
  /\ \A k \in Key : Matches(cache[k], k)
  /\ \A c \in Caller : /\ Matches(clone[c], ConnectionKey(params[c]))
                       /\ Matches(origin[c], ConnectionKey(params[c]))

\* What a caller refers to, by where it is.
CallerState ==
  \A c \in Caller :
    /\ stage[c] \in {"free", "building"} => clone[c] = NoPool /\ origin[c] = NoPool
    /\ stage[c] \in {"built", "getting", "connecting", "failed"} =>
         clone[c] \in Pool /\ origin[c] = NoPool
    /\ stage[c] = "using" => clone[c] = NoPool /\ origin[c] \in Pool
    /\ stage[c] # "free" => params[c] \in Param
    /\ stage[c] = "built" => ~shot[c]

\* Nobody but c refers to p.
Private(c, p) ==
  /\ \A k \in Key : cache[k] # p
  /\ \A d \in Caller : d # c => clone[d] # p /\ origin[d] # p

\* A pool just built, and the pool of a one-shot client, are their caller's own.
OwnPool ==
  \A c \in Caller :
    /\ stage[c] = "built" => Private(c, clone[c]) /\ ~pools[clone[c]].failed
    /\ shot[c] /\ clone[c] # NoPool => Private(c, clone[c])
    /\ shot[c] /\ origin[c] # NoPool => Private(c, origin[c])

Inv == TypeOK /\ Keyed /\ CallerState /\ OwnPool /\ NoPoisoned

\* The key tells apart whatever build_pool_impl builds differently.
LEMMA KeyDetermines ==
  ASSUME NEW p \in Param, NEW q \in Param, ConnectionKey(p) = ConnectionKey(q)
  PROVE  OpenedWith(p) = OpenedWith(q)
<1>1. p.string # "" /\ q.string # ""
  BY ConstantsOK DEF ConstantsOK, Shape
<1>2. HasString(p) <=> HasString(q)
  BY <1>1 DEF ConnectionKey
<1>3. CASE HasString(p)
  BY <1>2, <1>3 DEF ConnectionKey, OpenedWith
<1>4. CASE ~HasString(p)
  BY <1>2, <1>4 DEF ConnectionKey, OpenedWith
<1> QED BY <1>3, <1>4

\* A requested key is a key of the cache.
LEMMA KeyOfParam == \A p \in Param : ConnectionKey(p) \in Key
  BY DEF Key

\* initialize keeps the size within its bounds.
LEMMA SizeInBounds == \A v \in Setting : PoolMaxSize(v) \in 1 .. MaxPoolMaxSize
  BY ConstantsOK DEF ConstantsOK, PoolMaxSize

\* A closed pool is well typed.
LEMMA GoneTyped == Gone \in PoolState
  BY ConstantsOK DEF ConstantsOK, PoolState, Gone

\* Closing what lost its last reference changes nothing about the rest.
LEMMA SettleKeeps ==
  ASSUME NEW ps \in [Pool -> PoolState], Settle(ps)
  PROVE  /\ pools' \in [Pool -> PoolState]
         /\ \A p \in Pool :
              (\E k \in Key : cache'[k] = p) \/ (\E c \in Caller : clone'[c] = p \/ origin'[c] = p)
                => pools'[p].params = ps[p].params /\ pools'[p].failed = ps[p].failed
<1>1. ASSUME NEW s \in PoolState
      PROVE  /\ [s EXCEPT !.idle = 0] \in PoolState
             /\ [s EXCEPT !.idle = 0].params = s.params
             /\ [s EXCEPT !.idle = 0].failed = s.failed
  BY DEF PoolState
<1>2. \A p \in Pool : /\ [ps[p] EXCEPT !.idle = 0].params = ps[p].params
                      /\ [ps[p] EXCEPT !.idle = 0].failed = ps[p].failed
  BY <1>1
<1>3. pools' \in [Pool -> PoolState]
  <2>1. Gone \in PoolState
    BY GoneTyped
  <2> QED BY <1>1, <2>1 DEF Settle
<1>4. ASSUME NEW p \in Pool,
             (\E k \in Key : cache'[k] = p) \/ (\E c \in Caller : clone'[c] = p \/ origin'[c] = p)
      PROVE  pools'[p].params = ps[p].params /\ pools'[p].failed = ps[p].failed
  <2>1. Alive(p)' \/ Out(p)' # {}
    BY <1>4 DEF Alive, Cached, Out
  <2> QED BY <1>2, <2>1 DEF Settle
<1> QED BY <1>3, <1>4

\* The invariant holds before any call.
LEMMA Initially == Init => Inv
<1> SUFFICES ASSUME Init PROVE Inv
  OBVIOUS
<1>1. TypeOK
  BY ConstantsOK, GoneTyped DEF ConstantsOK, Init, TypeOK, Stage
<1>2. Keyed
  BY DEF Init, Keyed, Matches
<1>3. CallerState
  BY DEF Init, CallerState
<1>4. OwnPool
  BY DEF Init, OwnPool
<1>5. NoPoisoned
  BY DEF Init, NoPoisoned
<1> QED BY <1>1, <1>2, <1>3, <1>4, <1>5 DEF Inv
-----------------------------------------------------------------------------
(* The steps, one lemma per action. *)

\* A call starts: it clones the cached pool or sets out to build one.
LEMMA CallStep ==
  ASSUME Inv, NEW c \in Caller, NEW p \in Param, Call(c, p)
  PROVE  Inv'
<1> USE DEF Inv
<1>1. TypeOK'
  BY KeyOfParam DEF Call, GoTo, TypeOK, Stage
<1>2. Keyed'
  BY KeyOfParam DEF Call, TypeOK, Keyed, Matches, CallerState
<1>3. CallerState'
  BY <1>1 DEF Call, GoTo, TypeOK, CallerState
<1>4. OwnPool'
  BY KeyOfParam DEF Call, GoTo, TypeOK, OwnPool, Private
<1>5. NoPoisoned'
  BY DEF Call, GoTo, TypeOK, NoPoisoned
<1> QED BY <1>1, <1>2, <1>3, <1>4, <1>5

\* A one-shot call starts.
LEMMA CallOneShotStep ==
  ASSUME Inv, NEW c \in Caller, NEW p \in Param, CallOneShot(c, p)
  PROVE  Inv'
<1> USE DEF Inv
<1>1. TypeOK'
  BY DEF CallOneShot, GoTo, TypeOK, Stage
<1>2. Keyed'
  BY DEF CallOneShot, TypeOK, Keyed, Matches, CallerState
<1>3. CallerState'
  BY DEF CallOneShot, GoTo, TypeOK, CallerState
<1>4. OwnPool'
  BY DEF CallOneShot, GoTo, TypeOK, CallerState, OwnPool, Private
<1>5. NoPoisoned'
  BY DEF CallOneShot, GoTo, TypeOK, NoPoisoned
<1> QED BY <1>1, <1>2, <1>3, <1>4, <1>5

\* A fresh pool is referred to by its builder alone.
LEMMA BuildStep ==
  ASSUME Inv, NEW c \in Caller, Build(c)
  PROVE  Inv'
<1> USE DEF Inv
<1>p. PICK p \in Pool :
        /\ Free(p)
        /\ clone' = [clone EXCEPT ![c] = p]
        /\ pools' = [pools EXCEPT ![p] =
             [params |-> params[c], limit |-> maxSize, idle |-> 0, failed |-> FALSE]]
  BY DEF Build
<1>f. /\ \A k \in Key : cache[k] # p
      /\ \A d \in Caller : clone[d] # p /\ origin[d] # p
  BY <1>p DEF Free, Alive, Cached, Out
<1>n. pools'[p].params = params[c] /\ pools'[p].failed = FALSE /\ params[c] \in Param
  BY <1>p DEF Build, TypeOK, CallerState
<1>o. \A q \in Pool \ {p} : pools'[q] = pools[q]
  BY <1>p DEF TypeOK
<1>1. TypeOK'
  BY DEF Build, request, GoTo, TypeOK, Stage, PoolState
<1>2. Keyed'
  <2>1. \A k \in Key : Matches(cache[k], k)'
    BY <1>f, <1>o DEF Build, TypeOK, Keyed, Matches
  <2>2. ASSUME NEW d \in Caller PROVE Matches(clone[d], ConnectionKey(params[d]))'
    BY <1>p, <1>f, <1>n, <1>o DEF Build, request, TypeOK, Keyed, Matches
  <2>3. ASSUME NEW d \in Caller PROVE Matches(origin[d], ConnectionKey(params[d]))'
    BY <1>f, <1>o DEF Build, request, TypeOK, Keyed, Matches
  <2> QED BY <2>1, <2>2, <2>3 DEF Keyed, Build
<1>3. CallerState'
  BY DEF Build, request, GoTo, TypeOK, CallerState
<1>4. OwnPool'
  <2> SUFFICES ASSUME NEW d \in Caller
               PROVE  /\ stage'[d] = "built" => Private(d, clone[d])' /\ ~pools'[clone'[d]].failed
                      /\ shot'[d] /\ clone'[d] # NoPool => Private(d, clone[d])'
                      /\ shot'[d] /\ origin'[d] # NoPool => Private(d, origin[d])'
    BY DEF OwnPool
  <2>1. CASE d = c
    BY <2>1, <1>p, <1>f, <1>n, <1>3
      DEF Build, request, GoTo, TypeOK, CallerState, Private
  <2>2. CASE d # c
    BY <2>2, <1>p, <1>f, <1>o
      DEF Build, request, GoTo, TypeOK, CallerState, OwnPool, Private
  <2> QED BY <2>1, <2>2
<1>5. NoPoisoned'
  BY DEF Build, request, GoTo, TypeOK, NoPoisoned
<1> QED BY <1>1, <1>2, <1>3, <1>4, <1>5

\* A build fails and leaves nothing behind.
LEMMA BuildFailsStep ==
  ASSUME Inv, NEW c \in Caller, BuildFails(c)
  PROVE  Inv'
<1> USE DEF Inv
<1>1. TypeOK'
  BY DEF BuildFails, Leave, GoTo, TypeOK, Stage
<1>2. Keyed'
  BY DEF BuildFails, Leave, TypeOK, Keyed, Matches, CallerState
<1>3. CallerState'
  BY DEF BuildFails, Leave, GoTo, TypeOK, CallerState
<1>4. OwnPool'
  BY DEF BuildFails, Leave, GoTo, TypeOK, OwnPool, Private
<1>5. NoPoisoned'
  BY DEF BuildFails, Leave, GoTo, TypeOK, NoPoisoned
<1> QED BY <1>1, <1>2, <1>3, <1>4, <1>5

\* The second lock: the builder ends up with the pool under its key.
LEMMA InsertStep ==
  ASSUME Inv, NEW c \in Caller, Insert(c)
  PROVE  Inv'
<1> USE DEF Inv
<1> DEFINE K == ConnectionKey(params[c])
<1>K. K \in Key
  BY KeyOfParam DEF Insert, CallerState
<1>q. PICK q \in Pool :
        /\ q = IF cache[K] = NoPool THEN clone[c] ELSE cache[K]
        /\ cache' = [cache EXCEPT ![K] = q]
        /\ clone' = [clone EXCEPT ![c] = q]
  BY <1>K DEF Insert, TypeOK, CallerState
<1>m. Matches(q, K) /\ (q = clone[c] \/ q = cache[K])
  BY <1>K, <1>q DEF Keyed
<1>k. /\ pools' \in [Pool -> PoolState]
      /\ \A p \in Pool :
           (\E k \in Key : cache'[k] = p) \/ (\E d \in Caller : clone'[d] = p \/ origin'[d] = p)
             => pools'[p].params = pools[p].params /\ pools'[p].failed = pools[p].failed
  BY SettleKeeps DEF Insert, TypeOK
<1>1. TypeOK'
  BY <1>k, <1>K, <1>q DEF Insert, request, GoTo, TypeOK, Stage
<1>2. Keyed'
  <2>1. ASSUME NEW k \in Key PROVE Matches(cache[k], k)'
    BY <1>k, <1>K, <1>q, <1>m DEF TypeOK, Keyed, Matches
  <2>2. ASSUME NEW d \in Caller PROVE Matches(clone[d], ConnectionKey(params[d]))'
    BY <1>k, <1>q, <1>m DEF Insert, request, TypeOK, Keyed, Matches
  <2>3. ASSUME NEW d \in Caller PROVE Matches(origin[d], ConnectionKey(params[d]))'
    BY <1>k DEF Insert, request, TypeOK, Keyed, Matches
  <2> QED BY <2>1, <2>2, <2>3 DEF Keyed
<1>3. CallerState'
  BY <1>k, <1>1 DEF Insert, request, GoTo, TypeOK, CallerState
<1>4. OwnPool'
  BY <1>k, <1>1 DEF Insert, request, GoTo, TypeOK, CallerState, OwnPool, Private
<1>5. NoPoisoned'
  <2> SUFFICES ASSUME NEW k \in Key, cache'[k] # NoPool, pools'[cache'[k]].failed
               PROVE  \E d \in Caller :
                        stage'[d] = "failed" /\ ConnectionKey(params'[d]) = k /\ clone'[d] = cache'[k]
    BY DEF NoPoisoned
  <2>1. cache'[k] = cache[k] \/ (k = K /\ cache'[k] = clone[c])
    BY <1>K, <1>q DEF TypeOK
  <2>2. pools[cache'[k]].failed
    BY <1>1, <1>k DEF TypeOK
  <2>3. cache'[k] = cache[k]
    BY <2>1, <2>2 DEF Insert, OwnPool
  <2>4. PICK d \in Caller :
          stage[d] = "failed" /\ ConnectionKey(params[d]) = k /\ clone[d] = cache[k]
    BY <2>2, <2>3 DEF NoPoisoned
  <2>5. d # c
    BY <2>4 DEF Insert
  <2> QED BY <2>3, <2>4, <2>5, <1>q DEF Insert, request, GoTo, TypeOK
<1> QED BY <1>1, <1>2, <1>3, <1>4, <1>5

\* An idle connection is handed out.
LEMMA GetIdleStep ==
  ASSUME Inv, NEW c \in Caller, GetIdle(c)
  PROVE  Inv'
<1> USE DEF Inv
<1> DEFINE ps == [pools EXCEPT ![clone[c]].idle = @ - 1]
<1>0. ps \in [Pool -> PoolState]
  BY DEF GetIdle, TypeOK, CallerState, PoolState
<1>a. \A p \in Pool : ps[p].params = pools[p].params /\ ps[p].failed = pools[p].failed
  BY DEF GetIdle, TypeOK
<1>b. Settle(ps)
  BY DEF GetIdle, HandOut
<1> HIDE DEF ps
<1>k. /\ pools' \in [Pool -> PoolState]
      /\ \A p \in Pool :
           (\E k \in Key : cache'[k] = p) \/ (\E d \in Caller : clone'[d] = p \/ origin'[d] = p)
             => pools'[p].params = pools[p].params /\ pools'[p].failed = pools[p].failed
  BY <1>a, <1>0, <1>b, SettleKeeps DEF GetIdle, HandOut, TypeOK
<1>1. TypeOK'
  BY <1>k DEF GetIdle, request, HandOut, GoTo, TypeOK, Stage
<1>2. Keyed'
  BY <1>k DEF GetIdle, request, HandOut, TypeOK, Keyed, Matches
<1>3. CallerState'
  BY <1>k DEF GetIdle, request, HandOut, GoTo, TypeOK, CallerState
<1>4. OwnPool'
  <2> SUFFICES ASSUME NEW d \in Caller
               PROVE  /\ stage'[d] = "built" => Private(d, clone[d])' /\ ~pools'[clone'[d]].failed
                      /\ shot'[d] /\ clone'[d] # NoPool => Private(d, clone[d])'
                      /\ shot'[d] /\ origin'[d] # NoPool => Private(d, origin[d])'
    BY DEF OwnPool
  <2>0. /\ clone[c] \in Pool /\ origin[c] = NoPool
        /\ clone' = [clone EXCEPT ![c] = NoPool] /\ origin' = [origin EXCEPT ![c] = clone[c]]
        /\ stage' = [stage EXCEPT ![c] = "using"]
        /\ UNCHANGED <<cache, params, shot>>
    BY DEF GetIdle, HandOut, GoTo, request, CallerState
  <2>1. CASE d = c
    BY <2>0, <2>1, ConstantsOK DEF ConstantsOK, TypeOK, OwnPool, Private
  <2>2. CASE d # c
    <3>1. stage'[d] = stage[d] /\ clone'[d] = clone[d] /\ origin'[d] = origin[d] /\ shot'[d] = shot[d]
      BY <2>0, <2>2 DEF TypeOK
    <3>2. ASSUME NEW r \in Pool, Private(d, r) PROVE Private(d, r)'
      BY <2>0, <2>2, <3>2, ConstantsOK DEF ConstantsOK, TypeOK, Private
    <3>3. stage[d] = "built" => clone[d] \in Pool /\ ~pools'[clone[d]].failed
      BY <1>k, <3>1 DEF CallerState, OwnPool
    <3>4. clone[d] \in Pool \cup {NoPool} /\ origin[d] \in Pool \cup {NoPool}
      BY DEF TypeOK
    <3> QED BY <3>1, <3>2, <3>3, <3>4 DEF OwnPool, Private
  <2> QED BY <2>1, <2>2
<1>5. NoPoisoned'
  BY <1>k DEF GetIdle, request, HandOut, GoTo, TypeOK, NoPoisoned
<1> QED BY <1>1, <1>2, <1>3, <1>4, <1>5

\* A get starts to connect.
LEMMA GetConnectsStep ==
  ASSUME Inv, NEW c \in Caller, GetConnects(c)
  PROVE  Inv'
<1> USE DEF Inv
<1>1. TypeOK'
  BY DEF GetConnects, request, GoTo, TypeOK, Stage
<1>2. Keyed'
  BY DEF GetConnects, request, TypeOK, Keyed, Matches
<1>3. CallerState'
  BY DEF GetConnects, request, GoTo, TypeOK, CallerState
<1>4. OwnPool'
  BY DEF GetConnects, request, GoTo, TypeOK, OwnPool, Private
<1>5. NoPoisoned'
  BY DEF GetConnects, request, GoTo, TypeOK, NoPoisoned
<1> QED BY <1>1, <1>2, <1>3, <1>4, <1>5

\* A new connection is handed out.
LEMMA ConnectedStep ==
  ASSUME Inv, NEW c \in Caller, Connected(c)
  PROVE  Inv'
<1> USE DEF Inv
<1>k. /\ pools' \in [Pool -> PoolState]
      /\ \A p \in Pool :
           (\E k \in Key : cache'[k] = p) \/ (\E d \in Caller : clone'[d] = p \/ origin'[d] = p)
             => pools'[p].params = pools[p].params /\ pools'[p].failed = pools[p].failed
  BY SettleKeeps DEF Connected, HandOut, TypeOK
<1>1. TypeOK'
  BY <1>k DEF Connected, request, HandOut, GoTo, TypeOK, Stage
<1>2. Keyed'
  BY <1>k DEF Connected, request, HandOut, TypeOK, Keyed, Matches
<1>3. CallerState'
  BY <1>k DEF Connected, request, HandOut, GoTo, TypeOK, CallerState
<1>4. OwnPool'
  <2> SUFFICES ASSUME NEW d \in Caller
               PROVE  /\ stage'[d] = "built" => Private(d, clone[d])' /\ ~pools'[clone'[d]].failed
                      /\ shot'[d] /\ clone'[d] # NoPool => Private(d, clone[d])'
                      /\ shot'[d] /\ origin'[d] # NoPool => Private(d, origin[d])'
    BY DEF OwnPool
  <2>0. /\ clone[c] \in Pool /\ origin[c] = NoPool
        /\ clone' = [clone EXCEPT ![c] = NoPool] /\ origin' = [origin EXCEPT ![c] = clone[c]]
        /\ stage' = [stage EXCEPT ![c] = "using"]
        /\ UNCHANGED <<cache, params, shot>>
    BY DEF Connected, HandOut, GoTo, request, CallerState
  <2>1. CASE d = c
    BY <2>0, <2>1, ConstantsOK DEF ConstantsOK, TypeOK, OwnPool, Private
  <2>2. CASE d # c
    <3>1. stage'[d] = stage[d] /\ clone'[d] = clone[d] /\ origin'[d] = origin[d] /\ shot'[d] = shot[d]
      BY <2>0, <2>2 DEF TypeOK
    <3>2. ASSUME NEW r \in Pool, Private(d, r) PROVE Private(d, r)'
      BY <2>0, <2>2, <3>2, ConstantsOK DEF ConstantsOK, TypeOK, Private
    <3>3. stage[d] = "built" => clone[d] \in Pool /\ ~pools'[clone[d]].failed
      BY <1>k, <3>1 DEF CallerState, OwnPool
    <3>4. clone[d] \in Pool \cup {NoPool} /\ origin[d] \in Pool \cup {NoPool}
      BY DEF TypeOK
    <3> QED BY <3>1, <3>2, <3>3, <3>4 DEF OwnPool, Private
  <2> QED BY <2>1, <2>2
<1>5. NoPoisoned'
  BY <1>k
    DEF Connected, request, HandOut, GoTo, TypeOK, NoPoisoned
<1> QED BY <1>1, <1>2, <1>3, <1>4, <1>5

\* A get fails; its caller is about to evict.
LEMMA ConnectFailsStep ==
  ASSUME Inv, NEW c \in Caller, ConnectFails(c)
  PROVE  Inv'
<1> USE DEF Inv
<1>1. TypeOK'
  BY DEF ConnectFails, request, GoTo, TypeOK, Stage, PoolState
<1>2. Keyed'
  BY DEF ConnectFails, request, TypeOK, Keyed, Matches
<1>3. CallerState'
  BY DEF ConnectFails, request, GoTo, TypeOK, CallerState
<1>4. OwnPool'
  BY DEF ConnectFails, request, GoTo, TypeOK, OwnPool, Private
<1>5. NoPoisoned'
  BY DEF ConnectFails, request, GoTo, TypeOK, Keyed, Matches, NoPoisoned
<1> QED BY <1>1, <1>2, <1>3, <1>4, <1>5

\* The failed caller evicts its key and drops its clone.
LEMMA EvictStep ==
  ASSUME Inv, NEW c \in Caller, Evict(c)
  PROVE  Inv'
<1> USE DEF Inv
<1>k. /\ pools' \in [Pool -> PoolState]
      /\ \A p \in Pool :
           (\E k \in Key : cache'[k] = p) \/ (\E d \in Caller : clone'[d] = p \/ origin'[d] = p)
             => pools'[p].params = pools[p].params /\ pools'[p].failed = pools[p].failed
  BY SettleKeeps DEF Evict, TypeOK
<1> DEFINE K == ConnectionKey(params[c])
<1>K. K \in Key /\ K = ConnectionKey(params[c])
  BY KeyOfParam DEF Evict, CallerState
<1>e. /\ cache' = IF shot[c] THEN cache ELSE [cache EXCEPT ![K] = NoPool]
      /\ clone' = [clone EXCEPT ![c] = NoPool]
      /\ params' = [params EXCEPT ![c] = NoParam]
      /\ shot' = [shot EXCEPT ![c] = FALSE]
      /\ stage' = [stage EXCEPT ![c] = "free"]
      /\ origin' = origin /\ origin[c] = NoPool
  BY DEF Evict, Leave, GoTo, CallerState
<1> HIDE DEF K
<1>s. \A k \in Key : cache'[k] # NoPool => cache'[k] = cache[k]
  BY <1>e DEF TypeOK
<1>1. TypeOK'
  BY <1>k DEF Evict, Leave, GoTo, TypeOK, Stage
<1>2. Keyed'
  <2>1. ASSUME NEW k \in Key PROVE Matches(cache[k], k)'
    BY <1>k, <1>s DEF TypeOK, Keyed, Matches
  <2>2. ASSUME NEW d \in Caller
        PROVE  /\ Matches(clone[d], ConnectionKey(params[d]))'
               /\ Matches(origin[d], ConnectionKey(params[d]))'
    <3>1. CASE d = c
      BY <3>1, <1>e DEF TypeOK, Matches
    <3>2. CASE d # c
      BY <3>2, <1>1, <1>e, <1>k DEF TypeOK, Keyed, Matches
    <3> QED BY <3>1, <3>2
  <2> QED BY <2>1, <2>2 DEF Keyed
<1>3. CallerState'
  BY <1>k DEF Evict, Leave, GoTo, TypeOK, CallerState
<1>4. OwnPool'
  BY <1>k DEF Evict, Leave, GoTo, TypeOK, CallerState, OwnPool, Private
<1>5. NoPoisoned'
  <2> SUFFICES ASSUME NEW k \in Key, cache'[k] # NoPool, pools'[cache'[k]].failed
               PROVE  \E d \in Caller :
                        stage'[d] = "failed" /\ ConnectionKey(params'[d]) = k /\ clone'[d] = cache'[k]
    BY DEF NoPoisoned
  <2>1. cache'[k] = cache[k] /\ pools[cache[k]].failed
    BY <1>k, <1>s DEF TypeOK
  <2>2. PICK d \in Caller :
          stage[d] = "failed" /\ ConnectionKey(params[d]) = k /\ clone[d] = cache[k]
    BY <2>1 DEF NoPoisoned
  <2>3. d # c
    <3>1. CASE shot[c]
      BY <2>1, <2>2, <3>1 DEF OwnPool, Private
    <3>2. CASE ~shot[c]
      BY <1>K, <1>e, <2>2, <3>2 DEF TypeOK
    <3> QED BY <3>1, <3>2
  <2> QED BY <2>1, <2>2, <2>3, <1>e DEF TypeOK
<1> QED BY <1>1, <1>2, <1>3, <1>4, <1>5

\* A client is dropped.
LEMMA DropStep ==
  ASSUME Inv, NEW c \in Caller, Drop(c)
  PROVE  Inv'
<1> USE DEF Inv
<1> DEFINE ps == [pools EXCEPT ![origin[c]].idle = IF Alive(origin[c]) THEN @ + 1 ELSE @]
<1>0. ps \in [Pool -> PoolState]
  BY DEF Drop, TypeOK, CallerState, PoolState
<1>a. \A p \in Pool : ps[p].params = pools[p].params /\ ps[p].failed = pools[p].failed
  BY DEF Drop, TypeOK
<1>b. Settle(ps)
  BY DEF Drop, Leave
<1> HIDE DEF ps
<1>k. /\ pools' \in [Pool -> PoolState]
      /\ \A p \in Pool :
           (\E k \in Key : cache'[k] = p) \/ (\E d \in Caller : clone'[d] = p \/ origin'[d] = p)
             => pools'[p].params = pools[p].params /\ pools'[p].failed = pools[p].failed
  BY <1>a, <1>0, <1>b, SettleKeeps DEF Drop, TypeOK
<1>1. TypeOK'
  BY <1>k DEF Drop, Leave, GoTo, TypeOK, Stage
<1>2. Keyed'
  <2>0. /\ cache' = cache /\ clone' = clone /\ clone[c] = NoPool
        /\ origin' = [origin EXCEPT ![c] = NoPool]
        /\ params' = [params EXCEPT ![c] = NoParam]
    BY DEF Drop, Leave, CallerState
  <2>1. ASSUME NEW k \in Key PROVE Matches(cache[k], k)'
    BY <1>k, <2>0 DEF TypeOK, Keyed, Matches
  <2>2. ASSUME NEW d \in Caller
        PROVE  /\ Matches(clone[d], ConnectionKey(params[d]))'
               /\ Matches(origin[d], ConnectionKey(params[d]))'
    <3>1. CASE d = c
      BY <3>1, <2>0 DEF TypeOK, Matches
    <3>2. CASE d # c
      BY <3>2, <1>1, <1>k, <2>0 DEF TypeOK, Keyed, Matches
    <3> QED BY <3>1, <3>2
  <2> QED BY <2>1, <2>2 DEF Keyed
<1>3. CallerState'
  BY <1>k DEF Drop, Leave, GoTo, TypeOK, CallerState
<1>4. OwnPool'
  BY <1>k DEF Drop, Leave, GoTo, TypeOK, CallerState, OwnPool, Private
<1>5. NoPoisoned'
  BY <1>k DEF Drop, Leave, GoTo, TypeOK, NoPoisoned
<1> QED BY <1>1, <1>2, <1>3, <1>4, <1>5

\* An idle connection ends.
LEMMA IdleEndsStep ==
  ASSUME Inv, NEW p \in Pool, IdleEnds(p)
  PROVE  Inv'
<1> USE DEF Inv
<1>1. TypeOK'
  BY DEF IdleEnds, request, TypeOK, PoolState
<1>2. Keyed'
  BY DEF IdleEnds, request, TypeOK, Keyed, Matches
<1>3. CallerState'
  BY DEF IdleEnds, request, TypeOK, CallerState
<1>4. OwnPool'
  BY DEF IdleEnds, request, TypeOK, OwnPool, Private
<1>5. NoPoisoned'
  BY DEF IdleEnds, request, TypeOK, NoPoisoned
<1> QED BY <1>1, <1>2, <1>3, <1>4, <1>5

\* The cleanup task only takes pools out of the cache.
LEMMA CleanupStep ==
  ASSUME Inv, Cleanup
  PROVE  Inv'
<1> USE DEF Inv
<1>k. /\ pools' \in [Pool -> PoolState]
      /\ \A p \in Pool :
           (\E k \in Key : cache'[k] = p) \/ (\E d \in Caller : clone'[d] = p \/ origin'[d] = p)
             => pools'[p].params = pools[p].params /\ pools'[p].failed = pools[p].failed
  BY SettleKeeps DEF Cleanup, TypeOK
<1>1. TypeOK'
  BY <1>k DEF Cleanup, request, TypeOK
<1>2. Keyed'
  BY <1>k DEF Cleanup, request, TypeOK, Keyed, Matches
<1>3. CallerState'
  BY <1>k DEF Cleanup, request, TypeOK, CallerState
<1>4. OwnPool'
  BY <1>k, ConstantsOK
    DEF ConstantsOK, Cleanup, request, TypeOK, CallerState, OwnPool, Private
<1>5. NoPoisoned'
  BY <1>k DEF Cleanup, request, TypeOK, NoPoisoned
<1> QED BY <1>1, <1>2, <1>3, <1>4, <1>5

\* A new size is stored.
LEMMA InitializeStep ==
  ASSUME Inv, Initialize
  PROVE  Inv'
<1> USE DEF Inv
<1>1. TypeOK'
  BY SizeInBounds DEF Initialize, request, TypeOK
<1>2. Keyed'
  BY DEF Initialize, request, TypeOK, Keyed, Matches
<1>3. CallerState'
  BY DEF Initialize, request, TypeOK, CallerState
<1>4. OwnPool'
  BY DEF Initialize, request, TypeOK, OwnPool, Private
<1>5. NoPoisoned'
  BY DEF Initialize, request, TypeOK, NoPoisoned
<1> QED BY <1>1, <1>2, <1>3, <1>4, <1>5

\* A step of something else changes nothing the invariant speaks of.
LEMMA Stutter == Inv /\ UNCHANGED vars => Inv'
<1> SUFFICES ASSUME Inv, UNCHANGED vars PROVE Inv'
  OBVIOUS
<1> USE DEF vars, Inv
<1>1. TypeOK'
  BY DEF TypeOK
<1>2. Keyed'
  BY DEF Keyed, Matches
<1>3. CallerState'
  BY DEF CallerState
<1>4. OwnPool'
  BY DEF OwnPool, Private
<1>5. NoPoisoned'
  BY DEF NoPoisoned
<1> QED BY <1>1, <1>2, <1>3, <1>4, <1>5

\* Every behaviour of the pool cache keeps the inductive invariant.
THEOREM Invariance == Spec => []Inv
<1>1. ASSUME Inv, Next PROVE Inv'
  <2>1. CASE \E c \in Caller, p \in Param : Call(c, p) \/ CallOneShot(c, p)
    BY <1>1, <2>1, CallStep, CallOneShotStep
  <2>2. CASE \E c \in Caller : Build(c) \/ BuildFails(c) \/ Insert(c)
    BY <1>1, <2>2, BuildStep, BuildFailsStep, InsertStep
  <2>3. CASE \E c \in Caller : GetIdle(c) \/ GetConnects(c) \/ Connected(c) \/ ConnectFails(c)
    BY <1>1, <2>3, GetIdleStep, GetConnectsStep, ConnectedStep, ConnectFailsStep
  <2>4. CASE \E c \in Caller : Evict(c) \/ Drop(c)
    BY <1>1, <2>4, EvictStep, DropStep
  <2>5. CASE \E p \in Pool : IdleEnds(p)
    BY <1>1, <2>5, IdleEndsStep
  <2>6. CASE Cleanup
    BY <1>1, <2>6, CleanupStep
  <2>7. CASE Initialize
    BY <1>1, <2>7, InitializeStep
  <2> QED BY <1>1, <2>1, <2>2, <2>3, <2>4, <2>5, <2>6, <2>7 DEF Next
<1> QED BY <1>1, Initially, Stutter, PTL DEF Spec

\* The cache, the pools and what callers refer to are well formed, and the size of a
\* pool stays within its bounds.
THEOREM TypeCorrect == Spec => []TypeOK
<1>1. Inv => TypeOK
  BY DEF Inv
<1> QED BY <1>1, Invariance, PTL

\* Whatever the races in the cache, a request runs on connections opened with its
\* own parameters (get_pool_client, client.rs:420-482).
THEOREM RightTargets == Spec => []RightTarget
<1>1. Inv => RightTarget
  <2> SUFFICES ASSUME Inv, NEW c \in Caller, stage[c] = "using"
               PROVE  OpenedWith(pools[origin[c]].params) = OpenedWith(params[c])
    BY DEF RightTarget
  <2>1. origin[c] # NoPool /\ params[c] \in Param
    BY ConstantsOK DEF ConstantsOK, Inv, CallerState
  <2>2. /\ pools[origin[c]].params \in Param
        /\ ConnectionKey(pools[origin[c]].params) = ConnectionKey(params[c])
    BY <2>1 DEF Inv, Keyed, Matches
  <2> QED BY <2>1, <2>2, KeyDetermines
<1> QED BY <1>1, Invariance, PTL

\* A failed pool is not served again: eviction closes #132 (client.rs:514-535).
THEOREM NeverPoisoned == Spec => []NoPoisoned
<1>1. Inv => NoPoisoned
  BY DEF Inv
<1> QED BY <1>1, Invariance, PTL

\* The connection of a one-shot client dies with it (oneshot_pool_client).
THEOREM OneShots == Spec => []OneShotsDie
<1>1. Inv => OneShotsDie
  <2> SUFFICES ASSUME Inv, NEW c \in Caller, stage[c] = "using", shot[c]
               PROVE  ~Alive(origin[c]) /\ Out(origin[c]) = {c}
    BY DEF OneShotsDie
  <2>1. origin[c] \in Pool /\ origin[c] # NoPool /\ clone[c] # origin[c]
    BY ConstantsOK DEF ConstantsOK, Inv, CallerState
  <2>2. Private(c, origin[c])
    BY <2>1 DEF Inv, OwnPool
  <2> QED BY <2>1, <2>2 DEF Private, Alive, Cached, Out
<1> QED BY <1>1, Invariance, PTL

\* A pool with a client out leaves the cache only by a failed get: the second
\* builder and the cleanup task keep it (client.rs:504-511, 592-599).
THEOREM BusyPoolsKept == Spec => BusyKept
<1>1. ASSUME Inv, [Next]_vars, NEW k \in Key,
             cache[k] # NoPool, Out(cache[k]) # {}, cache'[k] # cache[k]
      PROVE  \E c \in Caller :
               stage[c] = "failed" /\ stage'[c] = "free" /\ ConnectionKey(params[c]) = k
  <2>1. CASE UNCHANGED vars
    BY <1>1, <2>1 DEF vars
  <2>2. CASE Cleanup
    BY <1>1, <2>2 DEF Cleanup, MayGo, Inv, TypeOK
  <2>3. ASSUME NEW c \in Caller, Insert(c) PROVE FALSE
    BY <1>1, <2>3 DEF Insert, Inv, TypeOK
  <2>4. ASSUME NEW c \in Caller, Evict(c)
        PROVE  stage[c] = "failed" /\ stage'[c] = "free" /\ ConnectionKey(params[c]) = k
    BY <1>1, <2>4 DEF Evict, Leave, GoTo, Inv, TypeOK
  <2>5. CASE \E c \in Caller :
               \/ \E p \in Param : Call(c, p) \/ CallOneShot(c, p)
               \/ Build(c) \/ BuildFails(c) \/ GetIdle(c) \/ GetConnects(c)
               \/ Connected(c) \/ ConnectFails(c) \/ Drop(c)
    BY <1>1, <2>5 DEF Call, CallOneShot, Build, BuildFails, GetIdle, GetConnects,
                      Connected, ConnectFails, HandOut, Drop
  <2>6. CASE Initialize \/ \E p \in Pool : IdleEnds(p)
    BY <1>1, <2>6 DEF Initialize, IdleEnds
  <2> QED BY <1>1, <2>1, <2>2, <2>3, <2>4, <2>5, <2>6 DEF Next
<1>2. Inv /\ [Next]_vars =>
        [\A k \in Key :
           cache[k] # NoPool /\ Out(cache[k]) # {} /\ cache'[k] # cache[k] =>
             \E c \in Caller :
               stage[c] = "failed" /\ stage'[c] = "free" /\ ConnectionKey(params[c]) = k]_vars
  BY <1>1
<1> QED BY <1>2, Invariance, PTL DEF Spec, BusyKept
=============================================================================
