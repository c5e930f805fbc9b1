-------------------------- MODULE TabTransactions ---------------------------
(***************************************************************************)
(* What the plugin promises an editor tab (the header of session.rs):      *)
(* runs of one session happen one at a time; a run that leaves a           *)
(* transaction open keeps its connection for that session alone; the next  *)
(* run of the session continues on that very connection; otherwise the     *)
(* kept transaction can only be ended for the session as a whole.          *)
(***************************************************************************)
CONSTANTS Session, Conn, NoConn

VARIABLES
  phase, \* per session: "free", "busy" with a run, or "kept" between two runs
  conn   \* per session: the connection its run uses or its transaction is on

tabVars == <<phase, conn>>

TabInit ==
  /\ phase = [s \in Session |-> "free"]
  /\ conn = [s \in Session |-> NoConn]

\* A run begins; on a kept transaction it already has its connection.
Begin(s) ==
  /\ phase[s] \in {"free", "kept"}
  /\ phase' = [phase EXCEPT ![s] = "busy"]
  /\ UNCHANGED conn

\* A run with no kept transaction gets a connection no other session has.
Attach(s, c) ==
  /\ phase[s] = "busy"
  /\ conn[s] = NoConn
  /\ \A r \in Session : conn[r] # c
  /\ conn' = [conn EXCEPT ![s] = c]
  /\ UNCHANGED phase

\* A run ends and leaves a transaction open.
Keep(s) ==
  /\ phase[s] = "busy"
  /\ conn[s] # NoConn
  /\ phase' = [phase EXCEPT ![s] = "kept"]
  /\ UNCHANGED conn

\* A run ends and leaves no transaction open.
Finish(s) ==
  /\ phase[s] = "busy"
  /\ phase' = [phase EXCEPT ![s] = "free"]
  /\ conn' = [conn EXCEPT ![s] = NoConn]

\* The kept transactions of the sessions in S are taken away, to be rolled
\* back: one session is released, or the idle ones are swept.
Expire(S) ==
  /\ \A s \in S : phase[s] = "kept"
  /\ phase' = [s \in Session |-> IF s \in S THEN "free" ELSE phase[s]]
  /\ conn' = [s \in Session |-> IF s \in S THEN NoConn ELSE conn[s]]

TabNext ==
  \/ \E s \in Session : Begin(s) \/ Keep(s) \/ Finish(s)
  \/ \E s \in Session, c \in Conn : Attach(s, c)
  \/ \E S \in SUBSET Session : Expire(S)

TabSpec == TabInit /\ [][TabNext]_tabVars
=============================================================================
