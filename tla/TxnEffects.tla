----------------------------- MODULE TxnEffects -----------------------------
(***************************************************************************)
(* What a statement does to a transaction, twice over:                     *)
(*                                                                         *)
(*   - what PostgreSQL does with it: the possible outcomes of a statement  *)
(*     on a backend in a given transaction state;                          *)
(*   - what the plugin believes: the pure helpers of handlers/query.rs that *)
(*     recompute the in_transaction flag from the statement's class and    *)
(*     from whether it succeeded.                                          *)
(*                                                                         *)
(* A statement is abstracted to its TransactionEffect, the class           *)
(* transaction_effect() gives it from its leading keywords.                *)
(***************************************************************************)

TransactionEffect == {"Opens", "Closes", "Chains", "None"}

(***************************************************************************)
(* The state of a server connection.  "absent": there is no connection;    *)
(* "idle": no transaction block; "open": inside one; "failed": inside an   *)
(* aborted one, where only its end is accepted; "dead": the connection     *)
(* broke, which the plugin learns from the next call that fails.           *)
(***************************************************************************)
TxnState == {"absent", "idle", "open", "failed", "dead"}

Outcome == [ok : BOOLEAN, txn : TxnState]

(***************************************************************************)
(* The server's answers to a statement of class e on a backend in state t: *)
(* whether it succeeds, and the state it leaves.  "rejects" says whether a *)
(* statement that would end the block can be refused before it is executed *)
(* (a syntax error after COMMIT), which aborts the block instead of ending *)
(* it.  A failed statement that leaves the block open failed on the client *)
(* side: a row that could not be decoded.                                  *)
(***************************************************************************)
ServerOutcomes(t, e, rejects) ==
  {o \in Outcome :
     \/ /\ o.ok /\ o.txn = "open"
        /\ \/ e = "Opens" /\ t \in {"idle", "open"}
           \/ e \in {"Chains", "None"} /\ t \in {"open", "failed"}
     \/ /\ o.ok /\ o.txn = "idle"
        /\ \/ e = "Closes" /\ t \in {"idle", "open", "failed"}
           \/ e = "None" /\ t = "idle"
     \/ /\ ~o.ok /\ o.txn = "failed" /\ t \in {"open", "failed"}
        /\ e \in {"Opens", "None"} \/ rejects
     \/ /\ ~o.ok /\ o.txn = "idle" /\ t = "open"
        /\ e \in {"Closes", "Chains"}
     \/ /\ ~o.ok /\ o.txn = t
        /\ t \in {"idle", "dead"} \/ (t = "open" /\ e = "None")}

\* A ROLLBACK the plugin issues itself: it ends any block of a live backend.
AfterRollback(t) == IF t \in {"open", "failed"} THEN "idle" ELSE t

-----------------------------------------------------------------------------
\* Mutant of InTransactionAfter: a COMMIT that fails leaves the block open.
OpenAfterFailedCommit(e, ok, before) ==
  IF e \in {"Opens", "Chains"} /\ ok THEN TRUE
  ELSE IF e = "Closes" /\ ok THEN FALSE
  ELSE before

\* TransactionEffect::in_transaction_after.
InTransactionAfter(e, ok, before) ==
  IF e \in {"Opens", "Chains"} /\ ok THEN TRUE
  ELSE IF e = "Closes" \/ e = "Chains" THEN FALSE
  ELSE before

\* Mutant of TxnAborted: an error inside a block goes unnoticed.
NeverAborted(e, ok, before) == FALSE

\* error_aborted_open_txn, gated on the statement not ending the block itself.
TxnAborted(e, ok, before) == ~ok /\ before /\ e \notin {"Closes", "Chains"}

\* in_transaction_after_outcome.
InTransactionAfterOutcome(e, ok, before) ==
  IF TxnAborted(e, ok, before) THEN FALSE ELSE InTransactionAfter(e, ok, before)

\* The connection after exec_query_on_client: the statement's own effect, then
\* the ROLLBACK the handler sends when it classified the block as aborted.
TxnAfterStatement(o, e, before) ==
  IF TxnAborted(e, o.ok, before) THEN AfterRollback(o.txn) ELSE o.txn
=============================================================================
