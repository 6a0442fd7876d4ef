---------------------------- MODULE SingleExecutor ----------------------------
(***************************************************************************)
(* execute-real and mark-confirmed of the production payout executor       *)
(* (payouts/scripts/sc_node_payout_production_executor.py).                *)
(*                                                                         *)
(* It commits a draft execution before the first sendtoaddress, pays the   *)
(* rows of one address with one transaction, and commits what it recorded  *)
(* of each transaction before it sends the next one.                       *)
(***************************************************************************)
EXTENDS ExecutionStore

SingleActive == {"sent", "confirmed"}

\* evaluate_execute_real_refusal, for a key that has no execution.
SingleRefused(r) ==
    \/ PreviewRefused(r)
    \/ Cardinality(RowIds(args[r].plan)) > 1 /\ ~ args[r].allow_multiple_rows
    \/ ~ args[r].confirm_phrase_ok
    \/ ActiveForPlan(r, SingleActive)

\* Read plan, preflight, registry and executions; replay, refuse or go on.
LoadAndDecide(r) ==
    /\ pc[r] = "loading"
    /\ args[r].kind = Single
    /\ pc' = [pc EXCEPT ![r] = IF ExistingByKey(r) THEN "done"
                               ELSE IF SingleRefused(r) THEN "refusing"
                               ELSE "inserting"]
    /\ todo' = [todo EXCEPT ![r] = LoadedPieces(r)]
    /\ UNCHANGED <<tables, wallet, args, atStart, inflight, pending, failures>>

\* Insert the draft header and rows and commit them before any wallet call.
InsertDraft(r) ==
    /\ pc[r] = "inserting"
    /\ args[r].kind = Single
    /\ ~ KeyIsLocked(r)
    /\ IF ExistingByKey(r)
       THEN /\ pc' = [pc EXCEPT ![r] = "failed"]
            /\ UNCHANGED executions
       ELSE /\ pc' = [pc EXCEPT ![r] = "sending"]
            /\ executions' = [executions EXCEPT ![r] =
                                NewExecution(args[r], "draft", "draft", "none")]
    /\ UNCHANGED <<planStatus, drifted, wallet, args, atStart, todo,
                   inflight, pending, failures>>

\* Mutant: the update selects by execution, not by row.
MutRecordAllRows(r) ==
    LET sent == inflight[r].piece
        rest == todo[r] \ {sent}
    IN
    /\ pc[r] = "recording"
    /\ args[r].kind = Single
    /\ executions' = [executions EXCEPT ![r].rows =
         [n \in DOMAIN @ |-> IF TRUE /\ @[n].status = "draft"
                             THEN Line("sent", inflight[r].txid) ELSE @[n]]]
    /\ todo' = [todo EXCEPT ![r] = rest]
    /\ pc' = [pc EXCEPT ![r] = IF rest = {} THEN "finishing" ELSE "sending"]
    /\ UNCHANGED <<planStatus, drifted, wallet, args, atStart, inflight,
                   pending, failures>>

\* Mutant: the loop ends after the first address.
MutRecordThenFinish(r) ==
    LET sent == inflight[r].piece
        rest == todo[r] \ {sent}
    IN
    /\ pc[r] = "recording"
    /\ args[r].kind = Single
    /\ executions' = [executions EXCEPT ![r].rows =
         [n \in DOMAIN @ |-> IF n \in PieceRows(args[r], sent) /\ @[n].status = "draft"
                             THEN Line("sent", inflight[r].txid) ELSE @[n]]]
    /\ todo' = [todo EXCEPT ![r] = rest]
    /\ pc' = [pc EXCEPT ![r] = "finishing"]
    /\ UNCHANGED <<planStatus, drifted, wallet, args, atStart, inflight,
                   pending, failures>>

\* Mark the rows that the last transaction paid, and commit.
RecordRowsSent(r) ==
    LET sent == inflight[r].piece
        rest == todo[r] \ {sent}
        txid == inflight[r].txid
    IN
    /\ pc[r] = "recording"
    /\ args[r].kind = Single
    /\ executions' = [executions EXCEPT ![r].rows =
         [n \in DOMAIN @ |-> IF n \in PieceRows(args[r], sent) /\ @[n].status = "draft"
                             THEN Line("sent", txid) ELSE @[n]]]
    /\ todo' = [todo EXCEPT ![r] = rest]
    /\ pc' = [pc EXCEPT ![r] = IF rest = {} THEN "finishing" ELSE "sending"]
    /\ UNCHANGED <<planStatus, drifted, wallet, args, atStart, inflight,
                   pending, failures>>

\* Mutant: rows already sent are refused with the others.
MutMarkRefused(r) ==
    /\ pc[r] = "failing"
    /\ args[r].kind = Single
    /\ executions' = [executions EXCEPT
         ![r].status = "refused",
         ![r].rows = [n \in DOMAIN @ |-> Line("refused", 0)]]
    /\ pc' = [pc EXCEPT ![r] = "done"]
    /\ UNCHANGED <<planStatus, drifted, wallet, args, atStart, todo,
                   inflight, pending, failures>>

\* A send failed: refuse the header and every row not recorded as sent.
MarkRefused(r) ==
    /\ pc[r] = "failing"
    /\ args[r].kind = Single
    /\ executions' = [executions EXCEPT
         ![r].status = "refused",
         ![r].rows = [n \in DOMAIN @ |-> IF @[n].status = "sent" THEN @[n]
                                         ELSE Line("refused", 0)]]
    /\ pc' = [pc EXCEPT ![r] = "done"]
    /\ UNCHANGED <<planStatus, drifted, wallet, args, atStart, todo,
                   inflight, pending, failures>>

\* Every group is sent: the header takes the first transaction's txid.
MarkSent(r) ==
    /\ pc[r] = "finishing"
    /\ args[r].kind = Single
    /\ executions' = [executions EXCEPT ![r].status = "sent",
                                        ![r].txid = inflight[r].first]
    /\ pc' = [pc EXCEPT ![r] = "done"]
    /\ UNCHANGED <<planStatus, drifted, wallet, args, atStart, todo,
                   inflight, pending, failures>>

\* mark-confirmed of an execution id: gettransaction of the header's txid. It
\* does not look at which executor wrote the execution.
MarkConfirmed(q) ==
    /\ executions[q].status = "sent"
    /\ executions[q].txid \in mined
    /\ executions' = [executions EXCEPT ![q].status = "confirmed",
                                        ![q].rows = ConfirmSentLines(@)]
    /\ UNCHANGED <<planStatus, drifted, wallet, process, failures>>

SingleNext ==
    \/ \E r \in Runs : \/ LoadAndDecide(r)
                       \/ InsertDraft(r)
                       \/ RecordRowsSent(r)
                       \/ MarkRefused(r)
                       \/ MarkSent(r)
    \/ \E q \in Runs : MarkConfirmed(q)
=============================================================================
