--------------------------- MODULE ChunkedExecutor ---------------------------
(***************************************************************************)
(* execute-real and mark-confirmed of the chunked production executor      *)
(* (payouts/scripts/sc_node_payout_production_chunked_executor.py).        *)
(*                                                                         *)
(* It splits each row into chunks and sends one transaction per chunk.     *)
(* The execution, its rows and its chunks are inserted and updated in one  *)
(* database transaction that is committed after the last send, or when a   *)
(* send fails.                                                             *)
(***************************************************************************)
EXTENDS ExecutionStore

\* Mutant: a partly sent execution is not active.
MutChunkedActive == {"sent", "confirmed"}

ChunkedActive == {"sent", "confirmed", "partial_sent"}

PieceAmounts(a) == [c \in Pieces(a) |-> PieceAmount(a, c)]

ChunkSum(r) == SumOver(PieceAmounts(args[r]), Pieces(args[r]))

\* evaluate_chunked_execute_real_refusal, for a key that has no execution.
ChunkedRefused(r) ==
    \/ PreviewRefused(r)
    \/ args[r].chunk_amount > PlannedTotal(args[r].plan)
    \/ ChunkSum(r) # PlannedTotal(args[r].plan)
    \/ ~ args[r].confirm_phrase_ok
    \/ ActiveForPlan(r, ChunkedActive)

\* Read plan, rows, preflight, registry and executions. Without approved rows the
\* confirmation phrase cannot be built (chunk_count must be at least 1): the
\* process ends before it looks for a replay.
ChunkedLoadAndDecide(r) ==
    /\ pc[r] = "loading"
    /\ args[r].kind = Chunked
    /\ pc' = [pc EXCEPT ![r] = IF LoadedPieces(r) = {} THEN "failed"
                               ELSE IF ExistingByKey(r) THEN "done"
                               ELSE IF ChunkedRefused(r) THEN "refusing"
                               ELSE "inserting"]
    /\ todo' = [todo EXCEPT ![r] = LoadedPieces(r)]
    /\ UNCHANGED <<tables, wallet, args, atStart, inflight, pending, failures>>

\* Insert header, rows and chunks as drafts; nothing is committed. A chunk of
\* amount zero violates scn_ppec_chunk_amount_positive.
InsertChunked(r) ==
    /\ pc[r] = "inserting"
    /\ args[r].kind = Chunked
    /\ ~ KeyIsLocked(r)
    /\ IF ExistingByKey(r) \/ \E c \in todo[r] : PieceAmount(args[r], c) = 0
       THEN /\ pc' = [pc EXCEPT ![r] = "failed"]
            /\ UNCHANGED pending
       ELSE /\ pc' = [pc EXCEPT ![r] = "sending"]
            /\ pending' = [pending EXCEPT ![r] =
                             NewExecution(args[r], "draft", "draft", "draft")]
    /\ UNCHANGED <<tables, wallet, args, atStart, todo, inflight, failures>>

\* Mark the chunk the last transaction paid, inside the transaction.
RecordChunkSent(r) ==
    LET sent == inflight[r].piece
        rest == todo[r] \ {sent}
    IN
    /\ pc[r] = "recording"
    /\ args[r].kind = Chunked
    /\ pending' = [pending EXCEPT ![r].chunks[sent] = Line("sent", inflight[r].txid)]
    /\ todo' = [todo EXCEPT ![r] = rest]
    /\ pc' = [pc EXCEPT ![r] = IF rest = {} THEN "finishing" ELSE "sending"]
    /\ UNCHANGED <<tables, wallet, args, atStart, inflight, failures>>

\* End the transaction with x as what it wrote.
Commit(r, x) ==
    /\ executions' = [executions EXCEPT ![r] = x]
    /\ pending' = [pending EXCEPT ![r] = NoExecution(args[r])]
    /\ pc' = [pc EXCEPT ![r] = "done"]
    /\ UNCHANGED <<planStatus, drifted, wallet, args, atStart, todo,
                   inflight, failures>>

\* A send failed: refuse its chunk, mark the header, leave rows as drafts.
CommitPartialSent(r) ==
    /\ pc[r] = "failing"
    /\ args[r].kind = Chunked
    /\ Commit(r, [pending[r] EXCEPT
                    !.status = "partial_sent",
                    !.chunks[inflight[r].piece] = Line("refused", 0)])

\* Every chunk is sent: the header and all rows take the first chunk's txid.
CommitSent(r) ==
    /\ pc[r] = "finishing"
    /\ args[r].kind = Chunked
    /\ LET txid == inflight[r].first
       IN Commit(r, [pending[r] EXCEPT
                       !.status = "sent", !.txid = txid,
                       !.rows = [n \in DOMAIN @ |-> Line("sent", txid)]])

\* mark-confirmed of a chunked execution: every chunk sent, no chain evidence.
MarkChunkedConfirmed(q) ==
    /\ args[q].kind = Chunked
    /\ executions[q].status = "sent"
    /\ \A c \in DOMAIN executions[q].chunks : executions[q].chunks[c].status = "sent"
    /\ executions' = [executions EXCEPT ![q].status = "confirmed",
                                        ![q].rows = ConfirmSentLines(@),
                                        ![q].chunks = ConfirmSentLines(@)]
    /\ UNCHANGED <<planStatus, drifted, wallet, process, failures>>

ChunkedNext ==
    \/ \E r \in Runs : \/ ChunkedLoadAndDecide(r)
                       \/ InsertChunked(r)
                       \/ RecordChunkSent(r)
                       \/ CommitPartialSent(r)
                       \/ CommitSent(r)
    \/ \E q \in Runs : MarkChunkedConfirmed(q)
=============================================================================
