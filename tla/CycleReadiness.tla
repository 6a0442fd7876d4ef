----------------------------- MODULE CycleReadiness -----------------------------
(***************************************************************************)
(* The payout cycle readiness report: a read-only command that combines    *)
(* the execution, its chunks and its current reconciliation into one       *)
(* verdict. It reads them in several statements at READ COMMITTED, while   *)
(* executions are confirmed and reconciliations recorded and superseded.   *)
(* A reader is one invocation of the command.                              *)
(***************************************************************************)
EXTENDS Reconciliation

CONSTANT Readers

VARIABLE reader     \* reader -> where it is, and what it has read

NoExecution == "no execution"

\* What the rows of sc_node_payout_production_execution_chunks say together.
ChunkState(e) ==
    IF ~ IsChunked(e) THEN "none"
    ELSE IF e \in chunksDone THEN "confirmed"
    ELSE IF status[e] = "partial_sent" THEN "refused"
    ELSE "sent"

Reader == [pc : {"idle", "chunks", "reconciliation", "single", "done"},
           execution : Executions \cup {NoExecution},
           status : {"none", "draft", "sent", "confirmed", "refused", "partial_sent"},
           chunks : {"none", "sent", "confirmed", "refused"},
           found : Commands \cup {NoCommand},
           verdict : {"none", "CLOSED", "READY", "NEEDS_EVIDENCE", "HALT"}]

-----------------------------------------------------------------------------
(* The verdict.                                                            *)

\* _evaluate_chunked_execution_integrity, for the chunks an executor leaves.
BadChunks(st, chunks) ==
    \/ chunks = "refused"
    \/ st = "confirmed" /\ chunks = "sent"

Halts(st, chunks, r) ==
    \/ st \in {"refused", "partial_sent"}
    \/ BadChunks(st, chunks)
    \/ r # NoCommand /\ ~ Matched(r)

\* _chunked_counts_aligned and _chunked_totals_aligned.
CountsAligned(e, r) ==
    LET L == Ledger[e].chunks IN
    args[r].kind = Chunked =>
        /\ ReceiverCount(args[r]) = Len(L)
        /\ ReceiverTotal(args[r]) = SumLines(L, DOMAIN L)

\* The reconciliation is of the kind that closes this execution.
Closes(e, r) == r # NoCommand /\ (args[r].kind = Chunked <=> IsChunked(e))

\* evaluate_payout_cycle_readiness; an execution in draft has a passed
\* preflight, or it would not have been inserted.
Readiness(e, st, chunks, r) ==
    IF Halts(st, chunks, r) THEN "HALT"
    ELSE IF Closes(e, r)
    THEN IF st # "confirmed" THEN "NEEDS_EVIDENCE"
         ELSE IF CountsAligned(e, r) THEN "CLOSED" ELSE "HALT"
    ELSE IF st = "confirmed" THEN "NEEDS_EVIDENCE"
    ELSE IF st = "sent" /\ chunks = "confirmed" THEN "HALT"
    ELSE "READY"

\* The current reconciliation of a kind, if there is one.
CurrentOf(e, kind) ==
    LET S == {r \in Commands : /\ recorded[r] = "current"
                               /\ args[r].kind = kind /\ args[r].execution = e}
    IN IF S = {} THEN NoCommand ELSE CHOOSE r \in S : TRUE

\* build_payout_status_summary: a chunked reconciliation goes first.
FoundNow(e) ==
    IF CurrentOf(e, Chunked) # NoCommand THEN CurrentOf(e, Chunked)
    ELSE CurrentOf(e, Single)

ReadinessNow(e) == Readiness(e, status[e], ChunkState(e), FoundNow(e))

-----------------------------------------------------------------------------
(* The command: _load_context, one statement after the other.              *)

Goes(v, r) == reader' = [reader EXCEPT ![v] = r]

ReadExecution(v, e) ==
    /\ reader[v].pc = "idle"
    /\ Goes(v, [reader[v] EXCEPT !.pc = "chunks", !.execution = e, !.status = status[e]])
    /\ UNCHANGED vars

ReadChunks(v) ==
    /\ reader[v].pc = "chunks"
    /\ Goes(v, [reader[v] EXCEPT !.pc = "reconciliation",
                                 !.chunks = ChunkState(reader[v].execution)])
    /\ UNCHANGED vars

ReadReconciliation(v) ==
    /\ reader[v].pc = "reconciliation"
    /\ Goes(v, [reader[v] EXCEPT !.pc = "single",
                                 !.found = CurrentOf(reader[v].execution, Chunked)])
    /\ UNCHANGED vars

\* The last statement, and the verdict.
ReadSingle(v) ==
    LET R == reader[v]
        f == IF R.found # NoCommand THEN R.found ELSE CurrentOf(R.execution, Single)
    IN
    /\ R.pc = "single"
    /\ Goes(v, [R EXCEPT !.pc = "done", !.found = f,
                         !.verdict = Readiness(R.execution, R.status, R.chunks, f)])
    /\ UNCHANGED vars

-----------------------------------------------------------------------------

ReadinessInit ==
    /\ Init
    /\ reader = [v \in Readers |->
                   [pc |-> "idle", execution |-> NoExecution, status |-> "none",
                    chunks |-> "none", found |-> NoCommand, verdict |-> "none"]]

Read(v) ==
    \/ \E e \in Executions : ReadExecution(v, e)
    \/ ReadChunks(v) \/ ReadReconciliation(v) \/ ReadSingle(v)

ReadinessNext ==
    \/ Next /\ UNCHANGED reader
    \/ \E v \in Readers : Read(v)

ReadinessSpec == ReadinessInit /\ [][ReadinessNext]_<<vars, reader>>

\* The record commands are scheduled and answered; the report need not be.
ReadinessFairSpec == ReadinessSpec /\ \A c \in Commands : WF_vars(Step(c))

-----------------------------------------------------------------------------
(* Properties.                                                             *)

\* Types of what a reader has read.
ReaderTypeOK == reader \in [Readers -> Reader]

\* A cycle reported CLOSED was paid: its lines are settled, although the report
\* only reads tables, one after the other, and asks no wallet.
ClosedIsPaid ==
    \A v \in Readers : reader[v].verdict = "CLOSED" =>
        LET e == reader[v].execution IN
        Settled(IF IsChunked(e) THEN Chunked ELSE Single, e)

\* What a report has read is well-formed, and what it calls CLOSED was paid.
ReportSound == ReaderTypeOK /\ ClosedIsPaid

\* CLOSED is for good: whatever is recorded later, the tables still say so.
ClosedIsForGood ==
    \A v \in Readers : reader[v].verdict = "CLOSED" =>
        ReadinessNow(reader[v].execution) = "CLOSED"
=============================================================================
