------------------------- MODULE ProductionExecution -------------------------
(***************************************************************************)
(* Invocations of both executors against one database and one wallet:      *)
(* interleaved, crashing, refused by the wallet, or losing its answer,     *)
(* while operators cancel plans, change payout addresses and confirm       *)
(* executions, and miners confirm transactions.                            *)
(***************************************************************************)
EXTENDS SingleExecutor, ChunkedExecutor

-----------------------------------------------------------------------------
(* What the rest of the system does to the state the executors read.       *)

\* plan_review cancel: allowed at any time, executions are not looked at.
CancelPlan(p) ==
    /\ planStatus[p] = "approved"
    /\ planStatus' = [planStatus EXCEPT ![p] = "cancelled"]
    /\ UNCHANGED <<drifted, executions, wallet, process, failures>>

\* The operator retires a payout address of the plan, or restores it.
ChangeAddress(p) ==
    /\ drifted' = IF p \in drifted THEN drifted \ {p} ELSE drifted \cup {p}
    /\ UNCHANGED <<planStatus, executions, wallet, process, failures>>

Mine(t) ==
    /\ t \notin mined
    /\ mined' = mined \cup {t}
    /\ UNCHANGED <<tables, ledger, process, failures>>

Environment ==
    \/ \E p \in Plans : CancelPlan(p) \/ ChangeAddress(p)
    \/ \E t \in DOMAIN ledger : Mine(t)

WalletNext == \E r \in Runs : SendAccepted(r) \/ SendReplyLost(r) \/ SendRejected(r)

Next ==
    \/ \E r \in Runs : Launch(r) \/ RecordRefusal(r) \/ Crash(r)
    \/ WalletNext
    \/ SingleNext
    \/ ChunkedNext
    \/ Environment

Spec == Init /\ [][Next]_vars

\* The steps a process takes once it is started, unless it crashes.
RunStep(r) ==
    \/ LoadAndDecide(r) \/ ChunkedLoadAndDecide(r) \/ RecordRefusal(r)
    \/ InsertDraft(r) \/ InsertChunked(r)
    \/ SendAccepted(r) \/ SendReplyLost(r) \/ SendRejected(r)
    \/ RecordRowsSent(r) \/ MarkRefused(r) \/ MarkSent(r)
    \/ RecordChunkSent(r) \/ CommitPartialSent(r) \/ CommitSent(r)

\* A started process is scheduled, PostgreSQL answers, and the wallet command
\* line returns. Nobody has to start a run, confirm, cancel, mine or crash.
FairSpec == Spec /\ \A r \in Runs : WF_vars(RunStep(r))

-----------------------------------------------------------------------------
(* Properties.                                                             *)

ControlState ==
    {"idle", "loading", "refusing", "inserting", "sending", "recording",
     "failing", "finishing"} \cup Finished

LineType == [status : LineStatus, txid : Nat]

\* An execution record of a run started with the command line a.
ExecutionType(a) ==
    [status : ExecutionStatus, txid : Nat,
     rows : [RowIds(a.plan) -> LineType], chunks : [ChunkIds(a) -> LineType]]

\* Type invariant of the tables, the wallet and the processes.
TypeOK ==
    /\ planStatus \in [Plans -> {"approved", "cancelled"}]
    /\ drifted \subseteq Plans
    /\ args \in [Runs -> Invocations]
    /\ DOMAIN executions = Runs
    /\ \A r \in Runs : executions[r] \in ExecutionType(args[r])
    /\ ledger \in Seq([run : Runs, piece : Piece])
    /\ mined \subseteq Nat
    /\ pc \in [Runs -> ControlState]
    /\ atStart \in [Runs -> [sent : Nat, active : BOOLEAN]]
    /\ DOMAIN todo = Runs
    /\ \A r \in Runs : todo[r] \subseteq Pieces(args[r])
    /\ inflight \in [Runs -> [piece : Piece, txid : Nat, first : Nat]]
    /\ \A r \in Runs : pc[r] \in {"recording", "failing"} =>
                          inflight[r].piece \in todo[r]
    /\ DOMAIN pending = Runs
    /\ \A r \in Runs : pending[r] \in ExecutionType(args[r])
    /\ failures \in Nat

IsSingle(t) == args[ledger[t].run].kind = Single

RowsPaidBy(t) == PieceRows(args[ledger[t].run], ledger[t].piece)

\* Whenever the single executor has broadcast, its execution is in the database
\* ("a crash mid-broadcast always leaves an auditable DB record").
AuditBeforeSend ==
    \A t \in DOMAIN ledger :
        IsSingle(t) => executions[ledger[t].run].status # "none"

\* For one plan and idempotency key the single executor never pays a plan row
\* twice, however its invocations are repeated, interleaved or killed.
KeySendsOnce ==
    \A t, u \in DOMAIN ledger :
        t # u /\ IsSingle(t) /\ IsSingle(u)
              /\ SamePlanKey(ledger[t].run, ledger[u].run)
            => RowsPaidBy(t) \cap RowsPaidBy(u) = {}

\* The parts that make the two properties above inductive (see the proofs).

Sending == {"sending", "recording", "failing", "finishing"}

\* A run that may send has its execution, committed or in its transaction.
SendersHaveExecution ==
    \A r \in Runs : pc[r] \in Sending =>
        IF args[r].kind = Single THEN executions[r].status # "none" ELSE InTransaction(r)

\* A run that is in the ledger is past its insert.
LedgerRunsStarted ==
    \A t \in DOMAIN ledger :
        pc[ledger[t].run] \notin {"idle", "loading", "refusing", "inserting"}

HoldsKey(r) == executions[r].status # "none" \/ InTransaction(r)

\* UNIQUE (payout_plan_id, idempotency_key), open transactions included.
KeyHeldOnce ==
    \A q, r \in Runs : HoldsKey(q) /\ HoldsKey(r) /\ SamePlanKey(q, r) => q = r

\* A run broadcasts each of its pieces at most once.
PiecesSentOnce ==
    \A t \in DOMAIN ledger :
        LET r == ledger[t].run
            c == ledger[t].piece
        IN /\ c \in Pieces(args[r])
           /\ pc[r] = "sending" => c \notin todo[r]
           /\ pc[r] = "recording" /\ c \in todo[r] => c = inflight[r].piece
           /\ \A u \in DOMAIN ledger :
                 u # t /\ ledger[u].run = r => ledger[u].piece # c

\* The inductive invariant: every broadcast is a piece of its own, and one of the
\* single executor belongs to the one execution that holds its plan and key.
SendInv ==
    /\ TypeOK
    /\ SendersHaveExecution
    /\ LedgerRunsStarted
    /\ AuditBeforeSend
    /\ KeyHeldOnce
    /\ PiecesSentOnce

Paid == {"sent", "confirmed"}

\* Transaction t of ledger L is the one in which run r paid piece c.
PaidWith(L, r, c, t) == t \in DOMAIN L /\ L[t] = [run |-> r, piece |-> c]

\* The lines of record x of command line a that stand for piece c: a chunk, or rows.
LinesFor(a, x, c) ==
    IF a.kind = Chunked THEN {x.chunks[c]} ELSE {x.rows[n] : n \in PieceRows(a, c)}

\* They are paid, and name a transaction that paid the piece.
Recorded(L, r, a, x, c) ==
    \A line \in LinesFor(a, x, c) : line.status \in Paid /\ PaidWith(L, r, c, line.txid)

RecordTrue(L, r, a, x) ==
    \A c \in Pieces(a) :
        x.status \in Paid \/ (\E line \in LinesFor(a, x, c) : line.status \in Paid)
            => Recorded(L, r, a, x, c)

\* A row (single) or chunk recorded as sent names the transaction that paid it,
\* and an execution is sent only when all of its pieces are recorded so.
RecordIsTrue == \A r \in Runs : RecordTrue(ledger, r, args[r], executions[r])

\* Whatever happens to a run of the single executor, at most its last broadcast
\* is missing from the rows, and only while it is recorded or after a failure.
AtMostOneUnrecorded ==
    \A t \in DOMAIN ledger :
        LET r == ledger[t].run
            rows == executions[r].rows
        IN IsSingle(t) /\ (\E n \in RowsPaidBy(t) : rows[n].txid # t)
             => /\ \A u \in DOMAIN ledger : ledger[u].run = r => u <= t
                /\ \/ pc[r] \in {"recording", "failing", "crashed"}
                   \/ pc[r] = "done" /\ executions[r].status = "refused"

PaidByRun(r) ==
    SumOver(TxAmounts, {t \in DOMAIN ledger : ledger[t].run = r})

\* One execution never pays more than its plan, and one that ends sent is short
\* of it by less than the wallet's smallest unit for each transaction.
PaidWithinDust ==
    \A r \in Runs :
        LET total == PlannedTotal(args[r].plan)
            dust  == Cardinality(Pieces(args[r])) * (WalletQuant - 1)
        IN /\ PaidByRun(r) <= total
           /\ executions[r].status \in Paid => total - PaidByRun(r) <= dust

PrefixSent(L, r, x) ==
    x.status = "partial_sent" =>
        \E c \in DOMAIN x.chunks :
            /\ x.chunks[c].status = "refused"
            /\ \A d \in DOMAIN x.chunks \ {c} :
                  /\ x.chunks[d].status = IF Before(d, c) THEN "sent" ELSE "draft"
                  /\ Before(d, c) => PaidWith(L, r, d, x.chunks[d].txid)

\* In a partly sent chunked execution one chunk is refused, the chunks before it
\* are sent, and the chunks after it are untouched.
PartialSentPrefix == \A r \in Runs : PrefixSent(ledger, r, executions[r])

\* What the tables say of the wallet is true, and all but the last broadcast of a
\* single run, and the whole prefix of a partial chunked one, is in them.
RecordsSound == RecordIsTrue /\ AtMostOneUnrecorded /\ PartialSentPrefix

\* The parts that make RecordsSound inductive (see the proofs).

\* A txid is written only with the status that goes with it.
TxidsBelongToPaid(x) ==
    /\ x.txid # 0 => x.status \in Paid
    /\ \A n \in DOMAIN x.rows : x.rows[n].txid # 0 => x.rows[n].status \in Paid
    /\ \A c \in DOMAIN x.chunks : x.chunks[c].txid # 0 => x.chunks[c].status \in Paid

LinesSound(a, x) ==
    TxidsBelongToPaid(x) /\ (x.status = "none" => x = NoExecution(a))

\* In the record x of a run that sends, what the run has still to do (T) is
\* drafts, what it has done is recorded, and the pieces are done in their order.
Progress(L, r, a, x, T) ==
    /\ x.status = "draft" /\ TxidsBelongToPaid(x)
    /\ \A n \in DOMAIN x.rows : x.rows[n].status \in {"draft", "sent"}
    /\ \A c \in DOMAIN x.chunks : x.chunks[c].status \in {"draft", "sent"}
    /\ \A c \in Pieces(a) \ T : Recorded(L, r, a, x, c)
    /\ \A c \in T : \A line \in LinesFor(a, x, c) : line.status = "draft"
    /\ \A c \in Pieces(a) \ T : \A d \in T : Before(c, d)

\* The record a sending run works on: committed, or in its open transaction.
WorkRecord(r) == IF args[r].kind = Single THEN executions[r] ELSE pending[r]

ProgressSound(r) ==
    pc[r] \in Sending =>
        /\ Progress(ledger, r, args[r], WorkRecord(r), todo[r])
        /\ args[r].kind = Chunked => executions[r].status = "none"

\* The last transaction of a run is the one it is about to record.
InflightSound(r) ==
    LET c == inflight[r].piece
    IN /\ pc[r] = "inserting" => todo[r] = Pieces(args[r])
       /\ pc[r] = "finishing" => todo[r] = {}
       /\ pc[r] \in {"recording", "failing"} => IsFirst(c, todo[r])
       /\ pc[r] = "recording" => PaidWith(ledger, r, c, inflight[r].txid)

RunSound(r) ==
    LinesSound(args[r], executions[r]) /\ ProgressSound(r) /\ InflightSound(r)

\* The inductive invariant.
RecordInv == SendInv /\ RecordsSound /\ \A r \in Runs : RunSound(r)

\* A run never sends for a plan that had an active execution, in the eyes of its
\* executor, when the run was started, whatever confirms, fails or crashes while it
\* decides ("refuse if another active execution exists for the plan").
NoSendAfterActive == \A t \in DOMAIN ledger : ~ atStart[ledger[t].run].active

\* The part that makes it inductive: such a run stops at its decision, and until
\* then the execution is still active.
StopsIfActive ==
    \A r \in Runs : atStart[r].active =>
        /\ pc[r] \notin {"idle", "inserting"} \cup Sending
        /\ pc[r] = "loading" => ActiveForPlan(r, ActiveFor(r))

ActiveInv == StopsIfActive /\ NoSendAfterActive

\* Broadcasts of the other runs since run r read its balance.
SentByOthersSince(r) ==
    {t \in DOMAIN ledger : t > atStart[r].sent /\ ledger[t].run # r}

\* A run leaves half of the balance it read in the wallet, except for what other
\* runs have sent since it read it: nothing else makes the balance it decides on
\* stale ("fresh trusted balance", "default 50% reserve").
ReserveIsKept ==
    \A r \in Runs : (\E t \in DOMAIN ledger : ledger[t].run = r) =>
        Trusted + SumOver(TxAmounts, SentByOthersSince(r))
            >= TrustedAfter(atStart[r].sent) \div 2

\* The part that makes it inductive: a run that passed the gate passed it with the
\* balance it read, and sends only after that; no broadcast overdraws the wallet.
BalanceSound ==
    /\ SumOver(TxAmounts, DOMAIN ledger) <= TrustedAtStart
    /\ \A r \in Runs :
         /\ atStart[r].sent <= Len(ledger)
         /\ pc[r] \in {"inserting"} \cup Sending
               => WithinReserve(args[r].plan, TrustedAfter(atStart[r].sent))
    /\ \A t \in DOMAIN ledger :
         LET r == ledger[t].run
         IN /\ t > atStart[r].sent
            /\ WithinReserve(args[r].plan, TrustedAfter(atStart[r].sent))

\* Record y keeps what record x says of transactions and of its outcome.
Settled(x, y) ==
    LET keeps(old, new) ==
          \A i \in DOMAIN old : /\ old[i].txid # 0 => new[i].txid = old[i].txid
                                /\ old[i].status \in Paid => new[i].status \in Paid
    IN /\ keeps(x.rows, y.rows) /\ keeps(x.chunks, y.chunks)
       /\ x.txid # 0 => y.txid = x.txid
       /\ x.status \in {"refused", "partial_sent", "confirmed"} => y.status = x.status

\* What is committed is settled: a recorded txid never changes, a line that was
\* sent never becomes unsent, a closed execution is never reopened.
SettledStays == [][\A r \in Runs : Settled(executions[r], executions'[r])]_vars

\* A run that is started ends, also when it has to wait for the transaction of
\* another run with its key.
RunsEnd == \A r \in Runs : pc[r] = "loading" ~> pc[r] \in Finished

\* For one plan and key, no chunk or row group is paid twice by either executor
\* ("idempotent replay on same (payout_plan_id, idempotency_key)").
ReplayNeverResends ==
    \A t, u \in DOMAIN ledger :
        t # u /\ SamePlanKey(ledger[t].run, ledger[u].run)
            => RowsPaidBy(t) \cap RowsPaidBy(u) = {} \/ ledger[t].run = ledger[u].run
=============================================================================
