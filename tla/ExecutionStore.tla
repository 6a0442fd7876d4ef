--------------------------- MODULE ExecutionStore ---------------------------
(***************************************************************************)
(* The tables, the wallet and the process state that the two production    *)
(* payout executors share.                                                 *)
(*                                                                         *)
(* A "run" is one invocation of an executor command line (execute-real);   *)
(* it inserts at most one row of sc_node_payout_production_executions, so  *)
(* that table is a function from runs to execution records and the         *)
(* identity columns (payout_plan_id, idempotency_key, chunk_amount) are    *)
(* those of the run's command line.                                        *)
(***************************************************************************)
EXTENDS Sequences, Chunking, Sums

CONSTANTS
    Runs,               \* execute-real invocations
    Plans,              \* payout plans, approved and preflighted upstream
    Keys,               \* idempotency keys
    PlanRows,           \* plan -> its rows, in the order the executors load them
    Addresses,          \* payout addresses
    Invocations,        \* the command lines a run may be started with
    WalletQuant,        \* database amount units per wallet amount unit
    TrustedAtStart,     \* trusted balance of the source wallet, database units
    MaxConcurrentRuns,  \* bound: runs alive at the same time
    MaxFailures         \* bound: crashes, refused and unanswered wallet calls

Single  == "single"
Chunked == "chunked"

CommandLine ==
    [kind: {Single, Chunked}, plan: Plans, key: Keys, chunk_amount: Nat \ {0},
     allow_multiple_rows: BOOLEAN, confirm_phrase_ok: BOOLEAN,
     preflight_passed: BOOLEAN]

\* Plan rows are frozen once a plan is approved; amounts are CHECKed >= 0.
ASSUME PlanRowsAssumption ==
    PlanRows \in [Plans -> Seq([address: Addresses, amount: Nat])]

ASSUME InvocationsAssumption == Invocations \subseteq CommandLine

ASSUME QuantAssumption == WalletQuant \in Nat \ {0}

ASSUME BoundsAssumption ==
    /\ TrustedAtStart \in Nat
    /\ MaxConcurrentRuns \in Nat
    /\ MaxFailures \in Nat

VARIABLES
    planStatus,     \* sc_node_payout_plans.status
    drifted,        \* plans a row of which no longer matches the address registry
    executions,     \* committed execution of each run ("none": not inserted)
    ledger,         \* wallet transactions in broadcast order; txid = position
    mined,          \* txids with enough confirmations
    pc,             \* where each run is in _cmd_execute_real
    args,           \* command line of each run
    atStart,        \* what each run found when it started, see Launch
    todo,           \* pieces of the rows the run loaded that it has not sent yet
    inflight,       \* locals of the send loop: last piece, its txid, first txid
    pending,        \* execution inside the run's open transaction
    failures        \* failures so far

tables  == <<planStatus, drifted, executions>>
wallet  == <<ledger, mined>>
process == <<pc, args, atStart, todo, inflight, pending>>
vars    == <<tables, wallet, process, failures>>

-----------------------------------------------------------------------------
(* Plan rows, and the pieces an execution is sent in.                      *)

RowIds(p) == DOMAIN PlanRows[p]

RowAmount(p, n) == PlanRows[p][n].amount

RowAmounts(p) == [n \in RowIds(p) |-> RowAmount(p, n)]

\* planned_amount_total of the plan header.
PlannedTotal(p) == SumOver(RowAmounts(p), RowIds(p))

\* A piece is what one sendtoaddress call pays: a group of rows that share an
\* address (single, named by its first row) or one chunk of a row (chunked).
Piece == [row: Nat, index: Nat]

\* wallet_rows.setdefault(address, []): the rows paid together with row n.
SameAddress(p, n) ==
    {m \in RowIds(p) : PlanRows[p][m].address = PlanRows[p][n].address}

GroupPieces(p) ==
    {[row |-> n, index |-> 1] :
        n \in {n \in RowIds(p) : \A m \in SameAddress(p, n) : n <= m}}

ChunkPieces(p, size) ==
    UNION {{[row |-> n, index |-> i] :
              i \in 1 .. ChunkCount(RowAmount(p, n), size)} : n \in RowIds(p)}

Pieces(a) ==
    IF a.kind = Single THEN GroupPieces(a.plan)
    ELSE ChunkPieces(a.plan, a.chunk_amount)

PieceRows(a, c) ==
    IF a.kind = Single THEN SameAddress(a.plan, c.row) ELSE {c.row}

PieceAmount(a, c) ==
    IF a.kind = Single
    THEN SumOver(RowAmounts(a.plan), PieceRows(a, c))
    ELSE ChunkAmount(RowAmount(a.plan, c.row), a.chunk_amount, c.index)

\* Mutant: round to nearest, halves up.
MutWalletAmount(x) == LET up == x + (WalletQuant \div 2) IN up - (up % WalletQuant)

\* format_wallet_amount_down: the wallet takes fewer decimals than the tables.
WalletAmount(x) == x - (x % WalletQuant)

\* Pieces are sent by row, then by chunk index.
Before(c, d) == \/ c.row < d.row
                \/ c.row = d.row /\ c.index < d.index

IsFirst(c, S) == \A d \in S : d = c \/ Before(c, d)

-----------------------------------------------------------------------------
(* Execution records.                                                      *)

ExecutionStatus ==
    {"none", "draft", "sent", "confirmed", "refused", "partial_sent"}
LineStatus == {"none", "draft", "sent", "confirmed", "refused"}

Line(status, txid) == [status |-> status, txid |-> txid]

\* Only the chunked executor writes chunk rows.
ChunkIds(a) == IF a.kind = Chunked THEN Pieces(a) ELSE {}

\* A header with its rows and chunks, all lines in one status, no txid.
NewExecution(a, status, rowStatus, chunkStatus) ==
    [status |-> status, txid |-> 0,
     rows   |-> [n \in RowIds(a.plan) |-> Line(rowStatus, 0)],
     chunks |-> [c \in ChunkIds(a) |-> Line(chunkStatus, 0)]]

NoExecution(a) == NewExecution(a, "none", "none", "none")

SamePlanKey(q, r) == args[q].plan = args[r].plan /\ args[q].key = args[r].key

\* Mutant: the replay lookup only sees executions that are active.
MutExistingByKey(r) ==
    \E q \in Runs : executions[q].status \in {"sent", "confirmed"} /\ SamePlanKey(q, r)

\* build_execution_by_plan_idempotency_sql
ExistingByKey(r) == \E q \in Runs : executions[q].status # "none" /\ SamePlanKey(q, r)

\* build_existing_active_production_execution_sql, with each executor's statuses
ActiveForPlan(r, statuses) ==
    \E q \in Runs : args[q].plan = args[r].plan /\ executions[q].status \in statuses

\* The bulk updates of mark-confirmed: lines that are sent become confirmed.
ConfirmSentLines(lines) ==
    [i \in DOMAIN lines |-> IF lines[i].status = "sent"
                            THEN Line("confirmed", lines[i].txid) ELSE lines[i]]

\* The chunked executor keeps its inserts in an open transaction while it sends.
InTransaction(r) == pending[r].status # "none"

\* Mutant: no uniqueness while a transaction is open.
MutKeyIsLocked(r) == FALSE /\ r \in Runs

\* UNIQUE (payout_plan_id, idempotency_key): an insert waits for a transaction
\* that holds the same pair, then succeeds or fails with a unique violation.
KeyIsLocked(r) == \E q \in Runs \ {r} : InTransaction(q) /\ SamePlanKey(q, r)

-----------------------------------------------------------------------------
(* The wallet balance and the refusals both executors share.               *)

\* What each broadcast has paid.
TxAmounts ==
    [t \in DOMAIN ledger |->
        WalletAmount(PieceAmount(args[ledger[t].run], ledger[t].piece))]

\* Trusted balance that the first n broadcasts have left (fees are ignored).
TrustedAfter(n) ==
    LET spent == SumOver(TxAmounts, 1 .. n)
    IN IF spent > TrustedAtStart THEN 0 ELSE TrustedAtStart - spent

\* Trusted balance of the wallet now.
Trusted == TrustedAfter(Len(ledger))

\* calculate_execution_guardrails with the default reserve of one half.
Spendable(balance) == balance - (balance \div 2)

\* evaluate_balance_refusal
WithinReserve(p, balance) ==
    /\ PlannedTotal(p) > 0
    /\ balance > 0
    /\ PlannedTotal(p) <= Spendable(balance)

\* Mutant: the balance gate is skipped.
MutPreviewRefused(r) ==
    \/ ~ args[r].preflight_passed
    \/ planStatus[args[r].plan] # "approved"
    \/ RowIds(args[r].plan) = {}
    \/ args[r].plan \in drifted

\* evaluate_preview_refusal: plan, preflight, address and balance gates.
PreviewRefused(r) ==
    \/ ~ args[r].preflight_passed
    \/ planStatus[args[r].plan] # "approved"
    \/ RowIds(args[r].plan) = {}
    \/ args[r].plan \in drifted
    \/ ~ WithinReserve(args[r].plan, TrustedAfter(atStart[r].sent))

-----------------------------------------------------------------------------
(* Steps of a run that are the same in both executors.                     *)

Finished == {"done", "failed", "crashed"}

Alive == {r \in Runs : pc[r] \notin Finished \cup {"idle"}}

\* The statuses that make an execution active for the executor of r.
ActiveFor(r) ==
    {"sent", "confirmed"} \cup IF args[r].kind = Chunked THEN {"partial_sent"} ELSE {}

\* A run starts by reading getbalances, before it opens the database: the balance
\* is what the broadcasts up to then have left. Whether its plan had an active
\* execution is kept for the properties only.
Launch(r) ==
    /\ pc[r] = "idle"
    /\ Cardinality(Alive) < MaxConcurrentRuns
    /\ pc' = [pc EXCEPT ![r] = "loading"]
    /\ atStart' = [atStart EXCEPT
         ![r] = [sent |-> Len(ledger), active |-> ActiveForPlan(r, ActiveFor(r))]]
    /\ UNCHANGED <<tables, wallet, args, todo, inflight, pending, failures>>

\* The plan's approved rows, read with the plan; a cancelled plan has none.
LoadedPieces(r) ==
    IF planStatus[args[r].plan] = "approved" THEN Pieces(args[r]) ELSE {}

\* Insert and commit a refused execution and the rows that were loaded: the key
\* is used up.
RecordRefusal(r) ==
    /\ pc[r] = "refusing"
    /\ ~ KeyIsLocked(r)
    /\ IF ExistingByKey(r)
       THEN /\ pc' = [pc EXCEPT ![r] = "failed"]
            /\ UNCHANGED executions
       ELSE /\ pc' = [pc EXCEPT ![r] = "done"]
            /\ executions' = [executions EXCEPT ![r] =
                    NewExecution(args[r], "refused",
                                 IF todo[r] = {} THEN "none" ELSE "refused", "none")]
    /\ UNCHANGED <<planStatus, drifted, wallet, args, atStart, todo,
                   inflight, pending, failures>>

\* sendtoaddress: the wallet broadcasts and answers with the txid.
SendAccepted(r) ==
    /\ pc[r] = "sending"
    /\ \E c \in todo[r] :
        /\ IsFirst(c, todo[r])
        /\ WalletAmount(PieceAmount(args[r], c)) \in 1 .. Trusted
        /\ ledger' = Append(ledger, [run |-> r, piece |-> c])
        /\ inflight' = [inflight EXCEPT
             ![r] = [piece |-> c, txid |-> Len(ledger) + 1,
                     first |-> IF @.first = 0 THEN Len(ledger) + 1 ELSE @.first]]
    /\ pc' = [pc EXCEPT ![r] = "recording"]
    /\ UNCHANGED <<tables, mined, args, atStart, todo, pending, failures>>

\* The wallet broadcasts but the command line reports an error.
SendReplyLost(r) ==
    /\ pc[r] = "sending"
    /\ failures < MaxFailures
    /\ \E c \in todo[r] :
        /\ IsFirst(c, todo[r])
        /\ WalletAmount(PieceAmount(args[r], c)) \in 1 .. Trusted
        /\ ledger' = Append(ledger, [run |-> r, piece |-> c])
        /\ inflight' = [inflight EXCEPT ![r] = [piece |-> c, txid |-> 0, first |-> @.first]]
    /\ failures' = failures + 1
    /\ pc' = [pc EXCEPT ![r] = "failing"]
    /\ UNCHANGED <<tables, mined, args, atStart, todo, pending>>

\* The wallet refuses: amount rounds to zero, funds are short, or any other
\* error (such as "Transaction too large"), which counts as a failure.
SendRejected(r) ==
    /\ pc[r] = "sending"
    /\ \E c \in todo[r] :
        /\ IsFirst(c, todo[r])
        /\ IF WalletAmount(PieceAmount(args[r], c)) \in 1 .. Trusted
           THEN failures < MaxFailures /\ failures' = failures + 1
           ELSE UNCHANGED failures
        /\ inflight' = [inflight EXCEPT ![r] = [piece |-> c, txid |-> 0, first |-> @.first]]
    /\ pc' = [pc EXCEPT ![r] = "failing"]
    /\ UNCHANGED <<tables, wallet, args, atStart, todo, pending>>

\* Mutant: the dead process's transaction stays open.
MutCrash(r) ==
    /\ r \in Alive
    /\ failures < MaxFailures
    /\ failures' = failures + 1
    /\ pc' = [pc EXCEPT ![r] = "crashed"]
    /\ UNCHANGED <<tables, wallet, args, atStart, todo, inflight, pending>>

\* The process dies (or its database connection does): an open transaction is
\* rolled back, what was committed and what was broadcast stay.
Crash(r) ==
    /\ r \in Alive
    /\ failures < MaxFailures
    /\ failures' = failures + 1
    /\ pc' = [pc EXCEPT ![r] = "crashed"]
    /\ pending' = [pending EXCEPT ![r] = NoExecution(args[r])]
    /\ UNCHANGED <<tables, wallet, args, atStart, todo, inflight>>

Init ==
    /\ planStatus = [p \in Plans |-> "approved"]
    /\ drifted = {}
    /\ args \in [Runs -> Invocations]
    /\ executions = [r \in Runs |-> NoExecution(args[r])]
    /\ ledger = <<>>
    /\ mined = {}
    /\ pc = [r \in Runs |-> "idle"]
    /\ atStart = [r \in Runs |-> [sent |-> 0, active |-> FALSE]]
    /\ todo = [r \in Runs |-> {}]
    /\ inflight = [r \in Runs |-> [piece |-> [row |-> 0, index |-> 0],
                                   txid |-> 0, first |-> 0]]
    /\ pending = [r \in Runs |-> NoExecution(args[r])]
    /\ failures = 0
=============================================================================
