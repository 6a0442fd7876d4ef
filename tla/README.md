# Verification of azpool

TLA+ models, TLC model-checking runs and TLAPS proofs about azpool, the backend
of an AZCoin support node. `src/` paths below are paths of the repository.

The program is a set of Python command lines and services around one PostgreSQL
database and one wallet (`azc`, a command line of the AZCoin daemon), a Rust
template provider for Stratum v2 pools, and the older FastAPI payout
application. The part that moves coins is the chain of command lines that turns
pool work into payouts, and the models start there.

## 1. Inventory

| Component | State it keeps | Operations | Talks to | What is hard |
|---|---|---|---|---|
| pool telemetry collector (`collector/app/main.py`, `delta.py`, `db.py`, `identity.py`) | snapshots, work deltas, miner identities, advisory lock | `collect_once` per pool: snapshot, delta, identity resolution, commit | pool HTTP API, database | counters that reset, a second collector, one pool failing, a repeated bucket |
| support wallet reward listener (`reward_events.py`) | `support_wallet_reward_events` | scan, upsert by (wallet, txid, vout) | wallet (read), database | maturity changes, rewards seen late |
| credit ledger (`sc_node_credit_ledger.py`) | credit runs, credits, credit-run/event links | preview, write-draft | rewards, work deltas | window boundaries, two runs over the same events, rounding of shares |
| payout correction ledger (`sc_node_payout_correction.py`) | corrections: draft, applied, cancelled | create-draft, cancel, apply (by the planner) | planner | a correction cancelled or applied while a plan is written |
| payout planner (`sc_node_payout_planner.py`) | plans and plan rows | preview, write-draft | credits, corrections, address registry | reads before the insert, one draft per credit run, partial commits |
| payout plan review (`sc_node_payout_plan_review.py`) | plan and row status, preflight verdict | approve, cancel, preflight | plans, registry | check-then-update, cancel after a payout |
| payout address registry (`payout_addresses.py`, `register_sc_node.sh`) | addresses, the active default of a node | register, activate, retire | planner, review, preflight, executors | an address that changes between plan and send |
| production preflight (`sc_node_payout_production_preflight.py`) | preflight headers and rows | preview, record | wallet (read), plans, registry | a verdict that is stale when used |
| test executor (`sc_node_payout_test_executor.py`) | test executions and their rows | execute-fake, mark-confirmed | plans | a trial of something other than what is paid |
| production executor (`sc_node_payout_production_executor.py`) | executions and execution rows | execute-real, mark-confirmed | wallet (send), plans, preflights | crash or error between broadcast and commit, retries, overlapping runs |
| chunked executor (`sc_node_payout_production_chunked_executor.py`) | executions, rows and chunks | execute-real, mark-confirmed | same | the same, with all sends in one open transaction |
| payout reconciliation, single and chunked (`sc_node_payout_reconciliation.py`, `sc_node_chunked_payout_reconciliation.py`) | reconciliations, superseding chains | record, supersede | executions, wallet (read) | records made before the chain settled |
| cycle readiness (`sc_node_payout_cycle_readiness.py`) | none | verdict CLOSED / READY / NEEDS_EVIDENCE / HALT | all tables (read) | a verdict over tables that move |
| manual periodic runner (`sc_node_manual_periodic_payout_runner.py`) | cycles and their idempotency keys | execute-approved | readiness, chunked executor (subprocess) | gates read long before the subprocess acts |
| scheduler (`sc_node_payout_scheduler.py`) | none (systemd timer, env file) | one tick | runner (subprocess) | repeated ticks, arming and disarming |
| fresh cycle automation (`sc_node_fresh_cycle_automation.py`) | writes a whole cycle, env file of the scheduler | one cycle | credit ledger, planner, review, preflight, runner | a cycle refused half way is never retried |
| template provider (`templar/src`) | current template, sessions, subscriptions | poll, ZMQ wake-up, ingest, send template pairs, submit solution | node RPC, pools | ordering of templates per session, lagging receivers |
| payout application (`payouts/app`) | samples of counters, blocks and their settlements, settlement windows, credits, deferred work, carry, payout events | poll, settle, send | pool, wallet | every statement is a transaction of its own, a forced cycle beside the scheduler's, cycles that stop half way or come late |
| reports, installers, wallet wrapper, migrations | none | read-only or run once | | |

How a payout flows: rewards + work → credit run → (correction) → plan (draft) →
approve → production preflight (passed) → execute-real → mark-confirmed →
reconciliation. Every arrow is a separate operating-system process with its own
database connection; an operator, the runner or the automation starts them, and
nothing but the tables relates one to the next. Transactions run at READ
COMMITTED; the guards are unique indexes and `UPDATE ... WHERE status = ...`.

What makes each part correct:

* executors: no row is paid twice for one plan and key; whatever was broadcast is
  in the database; what the database calls sent was sent; a plan paid once is not
  paid again; the amount stays within the plan; runs end;
* planner, corrections, review, preflight: a plan is the whole of its credit run;
  a correction is deducted once; approval and preflight hold of the rows that are
  executed;
* credit ledger: a reward is credited once, and exactly;
* reconciliation: at most one current reconciliation of an execution, made from
  transactions that are settled;
* collector: no more work is credited to a node than it did, and none is lost;
* runner, scheduler, automation: a cycle is executed at most once, and is not lost;
* template provider: what a pool is sent it can use, and a solved block is of the
  template whose id the solution gives;
* payout application: every period has one settlement window, and rewards, credits,
  deferred work and carry add up.

## 2. Modules

| # | Module | Contents | Proved |
|---|---|---|---|
| 1 | `ExecutionStore`, `SingleExecutor`, `ChunkedExecutor`, `ProductionExecution`, with `PaymentOrder` / `ProductionRefinement` | both executors against one database and wallet; abstract payment order | every safety property of the runs, and the refinement, step by step |
| 2 | `PayoutPlanning`; `PreflightPolicy`, `PayoutRehearsal` | corrections, planner, review, preflight record; reserve and chunking policy, no-send preflight, test executor | types, one draft per run, correction deducted once, whole plans, payable preflights, one preflight per key, lifecycle; what a rehearsal says holds |
| 3 | `Reconciliation`, `CycleReadiness` | single and chunked, superseding; the readiness report over them | chain of reconciliations, evidence, matched means paid, CLOSED means paid for good |
| 4 | `PoolTelemetry` | the collector: lock, snapshots, deltas, identities, failures | types, one run at a time, the rows of a run all or none, no work credited that was not done, none lost |
| 5 | `CreditLedger`, `PayoutCycle` | rewards, credit runs, `write-draft`; fresh-cycle automation, runner and scheduler target over them | types, no reward linked twice but by racing runs, counted is linked, nothing passed over, the scheduler's target committed |
| 6 | `TemplatePoller`, `TemplateProvider` | push policy, ids, broadcast and watch cell; sessions over them | types, ids, usability of what is sent, lagging receivers, blocks and merkle paths, order of sends |
| 7 | `SettlementAllocation`, `LegacySettlement` | the arithmetic of a settlement; the settlement cycle of the payout application | types, windows follow each other, completed windows stay, blocks mature once, money and deferred work add up |
| | `Sums`, `Sums_proofs`, `Chunking` | sums over finite sets, for all of the above; chunks of an amount | induction over numbers and over finite sets, the laws of sums |

The models share only tables, so each is checked with its neighbours as
environment, and what one assumes another guarantees: the executors' model takes
an approved plan with frozen rows whose sum is the header's total (`PlansMoveOn`,
`PlanIsWhole` of `PayoutPlanning`); reconciliation takes executions as the
executors leave them (`RecordIsTrue`, `SettledStays`); the cycle takes the payment
of a plan as one step (`KeySendsOnce`, `RunsEnd`).

Where a run checks a conjunction (`RecordInv`, `RecordsSound`, `PlanTablesSound`, `RehearsalsSound`,
`HistorySound`, `ReportSound`, `RunsSound`, `CreditRunsSound`, `TemplatesSound`,
`SentIsUsable`, `AccountsSound`) its parts have names of their own, and the text
below says what each of them states.

## 3. The executors: `ProductionExecution`

### State and actions

| Variable | Code |
|---|---|
| `planStatus`, `drifted` | plan status; plans whose frozen addresses no longer match the registry |
| `executions` | committed rows of `sc_node_payout_production_executions`, `..._rows`, `..._chunks`; a run inserts at most one execution, so the table is a function of runs |
| `ledger`, `mined` | wallet transactions in broadcast order (the txid is the position), and those with enough confirmations |
| `pc`, `args`, `todo`, `inflight` | a process of `_cmd_execute_real`: its position, command line, and the locals of its send loop |
| `atStart` | the balance a process read, kept as the number of broadcasts it accounts for; and, for the properties only, whether its plan then had an active execution |
| `pending` | what the chunked executor has inserted in its open transaction |
| `failures` | counts crashes and wallet failures, bounded by `MaxFailures` |

`ExecutionStore` holds the tables, the wallet and the steps both executors share
(`Launch`, `RecordRefusal`, the three outcomes of `sendtoaddress`, `Crash`),
`SingleExecutor` and `ChunkedExecutor` their own steps, and `ProductionExecution`
composes them with an environment that cancels plans, changes addresses and
mines. One action is one stretch of code between two points at which another
process can see or change something: a commit, a wallet call, or the release of a
lock. `LoadAndDecide` reads all tables at once; the code reads them in several
statements, none of which is repeated later, and what could change between them
(cancellation, an address, another execution) can equally change after them.

`KeyIsLocked` is how PostgreSQL makes `UNIQUE (payout_plan_id, idempotency_key)`
hold: an insert waits while another open transaction has inserted the same pair.
A row's payment in the single executor is a group: rows that share an address are
paid by one transaction. The amount the wallet is asked for is rounded down
(`WalletAmount`). A wallet call has three outcomes: accepted; refused; or
broadcast although the command line reports an error (a timeout, an empty txid).
Fees, wallet coin selection and the wording of refusals are left out; the refusal
gates are kept one by one. A plan's rows are constants: they are written by the
planner and never updated after approval.

`PaymentOrder` is the abstract specification: for one plan and key, an order is
accepted once, pays each row at most once while it is a draft, is completed only
when every row is paid, and pays nothing once it is closed.
`ProductionRefinement` maps the single executor to it: the status of the execution that
holds the key, and the number of broadcasts that pay each row.

### Runs

All instances are in `MCProduction`: one plan of 9 units, with rows 4 and 2 for
one address around a row of 3 for another; the wallet counts in units of 2, so
rounding occurs, an address group has two rows, and one chunk size leaves a chunk
that rounds to nothing.

| Run | What it checks | Bounds |
|---|---|---|
| `executions` | `KeySendsOnce`, `RecordsSound`, `PaidWithinDust`, `SettledStays`, `NoSendAfterActive`, `ReserveIsKept` | 2 overlapping runs of either executor, equal or different keys, refused command lines, 2 failures, a balance of 22 |
| `executions_end` | `RecordInv` (with `SendInv`, and in it `TypeOK` and `AuditBeforeSend`), `ImplementsPaymentOrder`, `RunsEnd` | 2 overlapping runs of either executor with one key, 2 failures, with fairness |
| `chunked_crash` | violation of `ReplayNeverResends` | 2 chunked runs one after the other, 1 failure |

`RecordsSound` is three statements: what the tables say was sent was broadcast by
that execution for those rows (`RecordIsTrue`); of the broadcasts of an execution at
most one is missing from the tables, the last (`AtMostOneUnrecorded`); and the
chunks sent of a partly sent execution are the first ones (`PartialSentPrefix`).

`NoSendAfterActive` and `ReserveIsKept` say how far the two gates reach that are read
before the sends and never again. A run that is started when its plan has an active
execution sends nothing, although it decides later, while executions are confirmed and
other runs fail. And a run that pays leaves half of the balance it read, except for what
other runs have sent since it read it: two runs that overlap can each take half of the
same balance, which is the disagreement disclosed in section 10, but no run takes more
than its half, whatever it is told of failed sends.

Two runs are enough for the races between equals: every guard relates a run to
one other run. A balance of 22 pays the plan of 9 from its free half once; after 6 of
it are sent, by a run that fails or crashes, a later run is refused, and two overlapping
runs can both pay. Two failures allow a crash after a lost
answer, and a crash of each run. Two address groups and three rows are enough for
"some sent, one in flight, some not": a third group repeats the second.
Deadlock checking is off because runs finish. Runs are symmetric; `executions_end`,
which checks liveness, does not use it.

Fairness (`FairSpec`): the operating system schedules a started process,
PostgreSQL and the wallet command line answer or fail. Nobody has to start a run,
confirm, cancel, mine or crash. `RunsEnd` depends on `Crash` rolling the open
transaction back: the mutant that leaves it open makes another run wait for ever.

### What the violation shows

The chunked executor inserts its execution and sends all chunks in one database
transaction. After a crash nothing of it is left, and the same command line sends
the chunks again, although replay on the same plan and key is documented to be
idempotent. The single executor commits its draft first.

For this reason `KeySendsOnce` is stated for the single executor.

### Proofs

`ProductionExecution_proofs` proves, for every set of runs, plans, keys, addresses,
rows, amounts, command lines and bounds (the named assumptions of
`ExecutionStore`):

* `TypeCorrect` (`TypeOK`), `AuditBeforeEverySend` (`AuditBeforeSend`) and
  `KeyPaysEachRowOnce` (`KeySendsOnce`), from the invariant `SendInv`;
* `RecordsTellTheTruth` (`RecordsSound`) and the action property `RecordsAreKept`
  (`SettledStays`), from `RecordInv`;
* `OrdersAreImplemented` (`ImplementsPaymentOrder`): the refinement, with initial
  states and one lemma per action;
* `PaymentsMatchThePlan` (`PaidWithinDust`), from `ChunksAddUp` and `PiecesAddUp`;
* `NoSendOnceActive` (`NoSendAfterActive`), from `ActiveInv`, and `ReserveSurvivesRuns`
  (`ReserveIsKept`), from `BalanceSound` and `PaidWithinDust`.

`KeySendsOnce` speaks of the ledger only and is not inductive. `SendInv` adds what
makes it so: a run that may send holds its key, committed or in its transaction
(`SendersHaveExecution`); a run in the ledger is past its insert
(`LedgerRunsStarted`); at most one run holds a plan and key (`KeyHeldOnce`, kept by
the locked insert); and a single run broadcasts each of its pieces once, because a
piece leaves `todo` when it is recorded and a failure ends the loop
(`PiecesSentOnce`). Two broadcasts under one key then come from one run and are
different pieces, and different pieces of a run have disjoint rows (a lemma about
address groups).

`RecordInv` relates the tables to the wallet while a run is at work (`RunSound`): the
record it works on, committed or in its open transaction, is a draft in which the
pieces done are recorded with the transaction that paid them, those still to do are
untouched, and the done ones come first (`ProgressSound`); the last broadcast of a run
is the one it is about to record (`InflightSound`); a txid is written only with the
status of a paid line (`LinesSound`). TLC checks it in `executions`.

The refinement needs nothing else. A broadcast pays rows that no broadcast of the order
has paid, because the piece is still to do and pieces share no rows; the other
processes of the order have no execution and send nothing; and a run that completes
has nothing left to do, so every row is in a piece that was broadcast.

`ActiveInv` adds that a run which must not send has not passed its decision, and that the
execution which forbids it is still active: with `RecordInv`, an active execution is
only ever confirmed. `BalanceSound` adds that no broadcast overdraws the wallet, that a
run which passed the reserve gate passed it with the balance it read, and that its
broadcasts come after that reading. The balance is then what was read, less the run's
own payments, which `PaidWithinDust` keeps within the plan, less those of others.

The sums of `PaidWithinDust` are over the transactions of a run, the pieces of a run
and the rows of a piece. They are proved with `Sums_proofs`, whose induction over a
finite set is stated with the property as a set of subsets: `SumOverBlocks` splits the
plan's total into the totals of its pieces, `SumOverImage` turns transactions into
pieces. How a total splits into chunks is arithmetic: all chunks but the last are full.

The proofs have one lemma per action. Only model-checked: `RunsEnd`, which is liveness.

## 4. Planning: from a credit run to a plan the executors accept

`PayoutPlanning` has the tables of plans, plan rows, corrections and production
preflights, the active default addresses of the registry, and the commands in
flight. `PayoutRehearsal` extends it with the commands that look at a plan before it
is paid and send nothing: the no-send preflight of the plan review, the test executor,
and the previews of a production preflight. What a preview works out from the wallet,
the reserve and whether to pay in one transaction or in chunks, is `PreflightPolicy`;
`Chunking` has the sizes of chunks, which the chunked executor shares.

| State | Code |
|---|---|
| `registry` | `sc_node_payout_addresses` where active and default, by node |
| `corrections` | `sc_node_payout_corrections`: status, `related_payout_plan_id` |
| `status`, `rows` | `sc_node_payout_plans.status` and the plan's rows; a plan has the name of the write-draft command that inserts it |
| `pc`, `args`, `preview` | a write-draft command: where it is, its command line, what it has computed; the header it inserts is `args` and `preview` |
| `review` | an approve command between its reads and its update |
| `checks`, `verdict` | recorded production preflights, and those on their way |
| `advice`, `advising` | `preflight_status` of a plan, and no-send preflights on their way |
| `trials`, `trying` | `sc_node_payout_test_executions` with their rows, and those on their way |

| Action | Code |
|---|---|
| `CreateCorrection`, `CancelCorrection` | `_cmd_create_draft`, `_cmd_cancel` of the correction script |
| `RegisterAddress` | the upsert and activation of `register_sc_node.sh`, one transaction; an address is unique, so it may leave another node |
| `LoadCredits`, `ReadAddress`, `DecidePreview` | `_load_preview` and `build_payout_plan_preview`: one query for the credits, the draft and the correction, one per address |
| `InsertHeader`, `ApplyCorrection`, `WriteRows`, `CrashWriter` | the statements of `_cmd_write_draft`'s transaction that can wait, and its end |
| `BeginApprove`, `CompareAddress`, `ApprovePlan`, `CancelPlan` | `_cmd_approve` with one query per address, `_cmd_cancel` |
| `BeginCheck`, `RecordCheck` | `_cmd_record` of the production preflight |
| `BeginAdvise`, `AdviseAddress`, `RecordAdvice` | `_cmd_preflight` of the plan review, with one query per address |
| `BeginTry`, `RecordTry`, `ConfirmTry` | `_cmd_execute_fake` and `_cmd_mark_confirmed` of the test executor |
| `Preview` (an operator: it changes nothing) | `build_production_preflight_preview` with `build_utxo_chunking_policy` |

Reads that one command makes right after the other are one action where no
transaction of another command can tell (credits never change; a second draft and
an applied correction both refuse). `InsertHeader` waits for an uncommitted header
of the same credit run (the unique index on drafts), `ApplyCorrection` for an
uncommitted update of the same correction; both then see what was committed.
Returning early from the connection block commits, an exception or a crash rolls
back. Wallet names, notes and confirmation phrases are left out: a command with a
wrong one changes nothing. Amounts are naturals, percentages hundredths, and what the
code rounds down is divided by whole numbers. A recorded preflight is given the amount
that its balance and options allow to spend (`Limits`); in `PayoutRehearsal` these are
the amounts that the `Wallets` and `Options` of the instance allow (`SpendLimit`).

The test executor reads the plan, its rows, its advice and its earlier executions in
several statements, and these reads are one step: rows are frozen, an approved plan can
only be cancelled and executions are never removed, so a command that goes on at the
last read could have gone on at the first. Only plan and key are unique among test
executions: two commands with different keys can both find no active one and both
insert, and nothing in the code says that they may not (no coin moves).

### Runs

| Run | Instance | What it shows |
|---|---|---|
| `planning` | two writers, two credit runs (one with both nodes, one with the corrected node only), one correction for any run, two addresses | `PlanTablesSound` (`TypeOK`, `OneDraftPerRun`, `RowsFollowPlan`), `CorrectionDeductedOnce`, `PlanIsWhole`, `PlansMoveOn`, `WritersEnd` |
| `preflight` | one plan of two rows, two preflight commands, a no-send preflight, two test executions, two keys, four wallets (balances that do and do not suffice; one coin that pays the plan, several that do together, none listed), three command lines (shares of one half, a fixed reserve, an override) | `RehearsalsSound`: `RehearsalTypeOK`, `ChecksSound` (`PassedCheckPayable`, `OneCheckPerKey`), `AdviceHolds`, `TrialsTrue`, `OneTrialPerKey`, `PreviewsHold` |

Two writers are enough: both locks relate two transactions, and the planner's
refusals look for one other plan. The correction is the whole credit of one run and
a part of the other, and the cap admits the first run only with it. Two addresses
for two nodes are enough for an address to change hands and come back. In `preflight`
two commands of a kind are enough to race for one key, checks, keys and trials are
symmetric, and the coins and thresholds make every mode and every risk but `MEDIUM`
happen (`NeverMedium` says why). Deadlock checking is off because commands finish.

`TrialsTrue` says that a test execution is of a plan that was approved, has a row for
every credit and the plan's total, and has the very rows of every preflight of the plan
that passed. `PreviewsHold` says of every wallet and command line that a preview which
recommends a way to pay leaves the reserve untouched (or the operator overrode it), pays
in one transaction only what the largest coin covers, and otherwise counts enough
chunks, none larger than the largest coin. `AdviceHolds` says that advice to pay is of a
plan that was approved.

`FairSpec` assumes only that a started write-draft command is scheduled and that
PostgreSQL answers it; nobody has to approve, cancel, register or record. `WritersEnd`
holds because every writer takes the header of its run before its correction.

When a correction is applied or cancelled by another command after the planner has
read it, the planner's early return commits the header alone: the plan stays a draft
that names a correction it does not have. `PassedCheckPayable` shows how far this
goes: such a plan may be approved, but no preflight of it passes.

### Proofs

`PayoutPlanning_proofs` proves, for all credits, corrections, command lines, nodes,
addresses, writers and preflights under `CreditsAssumption`, `CorrectionAssumption`
and `PlanningAssumption`: `PlanningTypes`, `OneDraft`, `DeductedOnce`, `RowsFollow`,
`PassedIsPayable`, `OneCheck`, together `PlanTables` and `PreflightRecords`, and the
action property `PlansOnlyMoveOn`. Under `PolicyAssumption` and `RehearsalAssumption`
it proves `RehearsalsAreSound` (`RehearsalsSound`) and `NeverMedium`.

The inductive invariant is `PlanningInv`. `OneDraftPerRun` needs `HeaderHeld`: while a
header is uncommitted there is no draft of its run and no other such header.
`CorrectionDeductedOnce` needs `CorrectionHeld` (a writer that has updated a
correction is alone with it and it was a draft) and `AppliedToWritten` (a correction
is applied to the written plan whose preview has it). `PassedCheckPayable` needs that
the registry never gives an address to two nodes (`RegistryDistinct`), that rows
follow their plan and are its preview, and that steps keep rows (`PlansStep`, which
is also the action property). One lemma per kind of step.

`PlansAreWhole` (`PlanIsWhole`) is proved too. `PlansAddUp`, a part of the invariant,
says of a write-draft command at each of its steps that the amounts of its preview are
the credits less the correction; that a plan's rows sum to its total then follows from
the laws of sums (`Sums_proofs`).

`RehearsalsAreSound` rests on `RehearsalInv` beside `PlanningInv`. `AdvisorsHold` is the
part for advice: a verdict on its way that is still favourable is of a plan that was
approved, and plans only move on. `TrialsCopy` is the part for test executions: one that
is recorded or on its way copies the rows of its plan, all of them approved when it read
them, and rows keep their addresses and amounts; two copies of one plan are then equal
(`CopiesEqual`), which is what relates a test execution to the preflights. `PreviewsHold`
follows from the state alone (`PreviewsAreGood`): an approved plan's rows sum to its
total, and a sum of rounded-up quotients times the size is at least the sum.

`NeverMedium` is a result about `assess_fragmentation_risk` for all coins and
thresholds: it never answers `MEDIUM`, an answer that
`src/payouts/docs/sc-node-production-payout-preflight.md:55` and
`src/docs/adr/ADR-sc-node-payout-utxo-chunking-preflight.md:48` list. A payment that needs
more than one input is of more than the largest coin, which is `HIGH`; one that needs one
input is `LOW`. `MEDIUM` and `HIGH` recommend the same mode, so only the wording differs.

Only model-checked: `WritersEnd`, which is liveness.

The executors' model takes the rows of a plan as constants: `PlansMoveOn` is why it
may. Their preflight gate compares plan and preflight row by row: `PassedCheckPayable`
says that the gate of a passed preflight can be met.

## 5. Reconciliation and readiness: what was paid, according to the tables

`Reconciliation` has the tables of both kinds of reconciliation, the record commands
in flight, and, as environment, the executions, the chain and the receiving wallet.
A reconciliation has the name of the record command that inserts it; its columns are
functions of what the command was given (`args`) and saw (`seen`).

| State | Code |
|---|---|
| `status`, `chunksDone` | `sc_node_payout_production_executions.status`; executions whose chunk rows are confirmed |
| `mined`, `received` | the chain; what the receiving wallet would export |
| `pc`, `args`, `asked`, `seen` | a record command: where it is, its command line and receiver file, how many `gettransaction` calls it has made, which transactions had a confirmation |
| `target` | the row that SELECT ... FOR UPDATE of the chunked script waits for or holds |
| `recorded`, `successor` | the row: not inserted, `superseded_at` null or not; `superseded_by_reconciliation_id` |

| Action | Code |
|---|---|
| `Launch` | load of a confirmed execution and its rows or confirmed chunks |
| `ReadSource` | one `gettransaction` |
| `QueryCurrent` | the single script's SELECT; the snapshot of the chunked script's SELECT ... FOR UPDATE |
| `LockCurrent` | the lock is granted: replay, refusal, or mark superseded |
| `Insert` | insert of a first reconciliation, with its commit |
| `Replace`, `ReplaceFails` | insert and link of a replacement, commit; or rollback |
| `Abort` | the wallet or the database fails, the process dies |
| `Mine`, `Receive` | the chain and the receiving wallet |
| `FinishSends`, `Confirm`, `ConfirmChunks` | how the executors' model leaves an execution, and both `mark-confirmed` commands |

`LockCurrent` has PostgreSQL's rule at READ COMMITTED: a row that was superseded while
the query waited no longer satisfies its WHERE clause and its successor is not in the
snapshot, so the query returns nothing and the command goes on to a plain insert. The
unique index (`Insert`) then stops it; the exception ends the command, nothing is
written. An insert waits for the transaction of a command that is replacing a row of
the same execution, and nobody else can tell an uncommitted insert from one that has
not happened, so insert and commit are one step.

Receiver files are a small set of exports; one that lists a transaction as received
exists only after the wallet received it. Amounts are naturals with a granularity
`WalletQuant`: the twelve decimals of the tables against the wallet's eight.
Confirmations only grow: a reorganisation that unmines a transaction is not modelled,
and the code has no answer to one. Stored evidence, fees, block hashes and notes are
left out, and the checks of the wallet's name too: a wrong one makes the wallet fail.

`CycleReadiness` adds readers: invocations of the readiness report. `ReadExecution`,
`ReadChunks`, `ReadReconciliation` and `ReadSingle` are its statements, each with the
tables as they are then, and `Readiness` is the verdict. Branches that need a table
state no command produces (two active reconciliations, an active row with
`superseded_at`, a sent chunk without a txid) are left out: `HistoryIsChain` is why the
first two cannot be.

### Runs

| Run | Instance | What it shows |
|---|---|---|
| `reconciling` | three commands on an execution of two chunks (no, partial, complete receiver file), or on one of two rows that one transaction pays (no file, one of a wallet that spends, a complete one) | `HistorySound` (`TypeOK`, `HistoryIsChain`, `EvidenceMovesOn`), `MatchedIsTrue`, `MatchedIsFinal` |
| `readiness` | the same with two commands and one reader | `ReportSound` (`ReaderTypeOK`, `ClosedIsPaid`), `ClosedIsForGood`, `CommandsEnd` |

The state constraint `OneExecution` (with a reader: `OneReported`) keeps a behaviour to one of the two
executions (they share nothing but the commands' names) and to receiver files of its
own transactions; it cuts no step of a command that has started.

Three commands are what the races need: a chain of two replacements, or one command
that is overtaken by another while it holds old evidence about the row of a third.
Two chunks make one piece of evidence older than another. Commands are symmetric, and
`reconciling` uses that; `readiness`, which checks liveness, does not: there the first
command begins before the second and before the report, and the second begins whenever it will. Deadlock checking is off because
commands finish. `FairSpec` assumes that a started command is scheduled and that the
wallet and the database answer; nothing has to be mined, received or confirmed.

### Proofs

`Reconciliation_proofs` proves, for all commands, executions, ledgers, payments and
receiver files under the module's assumptions: `ReconciliationTypes`, `Chain`,
`EvidenceGrows` (together `History`), `MatchedWasPaid` and the action property `MatchedStaysCurrent`. The
inductive invariant is `ReconciliationInv`. `HistoryIsChain` needs `Locks`: a command
that is replacing a row is alone with it, the row is current, of its own execution,
does not match, and is the one it was told to supersede. `EvidenceMovesOn` needs
`EvidenceNewer`: because the id of a row is known only after its commit, a command that
names it has asked the wallet later, and has seen at least what that row had seen of
what it has asked so far; when it writes it has asked everything (`Progress`).
`MatchedIsTrue` needs `EvidenceSound`: what a command has seen, and the file it was
given, are true and stay so.

For the report it adds `ReadersInv`, what a reader that has found a
reconciliation knows of it after each later step of the others, and proves
`ReadinessTypes`, `ClosedWasPaid` (together `Reports`) and `ClosedStaysClosed`. A report can be torn: one
that reads the execution before and its chunks after `mark-confirmed` says HALT although
nothing is wrong. The theorems say that a torn verdict is never CLOSED.

Other behaviour of the code that the model has and no property judges: a
`--supersede-reconciliation-id` is ignored when the execution has no active
reconciliation; a lone row with more than eight decimals is compared unrounded and can
never match; a chunked reconciliation without receiver evidence (`source_only`) makes
the report HALT, not NEEDS_EVIDENCE.

Only model-checked: `CommandsEnd`.

## 6. Telemetry: the work of the miners

`PoolTelemetry` is the collector (`payouts/collector/app/main.py`, `delta.py`,
`db.py`, `identity.py`, `pool_client.py`). Each collector is one oneshot process:
it reads the clock, asks for the session advisory lock, commits its run row,
polls the channels of every active pool against the last snapshot it can see, and
commits all rows at once, or rolls back and records the failure. Environment:
shares that move the counters of a channel while it is polled, a pool that
restarts and gives its channel numbers to others, crashes, failing requests and
lost connections. `CommitUnanswered` is the commit that takes effect although
`conn.commit()` raises: the run has stored its rows, has lost the session with the
lock, and marks itself failed on a connection of its own.
`batch` is the open transaction; the history variables are `done`, what work was
really done, and `stored`, whose commits took effect.

Run `telemetry`: three collectors, at most two of them running at a time, and one
by one when there were both a restart and a fault (`FewAtOnce`); two pools, at most
one restart and one fault, which after a restart is not the last collector's
(`LastIsWell`: no collector comes after it that could meet its remains).

* `RunsSound`: with the types,
  `OneRunAtATime`: two collectors never poll at once, also across a crash or a lost
  connection, which frees the lock with the session. (A run that is recording its
  failure may have lost the lock; it writes nothing but its own row.)
  `AllOrNothing`: the rows of a run are all there or none, over all pools, and a run
  that is called a success has stored them. The converse is not true: after a commit
  whose answer was lost the rows are there and the run is called failed.
* `CreditedWorkWasDone`: no more work is credited to a node than it did, as long
  as runs store in the order of their observation times; a collector that took
  its time before the lock breaks that order, and is listed as a hazard.
* `NothingLost`: work between two snapshots of a channel without a restart is in
  some delta.
* `CollectorsEnd`: every collector ends under weak fairness of its own steps.

### Proofs

`PoolTelemetry_proofs` proves `RunsStaySound` (`RunsSound`) for any pools, channels,
collectors, mappings, restarts and faults. `RunsSound` is not inductive alone: the
rows of an open transaction must be of its collector and there must be none outside
a poll (`BatchInv`), or a commit could publish the rows of another run; a collector
that polls or has stored must have its run row, and none has stored before its commit
(`RowInv`). Mutual exclusion needs nothing but the lock, which is a field of the
state and goes with its session.

`CreditIsForWork` (`CreditedWorkWasDone`) and `WorkIsNotLost` (`NothingLost`) are proved
from `CountInv` (`RowsAreAccounted`), which says the same of all the rows at once, so
that a step can keep it. For each node, what the stored deltas credit and what the next
delta of each of its channels would credit (`Open`) are together no more than its work;
a share adds one to both sides. Without a restart, the deltas of a channel sum to the
difference between its last and its first snapshot (`Gapless`). Both hold of what is
stored (`StoredRows`), and of that together with the open transaction of the run that
polls, if it comes after everything stored (`OpenRows`): its commit turns the second
into the first, a rollback forgets it. `PollingRun` is what makes the run that polls
the only one, whose channels each get one row. The sums are over sets of deltas and of
channels, with the laws of `Sums_proofs`. Only model-checked: `CollectorsEnd`.

## 7. Credit runs and the automatic cycle

`CreditLedger` is the table of rewards, the scan that fills it, the credit runs
and `write-draft`. `PayoutCycle` extends it with the fresh-cycle automation, the
manual runner, the scheduler's environment file and the payment of plans, which is
one step here. A process (an operator's writer, the timer's tick, an operator's
tick) holds its open transaction in `draft`, and every SELECT whose place in the
order matters is a step of its own, because READ COMMITTED gives each statement
its own snapshot. `saw` and `moved` are history: the runs that were visible at the
link check, and the rewards that changed while a run was prepared.

Run `cycle`: three rewards, the last two of one second, a balance of 2 beside
them; the timer with an operator's tick, or with an operator's `write-draft`; one
crash or failed runner. The timer comes again and again. The two rewards of one
second mature in the order of their ids (`SecondInOrder`): without their ids they
are alike.

* `CreditRunsSound`: with the types, `LinkedOnceUnlessRacing`: a reward is linked by two runs only if neither run was
  visible at the other's check. The race itself is real: TLC reaches it. And `TargetIsCommitted`:
  the scheduler's file never names a plan that is not there.
* `CountsWhatItLinks`: what a run pays for is what it links, up to rewards that
  changed while it was prepared and rewards of the same second as a linked one.
  Both exceptions are reached.
* `NothingLeftBehind`: while only the automation writes runs, every reward of the
  table that is behind the latest coverage end is linked, or before the baseline,
  or of one second with a linked one.
* `AffordableIsCredited`: once nothing new matures, the timer has credited all that
  the budget allows. The one way to wedge it is a budget that ends between two
  rewards of the same second: the window then counts a reward that was cut, and
  the plan is refused tick after tick.

Fairness: weak fairness of the timer's start (`fresh-cycle` runs from a systemd
timer), of its steps and of its runner. Neither operators nor the wallet are fair.
Assumed: rewards mature in the order of their times, and all work has an owner.

### Proofs

`PayoutCycle_proofs` proves for any rewards, operators, ticks, windows, amounts,
balances and faults, under `RewardsAssumption` and `CycleAssumption` (finitely many
rewards and processes; a reward's time is an even number, so that the microsecond the
automation adds meets no reward; ids of rows are unique): `RunsAreSound`
(`CreditRunsSound`), `CountedIsLinked` (`CountsWhatItLinks`) and `NothingIsPassedOver`
(`NothingLeftBehind`).

All three are properties of the committed runs, and a commit publishes what was read
long before it; so `CycleInv` says what a draft still is when others have gone on.

* `Apart`: what a draft counts and what it links differ only by rewards in `moved`, or
  of a second it cut. It survives the steps of others because those record in `moved`
  whatever changes a window: a scan, a commit that links, and a commit whose end is
  the start of the window (`Bystander`, `EligibleStable`).
* `Inserted`: nothing a draft links was linked by a run it saw at its check. A run it
  did not see is the race that `LinkedOnceUnlessRacing` leaves open.
* `Fills` and `Reaches`: a window of the automation has a linked reward in every
  second, and begins at the baseline or not after the end of a committed run. With
  `Covered`, which says the same up to the latest end, a commit leaves no gap.
  It needs that rewards mature in order (`OldFirst`), and that no run ends where a
  reward is.
* ids of drafts differ from each other and from those of runs (`Distinct`, `NewIdFacts`).

What a sum of amounts is, the proofs never use: a selection is within the budget or it
is not, and what is kept has no later reward than what is cut (`TrimFacts`). Only
model-checked: `AffordableIsCredited`, which is liveness.

## 8. Template provider: `TemplatePoller`, `TemplateProvider`

`templar` asks the node for a block template, decides whether the change is worth a
push, and serves pools that speak Stratum v2. `TemplatePoller` is the thread that
polls (`poller.rs`, `zmq_wakeup.rs`, `template.rs`), with the node as environment;
`TemplateProvider` extends it with the sessions (`tp_server.rs`).

| State | Code |
|---|---|
| `node`, `changes`, `zmq` | what the node would answer now; whether a wakeup waits, or the subscriber has given up |
| `poller`, `nextId`, `lastBroadcast`, `watch`, `queue` | where a refresh is; `next_template_id`, `last_broadcast`, the watch cell; what each receiver of the broadcast channel has not taken |
| `phase`, `writer` | the connection task of a session (setup, then its read loop) and its writer task, which may be stuck in a write |
| `reserve`, `held`, `cache`, `frame` | the constraints of the session's setup, the template being sent, its cache, the pool's frame in work |
| `latest`, `sent`, `seen` | history: the constraints the pool sent last, what it was sent, and the last broadcast the session owes nothing for |

A push is two steps, `Broadcast` and `PublishWatch`, and a new session reads the
watch cell (`ReadWatch`) before it subscribes (`Subscribe`); sessions run on other
threads in between. A template is sent in one step and entered in the cache in the
next, while the read loop looks ids up (`Resolve`). `Enqueue` is the broadcast
channel of tokio: a full one drops its oldest value, and the receiver goes on with
what is left. Size and sigop estimates are sums over the transactions and the pool's
reserve (`Fits`); a merkle root is the tree of its leaves, so that two roots are
equal only if the blocks are. Noise, framing and encodings are left out.

Neither a write to a pool nor a request to the node has a timeout: a pool that stops
reading keeps its writer in `write_all` until the connection breaks (`WriteStalls`,
the writer is `"stuck"`), and a node that accepts a request and never answers keeps
the poller (`GbtHangs`, the poller is `"hung"`). A pool may send
`CoinbaseOutputConstraints` again at any time; the read loop does not handle them
(`ReserveAgain`), so that `reserve` stays what it was at setup.

Run `templates`: one session, a channel of one and a cache of two (512 and 32 in the
code), two changes of the node between three mempools, so that a push is suppressed
by the fee threshold and by the cap, the channel lags and the cache evicts. One
session is enough because sessions meet only in the poller, which never reads them.

* `TemplatesSound`: with the types, an id names one template wherever it is
  (`IdNamesOneTemplate`).
* `SentIsUsable`: what a pool was sent is answered until as many later ones have been
  sent as the cache holds (`SentStaysAnswerable`), and its block has room for what
  the pool reserved at the setup of its session (`OnlyFittingSent`).
* `CaughtUpWhenQuiet`: a session with nothing to receive has considered the last
  broadcast since it subscribed, whatever lagged.
* `FramesAreOfTheirJobs`: the block of a solution is of the template whose id it
  gives: the root folded from the path that was sent is the block's root.
* `SendsMoveForward`: ids rise, and a session never goes back to an older tip.
* `TipsReachSessions`: in the end the last broadcast has the node's tip, unless a
  request to the node hangs, and every subscribed session has considered it, unless
  its pool has stopped reading.

Run `templates_reserve`, on the same instance: `LatestReserveCounts`, that a push
leaves room for what the pool has reserved last, is violated. The README of templar,
two comments and a test say that the latest constraints count; the code stores them
once, at setup, and later ones end in a trace.

Fairness: the poller is weakly fair in its timer and in publishing, and strongly fair
in finishing a refresh (`Suppress`, `Broadcast`): of the requests that end, the node
may fail one now and then but not all for ever. A writer task takes what is queued,
and a write that has not stalled ends, fails or stalls (`WriteGoesOn`): nothing makes
a stalled one end, nor a request that hangs. Pools owe nothing. Deadlock checking is
off because sessions end.

### Proofs

`TemplateProvider_proofs` proves for any mempools, fees, sessions, reserves, depth of
the channel, size of the cache and number of changes: `TemplatesStaySound`
(`TemplatesSound`), `SentStaysUsable` (`SentIsUsable`), `QuietIsCaughtUp`
(`CaughtUpWhenQuiet`) and `SendsRise` (`SendsMoveForward`). Assumed besides the types of
the constants: `NoSnapshotAssumption`, that no template is the mark for none.

The inductive invariant is `ProviderInv`:

* `Places`: wherever a pushed template can be (watch cell, queues, what a session holds,
  has sent or keeps), a larger id has no older tip and equal ids are one template;
  `PollInv` bounds the ids by the changes of the node.
* `QueueInv`: what waits in a session's queue is newer than what it has seen, and the
  last of it is the last broadcast. This is why a lagging receiver, which loses the
  oldest, still ends at the newest.
* `Answerable`: what was sent is in the cache, about to be, or older than everything in a
  full cache. The map drops its least id, so that the last clause says how many were
  sent after it.
* A writer that is stuck has what it held, which is the last it has seen only if it was
  stuck in a template and not in an answer; `QueueInv` says nothing of it.

`FramesStayWithTheirJobs` (`FramesAreOfTheirJobs`) needs `FramesInv`: what the read loop
has found for a frame is a template its session was sent, under the id of the frame.
Equal ids are one template, so that what is left is about merkle trees:
`PathsLeadToRoots` says that for a list of transactions of any length, the path computed
with a placeholder and folded with a coinbase gives the root over that coinbase and
those transactions. By induction over the levels, the trees of two coinbases have levels
of one length that differ in their leftmost node only (`LevelTwins`), each level has
about half of the nodes of the one below until one is left (`LevelWidths`), and the path
is the second node of every level that has one. It assumes that a mempool is a finite
sequence of transactions.

Only model-checked: `TipsReachSessions`, which is liveness.

## 9. The settlement cycle: `SettlementAllocation`, `LegacySettlement`

The payout application (`payouts/app`) shares the reward of the blocks that matured
among the miners by their work. The model is its cycle in the configuration its
deployment plan ends with: Postgres is the primary session, the settlement engine and
the sender, rewards come from block events, and a window without a reward is
deferred. `SettlementAllocation` is the arithmetic: the matured window, the work of a
user from samples of a counter that restarts, and the floor shares of a reward.

| State | Code |
|---|---|
| `foundAt`, `samples`, `known`, `links` | when the blocks were found; `raw_miner_snapshots`; `blocks_found`; `settlement_blocks` with the reward of a link |
| `windows`, `rows`, `credits`, `events` | `settlement_windows` by id; `settlement_user_work`; `settlement_user_credits`; status of `payout_events` |
| `accrual`, `carry` | `work_accrual_bucket`; `carry_state` |
| `job` | a cycle: the statement it is at and what it has read |
| `troubles` | bound: forced cycles, and cycles that have stopped |
| `aborted`, `overlapped`, `raced`, `funded` | history: the steps between credits and links at which a cycle has stopped; whether two have run at once; whether two have found no window at all, and taken different periods for the first; the blocks in the rewards of completed windows |

Every statement of `postgres_repositories.py` is a transaction of its own, so every
action is one statement, or reads only:

| Action | Code |
|---|---|
| `Start` | the cycle of `main.py` begins: counters are sampled, and it settles if it is forced or the interval has passed |
| `Gather` | blocks that matured, from the translator's API and the candidate table (any part of it, for rows and reads that fail); their rewards and those of retried blocks. Several statements and requests in one step |
| `Look`, `Check`, `OpenWindow` | `run_settlement_postgres`: the period after the latest window, a window of that range, the insert |
| `Weigh`, `Merge`, `Price`, `StoreWork` | contributions, deferred work, carry, shares, rows of work |
| `ReadBucket`, `AddWork`, `Defer` | a window without a reward: its work is deferred |
| `Credit`, `Clear`, `Carry`, `Complete` | a window with one: credits, the deferred work goes, the carry, the completed state |
| `Link` | the blocks are linked to the settlement |
| `Send` | the sender, which goes over the events |
| `Abort`, `Tick` | a statement or a request raises; time passes |

Run `settlement`: two users, one whose counter restarts and one that stands still at
times; a block in the candidate table and one that only the translator knows; four
ticks of one interval each, so that cycles come late by several periods; and one
trouble: a cycle forced at time 1 or 2 (`Forced`) beside the scheduler's, before or
after the first window exists, or a cycle that stops at any of its steps. One trouble at a time keeps the instance small; what two of them do together
is in the proofs, which do not bound them.

* `WindowsAbut`: racing, stopping and late cycles leave no period without a window
  and none with two. The first period is the exception (`raced`): the code takes it
  from the cycle's own clock, so two cycles that find no window at different times
  open windows that overlap, leave a gap or come in reverse (section 10). The window
  `OpenWindow` inserts is an interval long in any case.
* `AccountsSound`: with the types, `BooksBalance` (credits and carry are the rewards
  of the completed windows) and `AccrualIsTheDeferredWork` (the deferred work is that
  of the windows deferred since the user was last credited, none twice).
* `MaturesOnce`: a block brings its reward to one window as newly matured.
* `CompletedStays`: a completed window and its credits never change.
* `CatchesUp`: however late, the windows catch up with the time.

The conditions `~overlapped` and `aborted` in the next three say how far the code keeps
them: nothing locks a cycle against another one's statements, a second window of a
range that is still pending is taken for one that crashed and its work added again,
and the credits of a cycle that stops are not undone. Fairness: the scheduler starts
its cycle again and again, and the cycle goes on; a forced one may hang for ever.

Other behaviour of the code that the model has and no property judges: a block that
was linked on an early return, or with only some rewards known, has its reward in no
window; the sender makes the event of a credit only from an event that exists, and
nothing else makes any, so credits stay unsent; the branch that recovers a pending
window is taken only by a cycle that overlaps the one that opened it.

### Proofs

`LegacySettlement_proofs` proves for all users, blocks, counters, intervals and
bounds, under `SettlementAssumption`: `EveryPeriodOnce` (`WindowsAbut`),
`CompletedStay` (`CompletedStays`), `MatureOnce` (`MaturesOnce`) and `AccountsAreSound`
(`AccountsSound`).

`WindowsAbut` needs `FollowsInv`: unless cycles have raced for the first period, those
about to open a window agree on its period while there is none, and afterwards each
has the period of the first window, or one that follows a window that is there,
however old. When the insert finds no window of the range, that window must be the
last one, because any other has a successor of exactly that range. `CompletedStays` needs `AloneInv`: without overlap one cycle is at
work, the range it opens is free, and the window it fills is pending.
`MaturesOnce` needs `FundedInv`: the blocks a cycle has found are not linked, and
those that were funded are linked or about to be by the cycle that completed.

The accounts need three more invariants, which hold while cycles have not overlapped
(`AccountsInvariant`) and rest on `WindowsInv`, the types of the tables and of what a cycle has read
(`TypesInvariant`), which always hold:

* `FillInv`: at each step of a cycle, which rows of work and which credits of its window
  are there, and whose are still to come.
* `BooksInv`: at each step, credits and carry are the rewards of the completed windows,
  together with the reward of the cycle, or what is left of it, once it has begun to
  pay. `Price` brings it in by `AllocationShares`: the floor shares and what the rounding
  leaves are together what is distributed, because no floor is above its share.
* `DueInv`: a user's bucket holds at least the work of the windows deferred since the
  user was credited, and at most that of those and the pending ones; while a cycle
  fills a window, its own work is in the bucket exactly from the step that adds it. A
  cycle that stops leaves a pending window with some of its work in buckets, which is why there are
  two bounds and not one equation.

The sums run over the keys of tables; a step adds a key, changes one, or moves a window
from one set to another, each a law of `Sums_proofs`. TLC has checked the three on the
instance of `settlement` too.

Only model-checked: `CatchesUp`, which is liveness.

## 10. Disagreements without a run

What the code does not keep and a document of the repository says, or a reader would
expect; each has a formula that TLC refutes on the instance named. Deadlock checking
is off in all of them.

* Two keys pay a plan twice (`sc_node_payout_production_executor.py:353`). The gate
  against an active execution is read once, before the insert; two overlapping runs
  with different keys both pass it.
  `\A q, r \in Runs : q # r /\ args[q].plan = args[r].plan =>
  ~ (executions[q].status = "sent" /\ executions[r].status = "sent")`, on the instance of
  `executions`.
* Two overlapping runs spend the reserve together (line 324).
  `payouts/docs/sc-node-production-payout-executor.md:70` says that execute-real
  re-checks the balance when it executes and keeps half of it by default; it is read
  once, before the database is opened. `\A r \in Runs : pc[r] = "sending" /\
  (\A t \in DOMAIN ledger : ledger[t].run # r) => WithinReserve(args[r].plan, Trusted)`,
  on the same instance.
* `mark-confirmed` of the single executor asks for the header's transaction only
  (line 684) and confirms all rows, also those that others paid.
  `\A r \in Runs : args[r].kind = Single /\ executions[r].status = "confirmed" =>
  \A n \in DOMAIN executions[r].rows : executions[r].rows[n].txid \in mined`, with two
  single runs of the plan with two addresses.
* A plan may name a correction it does not have (`sc_node_payout_planner.py:213`):
  `\A p \in Writers : status[p] # "none" /\ PlanCorrection(p) # NoCorrection =>
  corrections[PlanCorrection(p)] = Correction("applied", p)`, on the instance of
  `planning`.
* An execution that paid two addresses is never matched
  (`sc_node_payout_reconciliation.py:611`): every row is compared with the one receiver
  entry of the header's transaction. A recorded reconciliation with all transactions
  mined, seen and in the receiver file is `Matched`, on an execution of two rows with
  two addresses.
* A session that subscribed between `Broadcast` and `PublishWatch` stays on the old tip
  (`tp_server.rs:588`, `poller.rs:408`) until the next push; the README of templar says
  that a new tip is always pushed. `\A s \in DOMAIN queue : writer[s] = "recv" /\
  queue[s] = <<>> => held[s].template.tip = lastBroadcast.template.tip`, on the
  instance of `templates`.
* A retried block funds every later settlement (`postgres_repositories.py:1244`): its
  link keeps zero satoshis after its reward was distributed.
  `docs/payout-ledger-postgres-schema.md:111` says a block can fund only one.
  `\A f, g \in funded : f.block = g.block => f = g`, on the instance of `settlement`
  with `MaxNow = 4` and `MaxTroubles = 0`.
* Two cycles that find no settlement window open two first periods
  (`postgres_settlement.py:309`): without a window the period ends at the time of the
  cycle, and `POST /settlements/run` may be called before the scheduler's first cycle
  has inserted one. Then the windows leave a gap, come in reverse or overlap.
  `\A i \in DOMAIN windows : i + 1 \in DOMAIN windows =>
  windows[i + 1].start = windows[i].end`, on the instance of `settlement`; and with
  `Interval = 2` also `\A i, j \in DOMAIN windows : i # j =>
  windows[i].end <= windows[j].start \/ windows[j].end <= windows[i].start`.

## 11. Not modelled

Each component with status `not_modelled` in `PROJECT.json` has its reason there. They
are, in short: reports, GET endpoints and audit payloads, which change no state;
installers, one-off migrations and the wallet's allow-list, which run once or keep
nothing; the parsing of configuration files; the descriptor updater of the coinbase, a
shell script; and the SQLite engine and sender of the payout application, which the
deployment plan retires and which settles in one transaction.

Of the components that are modelled in part, what is left out is listed with them:
labels and pending addresses of the registry, and the configurations of the payout
application other than the one described above.

Every invariant and action property that a passing run checks is also a theorem, and so
is the refinement. Only the liveness properties (`RunsEnd`, `WritersEnd`,
`CommandsEnd`, `CollectorsEnd`, `AffordableIsCredited`, `TipsReachSessions`,
`CatchesUp`) are checked by TLC alone: the prover reasons about neither fairness nor
ENABLED. The library's induction theorems take the property as an operator, which the
provers cannot instantiate; `Sums_proofs` therefore proves them again with the property
as a set (`NumberInduction`, `SubsetInduction`), and from these the laws of sums, which
are folds over sets. The levels of a merkle tree and the fold of its path, which are
recursive functions, are proved with the first of them.
