---------------------------- MODULE PayoutCycle -----------------------------
(***************************************************************************)
(* The fresh-cycle automation: a timer that credits and pays the mature    *)
(* rewards of the support wallet on its own, beside the operator's runs of *)
(* the same program and of write-draft.                                    *)
(*                                                                         *)
(* A tick scans the wallet, takes the unlinked mature rewards after the     *)
(* last credit run, keeps the oldest of them that half of the trusted      *)
(* balance can pay, and writes in one transaction a credit run, its        *)
(* approved plan and its preflight. Live, it commits and calls the manual  *)
(* runner, which pays the plan; as write-target it commits and leaves the   *)
(* plan to the scheduler, whose environment file it points at it. The      *)
(* executor itself is in SingleExecutor; here a plan is paid, or its       *)
(* runner failed and it waits for an operator.                             *)
(***************************************************************************)
EXTENDS CreditLedger

CONSTANTS
    Timer,          \* the tick of the systemd timer; the others are an operator's
    Amount,         \* reward -> its amount
    Id,             \* reward -> id of its row
    Baseline,       \* FRESH_CYCLE_BASELINE
    Casts,          \* who acts: sets of processes
    FirstBalances,  \* trusted balances of the wallet before the first reward
    MaxFaults       \* bound: crashes and failures of ticks

ASSUME CycleAssumption ==
    /\ Timer \in Ticks
    /\ \A C \in Casts : C \subseteq Processes
    /\ Amount \in [Rewards -> Nat \ {0}]
    /\ Id \in [Rewards -> Nat] /\ \A r, q \in Rewards : Id[r] = Id[q] => r = q
    /\ Baseline \in Nat
    /\ MaxFaults \in Nat

VARIABLES
    mode,           \* execute-live or write-target, of each tick
    paid,           \* credit runs whose plan was paid
    interrupted,    \* credit runs whose tick ended before the plan was paid (history)
    env,            \* plan that the scheduler's environment file names, by its run
    balance,        \* trusted balance, without the rewards
    faults          \* faults so far

cycle == <<mode, paid, interrupted, env, balance, faults>>
vars == <<ledgerVars, cycle>>

Modes == {"execute-live", "write-target"}

Total(S) == MapThenSumSet(LAMBDA r : Amount[r], S)
PaidTotal == MapThenSumSet(LAMBDA i : Total(runs[i].counted), paid)
Trusted == balance + Total(matured) - PaidTotal

-----------------------------------------------------------------------------
(* Selection.                                                              *)

LatestEnd == Max({runs[i].end : i \in DOMAIN runs} \cup {0})

\* compute_coverage_start
CoverageStart == Max({Baseline, LatestEnd})

Unlinked == reported \ Linked

\* compute_coverage_end_for_events: a microsecond after the last.
CoverageEnd(S) == Max({Time[r] : r \in S}) + 1

\* reward_event_is_fresh, for the window without its end
IsFresh(r, start) == IF ExcludesStart(start) THEN Time[r] > start ELSE Time[r] >= start

\* build_fresh_cycle_selection: unlinked, in the window that ends after the last.
Fresh(start) == {r \in Unlinked : IsFresh(r, start)}

\* Rewards by time, then id.
Before(r, q) == Time[r] < Time[q] \/ (Time[r] = Time[q] /\ Id[r] < Id[q])

\* What the reserve of one half leaves, less the headroom for fees.
WithinBudget(S) == 2 * Total(S) < Trusted

\* A cycle that takes all that is fresh, however little the balance allows.
MutTrimAll(S) == S

\* Newest rewards first.
MutTrimNewest(S) ==
    UNION {K \in SUBSET S : WithinBudget(K) /\ \A r \in K, q \in S \ K : Before(q, r)}

\* trim_fresh_events_to_budget: the oldest rewards, as many as are together within
\* the budget.
Trim(S) ==
    UNION {K \in SUBSET S : WithinBudget(K) /\ \A r \in K, q \in S \ K : Before(r, q)}

\* The coverage of the whole selection, kept or not.
MutTrimmedEnd(selected, kept) == CoverageEnd(selected)

\* The coverage ends after the last reward that was kept.
TrimmedEnd(selected, kept) == CoverageEnd(kept)

\* What the plan and the preflight of a run demand of the balance: half of it
\* stays. (Plans pay the credits of the run; all of its work has an owner.)
Payable(run) == 2 * Total(run.counted) <= Trusted

\* write_scheduler_env_file: the file is replaced as a whole.
WriteEnv(i) == env' = i

\* resolve_scheduler_target: the file names a plan and its preflight.
TargetSet == env # NoTarget

\* evaluate_idempotency_state: an execution of the plan that was sent, under this
\* key or another, forbids one more.
MayExecute(i) == i \notin paid

\* evaluate_runner_gates: idempotency, readiness and preflight. (The cadence holds
\* an operator back for a while; a tick overrides it.)
RunnerAllows(i) == MayExecute(i) /\ Payable(runs[i])

-----------------------------------------------------------------------------
(* A tick.                                                                 *)

\* systemd starts the timer's tick when the last one has ended. It scans the
\* wallet first.
StartTick(t, m) ==
    /\ pc[t] = "idle"
    /\ t = Timer => m = "execute-live"
    /\ mode' = [mode EXCEPT ![t] = m]
    /\ ScanReads(t)
    /\ UNCHANGED <<paid, interrupted, env, balance, faults>>

\* Where a tick is when it ends: live, it has yet to make the scheduler safe.
Ended(t) == IF mode[t] = "execute-live" THEN "restore"
            ELSE IF t = Timer THEN "idle" ELSE "done"

\* MAX(coverage_end), the first statement of _load_selection.
LoadLatestEnd(t) ==
    /\ pc[t] = "load"
    /\ draft' = [draft EXCEPT ![t] = [NoRun EXCEPT !.start = CoverageStart, !.auto = TRUE]]
    /\ moved' = [moved EXCEPT ![t] = {}]
    /\ Goto(t, "windowed")
    /\ UNCHANGED <<ledger, target, cycle>>

\* The rewards, cut to the budget.
LoadSelection(t) ==
    LET fresh == Fresh(draft[t].start)
        kept == Trim(fresh)
    IN /\ pc[t] = "windowed"
       /\ kept # {}
       /\ draft' = [draft EXCEPT ![t].linked = kept, ![t].end = TrimmedEnd(fresh, kept)]
       /\ Goto(t, "selected")
       /\ UNCHANGED <<ledger, target, moved, cycle>>

SafeSkip(t) ==
    /\ pc[t] = "windowed"
    /\ Trim(Fresh(draft[t].start)) = {}
    /\ Leave(t, Ended(t))
    /\ UNCHANGED <<ledger, cycle>>

\* _lookup_fresh_cycle_artifacts: a tick has committed this very window.
SameWindow(t) ==
    {i \in DOMAIN runs : runs[i].auto /\ runs[i].start = draft[t].start
                                      /\ runs[i].end = draft[t].end}

\* The artifacts, then the preview: the header and the credits count every mature
\* reward of the window, linked or not.
LoadCreditPreview(t) ==
    LET counted == Eligible(draft[t].start, draft[t].end, ExcludesStart(draft[t].start))
    IN /\ pc[t] = "selected"
       /\ Allocatable(counted)
       /\ IF SameWindow(t) # {} \* and its artifacts are complete: one commit wrote them
          THEN /\ target' = [target EXCEPT ![t] = Max(SameWindow(t))]
               /\ Goto(t, "committed")
               /\ draft' = [draft EXCEPT ![t] = NoRun]
               /\ moved' = [moved EXCEPT ![t] = {}]
          ELSE /\ draft' = [draft EXCEPT ![t].counted = counted]
               /\ Goto(t, "counted")
               /\ UNCHANGED <<target, moved>>
       /\ UNCHANGED <<ledger, cycle>>

\* _write_credit_run: the links are looked up once more, and the run is inserted.
WriteCreditRun(t) ==
    /\ pc[t] = "counted"
    /\ ~ AlreadyLinked(draft[t].linked)
    /\ draft' = [draft EXCEPT ![t].saw = DOMAIN runs]
    /\ target' = [target EXCEPT ![t] = NewId]
    /\ Goto(t, "written")
    /\ UNCHANGED <<ledger, moved, cycle>>

\* The plan, its approval and its preflight, with the balance read again; commit.
CommitArtifacts(t) ==
    /\ pc[t] = "written"
    /\ Payable(draft[t])
    /\ CommitRun(t)
    /\ draft' = [draft EXCEPT ![t] = NoRun]
    /\ Goto(t, "committed")
    /\ UNCHANGED <<matured, reported, target, cycle>>

\* A refusal or an exception rolls everything back: a reward became linked, or
\* the balance has fallen, or a scan has taken the rewards back.
Refuse(t) ==
    /\ \/ pc[t] = "selected" /\ Eligible(draft[t].start, draft[t].end,
                                         ExcludesStart(draft[t].start)) = {}
       \/ pc[t] = "counted" /\ AlreadyLinked(draft[t].linked)
       \/ pc[t] = "written" /\ ~ Payable(draft[t])
    /\ Leave(t, Ended(t))
    /\ UNCHANGED <<ledger, cycle>>

\* write-target: the scheduler's file names the plan, once it is committed.
PublishTarget(t) ==
    /\ pc[t] = "committed"
    /\ mode[t] = "write-target"
    /\ WriteEnv(target[t])
    /\ target' = [target EXCEPT ![t] = NoTarget]
    /\ Goto(t, Ended(t))
    /\ UNCHANGED <<ledger, draft, moved, mode, paid, interrupted, balance, faults>>

\* execute-live: the manual runner finds the plan paid under the same key, by a
\* tick that committed it first, and replays it.
RunnerReplays(t) ==
    /\ pc[t] = "committed"
    /\ mode[t] = "execute-live"
    /\ ~ MayExecute(target[t])
    /\ target' = [target EXCEPT ![t] = NoTarget]
    /\ Goto(t, "restore")
    /\ UNCHANGED <<ledger, draft, moved, cycle>>

\* The runner has the executor pay the plan.
RunnerPays(t) ==
    /\ pc[t] = "committed"
    /\ mode[t] = "execute-live"
    /\ RunnerAllows(target[t])
    /\ paid' = paid \cup {target[t]}
    /\ target' = [target EXCEPT ![t] = NoTarget]
    /\ Goto(t, "restore")
    /\ UNCHANGED <<ledger, draft, moved, mode, interrupted, env, balance, faults>>

\* The runner fails, or refuses because the balance has fallen: the plan stays
\* approved and unpaid, and no later tick takes it up.
RunnerFails(t) ==
    /\ pc[t] = "committed"
    /\ mode[t] = "execute-live"
    /\ MayExecute(target[t])
    /\ \/ faults < MaxFaults /\ faults' = faults + 1
       \/ ~ RunnerAllows(target[t]) /\ faults' = faults
    /\ interrupted' = interrupted \cup {target[t]}
    /\ target' = [target EXCEPT ![t] = NoTarget]
    /\ Goto(t, "restore")
    /\ UNCHANGED <<ledger, draft, moved, mode, paid, env, balance>>

\* finally: the scheduler is made safe.
RestoreScheduler(t) ==
    /\ pc[t] = "restore"
    /\ WriteEnv(NoTarget)
    /\ Goto(t, IF t = Timer THEN "idle" ELSE "done")
    /\ UNCHANGED <<ledger, draft, target, moved, mode, paid, interrupted, balance, faults>>

\* The process dies: nothing is restored. (One that dies before it writes leaves
\* what a tick that skips leaves.)
TickDies(t) ==
    /\ pc[t] \in {"written", "committed", "restore"}
    /\ faults < MaxFaults
    /\ faults' = faults + 1
    /\ interrupted' = interrupted \cup (IF pc[t] = "committed" THEN {target[t]} ELSE {})
    /\ Leave(t, IF t = Timer THEN "idle" ELSE "done")
    /\ UNCHANGED <<ledger, mode, paid, env, balance>>

\* execute-approved by an operator: the plan of a draft, or one whose tick was
\* interrupted.
OperatorPays(i) ==
    /\ i \in DOMAIN runs
    /\ runs[i].auto => i \in interrupted
    /\ RunnerAllows(i)
    /\ paid' = paid \cup {i}
    /\ UNCHANGED <<ledgerVars, mode, interrupted, env, balance, faults>>

\* The scheduler, when an operator enables it, has the runner pay the plan that its
\* environment names, and skips when it names none.
SchedulerPays ==
    /\ TargetSet
    /\ RunnerAllows(env)
    /\ paid' = paid \cup {env}
    /\ UNCHANGED <<ledgerVars, mode, interrupted, env, balance, faults>>

-----------------------------------------------------------------------------

Init ==
    /\ LedgerInit
    /\ \E C \in Casts : pc = [p \in Processes |-> IF p \in C THEN "idle" ELSE "done"]
    /\ mode = [t \in Ticks |-> "execute-live"]
    /\ paid = {}
    /\ interrupted = {}
    /\ env = NoTarget
    /\ balance \in FirstBalances
    /\ faults = 0

TickStep(t) ==
    \/ ScanWrites(t) /\ UNCHANGED cycle
    \/ LoadLatestEnd(t)
    \/ LoadSelection(t)
    \/ SafeSkip(t)
    \/ LoadCreditPreview(t)
    \/ WriteCreditRun(t)
    \/ CommitArtifacts(t)
    \/ Refuse(t)
    \/ PublishTarget(t)
    \/ RunnerReplays(t)
    \/ RestoreScheduler(t)

Next ==
    \/ \E r \in Rewards : Mature(r) /\ UNCHANGED cycle
    \/ \E p \in Writers : WriterStep(p) /\ UNCHANGED cycle
    \/ \E t \in Ticks, m \in Modes : StartTick(t, m)
    \/ \E t \in Ticks : TickStep(t) \/ RunnerPays(t) \/ RunnerFails(t) \/ TickDies(t)
    \/ \E i \in DOMAIN runs : OperatorPays(i)
    \/ SchedulerPays

\* The timer fires again and again, and a tick that runs goes on. Nothing makes a
\* reward mature, and nothing makes an operator act.
Fairness ==
    /\ WF_vars(StartTick(Timer, "execute-live"))
    /\ WF_vars(TickStep(Timer))
    /\ WF_vars(RunnerPays(Timer) \/ RunnerFails(Timer))

Spec == Init /\ [][Next]_vars /\ Fairness

-----------------------------------------------------------------------------
(* Properties.                                                             *)

TypeOK ==
    /\ matured \subseteq Rewards
    /\ reported \subseteq matured
    /\ \A i \in DOMAIN runs : i \in Nat \ {0} /\ runs[i] \in Run /\ runs[i].start < runs[i].end
    /\ mode \in [Ticks -> Modes]
    /\ paid \subseteq DOMAIN runs
    /\ interrupted \subseteq DOMAIN runs
    /\ \A p \in Processes : target[p] \in Nat
    /\ faults \in 0 .. MaxFaults

\* The scheduler's environment never names a plan that is not committed.
TargetIsCommitted == TargetSet => env \in DOMAIN runs /\ runs[env].auto

\* Credit runs are well-formed, no two that knew of each other link one reward
\* (CreditLedger), and the scheduler's target is among them.
CreditRunsSound == TypeOK /\ LinkedOnceUnlessRacing /\ TargetIsCommitted

\* As long as only the automation writes runs, no reward that the table holds is
\* passed over: it is linked, or before the baseline, or still to come, or of the
\* same second as a linked one.
NothingLeftBehind ==
    (\A i \in DOMAIN runs : runs[i].auto) =>
        \A r \in Unlinked :
            \/ Time[r] < Baseline
            \/ Time[r] >= LatestEnd
            \/ \E q \in Linked : Time[q] = Time[r]

\* The budget cuts between two rewards of one second: the run counts both, and may
\* ask for more than the balance allows.
CutsASecond ==
    LET kept == Trim(Fresh(CoverageStart))
    IN \E r \in kept, q \in Fresh(CoverageStart) \ kept : Time[q] = Time[r]

\* Once nothing new matures, the timer has credited all that the balance can pay:
\* neither a crash, nor a failed runner, nor what an operator does beside it wedges
\* it, and only a budget that cuts a second does.
AffordableIsCredited ==
    <>[] (Trim(Fresh(CoverageStart)) = {} \/ CutsASecond)

=============================================================================
