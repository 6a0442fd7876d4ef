--------------------------- MODULE PayoutRehearsal ---------------------------
(***************************************************************************)
(* What an operator runs on a plan before it is paid, and that pays        *)
(* nothing: the no-send preflight of the plan review, which leaves its     *)
(* verdict on the plan, the test executor, which records an execution with *)
(* a made-up txid, and the preview of a production preflight. They run     *)
(* beside the commands of PayoutPlanning.                                  *)
(*                                                                         *)
(* The test executor reads the plan, its rows and the executions of the    *)
(* plan in several statements. What they read only moves away from what    *)
(* the command requires (rows are frozen, an approved plan can only be     *)
(* cancelled, an execution is not removed), so a command that goes on has  *)
(* seen what was there at the first of them: the reads are one step.       *)
(***************************************************************************)
EXTENDS PayoutPlanning, PreflightPolicy

CONSTANTS
    Advisors,       \* no-send preflight commands that run at the same time
    Trials,         \* execute-fake invocations, and the executions they insert
    Wallets,        \* what getbalances and listunspent may answer
    Options         \* command lines of the production preflight

\* _run_getbalances and _run_listunspent: the trusted balance, and the coins the
\* wallet lists (none when the call fails).
IsWallet(w) == w.trusted \in Nat /\ IsSnapshot(w.coins)

ASSUME RehearsalAssumption ==
    /\ Options \subseteq Option
    /\ \A w \in Wallets : IsWallet(w)
    /\ Limits = {SpendLimit(w.trusted, o) : w \in Wallets, o \in Options}

VARIABLES
    advice,         \* plan -> its preflight_status
    advising,       \* advisor -> the verdict it is working out
    trials,         \* trial -> the test execution it inserted
    trying          \* trial -> what it has read and will insert

rehearsal == <<advice, advising, trials, trying>>

-----------------------------------------------------------------------------
(* The no-send preflight of the plan review.                               *)

NoAdvice == [plan |-> NoPlan, allowed |-> FALSE, left |-> {}]

\* Read the plan and its rows.
BeginAdvise(v) ==
    /\ advising[v] = NoAdvice
    /\ \E p \in Writers, limit \in Limits :
        /\ status[p] # "none"
        /\ advising' = [advising EXCEPT ![v] =
              [plan |-> p,
               allowed |-> status[p] = "approved" /\ PlanTotal(p) <= limit,
               left |-> DOMAIN rows[p]]]
    /\ UNCHANGED <<vars, advice, trials, trying>>

\* One query per row: its node's address is still the plan's.
AdviseAddress(v, n) ==
    LET r == advising[v] IN
    /\ n \in r.left
    /\ advising' = [advising EXCEPT ![v] =
          [plan |-> r.plan,
           allowed |-> r.allowed /\ registry[n] = rows[r.plan][n].address,
           left |-> r.left \ {n}]]
    /\ UNCHANGED <<vars, advice, trials, trying>>

\* UPDATE ... WHERE id: whatever has become of the plan, and of its last advice.
RecordAdvice(v) ==
    LET r == advising[v] IN
    /\ r.plan # NoPlan
    /\ r.left = {}
    /\ advice' = [advice EXCEPT ![r.plan] = IF r.allowed THEN "allowed" ELSE "refused"]
    /\ advising' = [advising EXCEPT ![v] = NoAdvice]
    /\ UNCHANGED <<vars, trials, trying>>

-----------------------------------------------------------------------------
(* The test executor.                                                      *)

\* Mutant: neither the plan's status nor the status of its rows is looked at.
MutMayTry(p) == advice[p] = "allowed" /\ DOMAIN rows[p] # {}

\* evaluate_preview_refusal
MayTry(p) ==
    /\ status[p] = "approved"
    /\ advice[p] = "allowed"
    /\ DOMAIN rows[p] # {}
    /\ \A n \in DOMAIN rows[p] : rows[p][n].status = "approved"

Tried(p, k) == \E t \in Trials : trials[t].plan = p /\ trials[t].key = k

\* A test execution is sent or confirmed: one of the plan, under this key (a
\* replay, which only reads) or another (a refusal), ends the command.
Active(p) == \E t \in Trials : trials[t].plan = p

\* What execute-fake inserts, under a txid that it makes up.
Trial(p, k) == Check("sent", p, k, CheckRows(p))

BeginTry(t) ==
    /\ trials[t] = NoCheck
    /\ trying[t] = NoCheck
    /\ \E p \in Writers, k \in Keys :
        /\ MayTry(p)
        /\ ~ Active(p)
        /\ trying' = [trying EXCEPT ![t] = Trial(p, k)]
    /\ UNCHANGED <<vars, advice, advising, trials>>

\* Insert header and rows, or break the unique constraint on plan and key.
RecordTry(t) ==
    /\ trying[t] # NoCheck
    /\ trying' = [trying EXCEPT ![t] = NoCheck]
    /\ trials' = IF Tried(trying[t].plan, trying[t].key) THEN trials
                 ELSE [trials EXCEPT ![t] = trying[t]]
    /\ UNCHANGED <<vars, advice, advising>>

\* mark-confirmed
ConfirmTry(t) ==
    /\ trials[t].status = "sent"
    /\ trials' = [trials EXCEPT ![t].status = "confirmed"]
    /\ UNCHANGED <<vars, advice, advising, trying>>

-----------------------------------------------------------------------------
(* The preview of a production preflight.                                  *)

Preview(p, w, o) ==
    [mode   |-> ExecutionMode(CheckPasses(p, SpendLimit(w.trusted, o)),
                              PlanTotal(p), w.coins),
     size   |-> ChunkSize(w.coins),
     chunks |-> EstimatedChunks(CheckRows(p), ChunkSize(w.coins))]

-----------------------------------------------------------------------------

RehearsalInit ==
    /\ Init
    /\ advice = [p \in Writers |-> "none"]
    /\ advising = [v \in Advisors |-> NoAdvice]
    /\ trials = [t \in Trials |-> NoCheck]
    /\ trying = trials

Advise(v) ==
    \/ BeginAdvise(v) \/ RecordAdvice(v)
    \/ \E n \in Nodes : AdviseAddress(v, n)

Try(t) == BeginTry(t) \/ RecordTry(t) \/ ConfirmTry(t)

RehearsalNext ==
    \/ Next /\ UNCHANGED rehearsal
    \/ \E v \in Advisors : Advise(v)
    \/ \E t \in Trials : Try(t)

RehearsalSpec == RehearsalInit /\ [][RehearsalNext]_<<vars, rehearsal>>

-----------------------------------------------------------------------------
(* Properties.                                                             *)

IsTrial(r) ==
    /\ r.status \in {"none", "sent", "confirmed"}
    /\ r.plan \in Writers \cup {NoPlan}
    /\ r.key \in Keys \cup {NoKey}
    /\ IsRows(r.rows, [address : Addresses, amount : Nat])

RehearsalTypeOK ==
    /\ advice \in [Writers -> {"none", "allowed", "refused"}]
    /\ advising \in [Advisors -> [plan : Writers \cup {NoPlan}, allowed : BOOLEAN,
                                  left : SUBSET Nodes]]
    /\ DOMAIN trials = Trials /\ \A t \in Trials : IsTrial(trials[t])
    /\ DOMAIN trying = Trials /\ \A t \in Trials : IsTrial(trying[t])

\* A test execution tries what would be paid, although it reads other tables at
\* other times: an approved plan as a whole, with every credit of its run, and
\* the very rows of any preflight of the plan that passed, before it or later.
TrialsTrue ==
    \A t \in Trials : trials[t].status # "none" =>
        LET p == trials[t].plan
            R == trials[t].rows
        IN /\ status[p] \in {"approved", "cancelled"}
           /\ DOMAIN R = DOMAIN Credits[PlanRun(p)]
           /\ RowTotal(R) = PlanTotal(p)
           /\ \A f \in Checks :
                 checks[f].status = "passed" /\ checks[f].plan = p => checks[f].rows = R

\* One idempotency key records one test execution of a plan, however commands
\* race between the lookup and the insert (..._plan_idempotency_unique).
OneTrialPerKey ==
    \A t, u \in Trials :
        trials[t].status # "none" /\ trials[t].plan = trials[u].plan
            /\ trials[t].key = trials[u].key => t = u

\* Advice is of an approved plan, although it is written whatever has become of
\* the plan since it was worked out.
AdviceHolds ==
    \A p \in Writers : advice[p] = "allowed" => status[p] \in {"approved", "cancelled"}

\* A preview that recommends a way to pay a plan recommends one that works: all
\* rows together leave the reserve untouched (or are within the balance, when the
\* operator overrides it), one transaction is for what the largest coin pays
\* alone, and the chunks, none above the largest coin, are enough for every row.
PreviewsHold ==
    \A p \in Writers, w \in Wallets, o \in Options :
        LET v == Preview(p, w, o)
            total == RowTotal(CheckRows(p))
        IN v.mode # "halt" =>
            /\ total + (IF o.override THEN 0 ELSE Reserve(w.trusted, o)) <= w.trusted
            /\ v.mode = "single" => w.coins # <<>> /\ total <= w.coins[1]
            /\ w.coins # <<>> => v.size <= w.coins[1]
            /\ total <= v.chunks * v.size

\* Whatever an operator runs before a payout tells the truth about it, at any
\* moment and beside any other command: recorded preflights, advice, test
\* executions and previews.
RehearsalsSound ==
    /\ RehearsalTypeOK
    /\ ChecksSound
    /\ AdviceHolds
    /\ TrialsTrue
    /\ OneTrialPerKey
    /\ PreviewsHold
=============================================================================
