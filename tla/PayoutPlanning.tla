---------------------------- MODULE PayoutPlanning ----------------------------
(***************************************************************************)
(* From a credit run to a plan the executors accept: corrections, the      *)
(* planner's write-draft, plan review (approve and cancel) and the         *)
(* production preflight record.                                            *)
(*                                                                         *)
(* Every command is a process of its own that reads the tables, decides,   *)
(* and then writes in one database transaction at READ COMMITTED. A writer *)
(* (one write-draft invocation) inserts at most one plan, and the plan     *)
(* bears its name. Three statements of its transaction may wait for other  *)
(* transactions, and are actions of their own. What a transaction has not  *)
(* committed nobody else sees: status, rows and corrections hold committed *)
(* rows only.                                                              *)
(***************************************************************************)
EXTENDS Sums

CONSTANTS
    Writers,        \* write-draft invocations, and the plans they insert
    Checks,         \* production preflight record invocations
    Keys,           \* idempotency keys of preflight records
    CreditRuns,     \* credit runs, draft and mature
    Nodes,
    Addresses, NoAddress,
    Credits,        \* credit run -> its draft credits: node -> amount
    Corrections, NoCorrection, AnyRun,
    CorrectionOf,   \* correction -> its node, amount and related credit run
    Requests,       \* command lines of write-draft
    Limits          \* amounts a balance, after its reserve, may allow to spend

NoPlan == "no plan"
NoKey == "no key"
NoRows == [n \in {} |-> n]

Request ==
    [run : CreditRuns, correction : Corrections \cup {NoCorrection}, cap : Nat]

ASSUME CreditsAssumption ==
    /\ DOMAIN Credits = CreditRuns
    /\ \A c \in CreditRuns : /\ DOMAIN Credits[c] \subseteq Nodes
                             /\ IsFiniteSet(DOMAIN Credits[c])
                             /\ \A n \in DOMAIN Credits[c] : Credits[c][n] \in Nat

ASSUME CorrectionAssumption ==
    /\ NoCorrection \notin Corrections
    /\ CorrectionOf \in [Corrections -> [node : Nodes, amount : Nat \ {0},
                                         run : CreditRuns \cup {AnyRun}]]

ASSUME PlanningAssumption ==
    /\ Requests \subseteq Request
    /\ Limits \subseteq Nat
    /\ NoAddress \notin Addresses
    /\ NoPlan \notin Writers

VARIABLES
    registry,       \* node -> its active default address, or NoAddress
    corrections,    \* correction -> its status and the plan it was applied to
    status,         \* writer -> status of the plan it committed, or "none"
    rows,           \* writer -> the rows of that plan, by node
    checks,         \* check -> the production preflight it recorded
    pc,             \* where each writer is in _cmd_write_draft
    args,           \* command line of each writer
    preview,        \* correction and rows that each writer has computed
    review,         \* plan -> the approval in flight, its addresses to compare
    verdict         \* what a production preflight in flight has computed

planVars == <<status, rows>>
writerVars == <<pc, args, preview>>
commandVars == <<review, checks, verdict>>
vars == <<registry, corrections, planVars, writerVars, commandVars>>

\* Columns of the header a writer inserts: its preview does not change after.
PlanRun(p) == args[p].run
PlanCorrection(p) == preview[p].correction
RowTotal(R) == SumOver([n \in DOMAIN R |-> R[n].amount], DOMAIN R)
PlanTotal(p) == RowTotal(preview[p].rows)

-----------------------------------------------------------------------------
(* Corrections and the address registry.                                   *)

Correction(s, p) == [status |-> s, plan |-> p]

\* A writer that has updated its correction holds its row until it commits.
CorrectionLocked(x) == \E w \in Writers : pc[w] = "writing" /\ PlanCorrection(w) = x

CreateCorrection(x) ==
    /\ corrections[x].status = "none"
    /\ corrections' = [corrections EXCEPT ![x] = Correction("draft", NoPlan)]
    /\ UNCHANGED <<registry, planVars, writerVars, commandVars>>

\* Mutant: the update does not look at the status again.
MutCancelCorrection(x) ==
    /\ corrections[x].status # "none"
    /\ corrections' = [corrections EXCEPT ![x] = Correction("cancelled", NoPlan)]
    /\ UNCHANGED <<registry, planVars, writerVars, commandVars>>

\* UPDATE ... WHERE status = 'draft', once no transaction holds the row.
CancelCorrection(x) ==
    /\ corrections[x].status = "draft"
    /\ ~ CorrectionLocked(x)
    /\ corrections' = [corrections EXCEPT ![x] = Correction("cancelled", NoPlan)]
    /\ UNCHANGED <<registry, planVars, writerVars, commandVars>>

\* The register script makes a the active default address of node n. A row of
\* the registry is unique by address: another node that holds a loses it, and
\* the statement fails when n would then have two defaults.
RegisterAddress(n, a) ==
    /\ (\E m \in Nodes \ {n} : registry[m] = a) => registry[n] = NoAddress
    /\ registry' = [m \in Nodes |-> IF m = n THEN a
                                    ELSE IF registry[m] = a THEN NoAddress
                                    ELSE registry[m]]
    /\ UNCHANGED <<corrections, planVars, writerVars, commandVars>>

-----------------------------------------------------------------------------
(* The planner.                                                            *)

DraftExists(c) == \E p \in Writers : status[p] = "draft" /\ PlanRun(p) = c

\* The correction the planner sees: a number it does not find is no correction.
CorrectionFound(a) ==
    IF a.correction \in Corrections /\ corrections[a.correction].status # "none"
    THEN a.correction ELSE NoCorrection

\* evaluate_correction_for_plan_refusal and evaluate_correction_amount_refusal.
CorrectionRefused(x, c) ==
    /\ x # NoCorrection
    /\ \/ corrections[x].status # "draft"
       \/ CorrectionOf[x].node \notin DOMAIN Credits[c]
       \/ CorrectionOf[x].run \notin {AnyRun, c}
       \/ CorrectionOf[x].amount > Credits[c][CorrectionOf[x].node]

\* Read the credits, the draft plan and the correction of the command line.
LoadCredits(w) ==
    LET c == args[w].run
        x == CorrectionFound(args[w])
    IN
    /\ pc[w] = "idle"
    /\ IF DraftExists(c) \/ DOMAIN Credits[c] = {} \/ CorrectionRefused(x, c)
       THEN /\ pc' = [pc EXCEPT ![w] = "refused"]
            /\ UNCHANGED preview
       ELSE /\ pc' = [pc EXCEPT ![w] = "reading"]
            /\ preview' = [preview EXCEPT ![w] = [correction |-> x, rows |-> NoRows]]
    /\ UNCHANGED <<registry, corrections, planVars, args, commandVars>>

\* apply_correction_to_row_amounts: the correction x falls on its node only.
Deduction(x, n) ==
    IF x # NoCorrection /\ CorrectionOf[x].node = n THEN CorrectionOf[x].amount ELSE 0

PlanRow(c, x, n) ==
    [address    |-> registry[n],
     gross      |-> Credits[c][n],
     correction |-> Deduction(x, n),
     amount     |-> Credits[c][n] - Deduction(x, n),
     status     |-> "draft"]

WithRow(R, n, row) == [m \in DOMAIN R \cup {n} |-> IF m = n THEN row ELSE R[m]]

Unread(w) == DOMAIN Credits[args[w].run] \ DOMAIN preview[w].rows

\* Mutant: a credit without an address is left out of the plan.
MutReadAddress(w, n) ==
    /\ pc[w] = "reading"
    /\ n \in Unread(w)
    /\ IF registry[n] = NoAddress
       THEN /\ pc' = [pc EXCEPT ![w] = "inserting"]
            /\ UNCHANGED preview
       ELSE /\ preview' = [preview EXCEPT ![w] =
                  [correction |-> PlanCorrection(w),
                   rows |-> WithRow(preview[w].rows, n,
                                    PlanRow(args[w].run, PlanCorrection(w), n))]]
            /\ UNCHANGED pc
    /\ UNCHANGED <<registry, corrections, planVars, args, commandVars>>

\* One query per credit: its node's address, or the plan is refused.
ReadAddress(w, n) ==
    /\ pc[w] = "reading"
    /\ n \in Unread(w)
    /\ IF registry[n] = NoAddress
       THEN /\ pc' = [pc EXCEPT ![w] = "refused"]
            /\ UNCHANGED preview
       ELSE /\ preview' = [preview EXCEPT ![w] =
                  [correction |-> PlanCorrection(w),
                   rows |-> WithRow(preview[w].rows, n,
                                    PlanRow(args[w].run, PlanCorrection(w), n))]]
            /\ UNCHANGED pc
    /\ UNCHANGED <<registry, corrections, planVars, args, commandVars>>

\* All addresses are read: refuse above the spend cap, else go on to write.
DecidePreview(w) ==
    /\ pc[w] = "reading"
    /\ Unread(w) = {}
    /\ pc' = [pc EXCEPT ![w] = IF PlanTotal(w) > args[w].cap THEN "refused"
                               ELSE "inserting"]
    /\ UNCHANGED <<registry, corrections, planVars, args, preview, commandVars>>

\* A header inserted and not yet committed: the unique index makes others wait.
HeaderLocked(c) ==
    \E w \in Writers : pc[w] \in {"applying", "writing"} /\ PlanRun(w) = c

\* Mutant: no unique index on the drafts of a credit run.
MutInsertHeader(w) ==
    /\ pc[w] = "inserting"
    /\ pc' = [pc EXCEPT ![w] = IF PlanCorrection(w) = NoCorrection THEN "writing"
                               ELSE "applying"]
    /\ UNCHANGED <<registry, corrections, planVars, args, preview, commandVars>>

\* Insert the header, or break the unique index and roll back.
InsertHeader(w) ==
    /\ pc[w] = "inserting"
    /\ ~ HeaderLocked(PlanRun(w))
    /\ pc' = [pc EXCEPT ![w] = IF DraftExists(PlanRun(w)) THEN "failed"
                               ELSE IF PlanCorrection(w) = NoCorrection THEN "writing"
                               ELSE "applying"]
    /\ UNCHANGED <<registry, corrections, planVars, args, preview, commandVars>>

\* Mutant: the update of the correction does not look at its status.
MutApplyCorrection(w) ==
    /\ pc[w] = "applying"
    /\ ~ CorrectionLocked(PlanCorrection(w))
    /\ pc' = [pc EXCEPT ![w] = "writing"]
    /\ UNCHANGED <<registry, corrections, planVars, args, preview, commandVars>>

\* Mutant: the writer waits for a correction that is no longer a draft.
MutApplyWaits(w) ==
    /\ pc[w] = "applying"
    /\ ~ CorrectionLocked(PlanCorrection(w))
    /\ corrections[PlanCorrection(w)].status = "draft"
    /\ pc' = [pc EXCEPT ![w] = "writing"]
    /\ UNCHANGED <<registry, corrections, planVars, args, preview, commandVars>>

\* Update the correction if it is still a draft. Otherwise the command returns
\* from inside the connection's block, which commits the header alone.
ApplyCorrection(w) ==
    /\ pc[w] = "applying"
    /\ ~ CorrectionLocked(PlanCorrection(w))
    /\ IF corrections[PlanCorrection(w)].status = "draft"
       THEN /\ pc' = [pc EXCEPT ![w] = "writing"]
            /\ UNCHANGED status
       ELSE /\ pc' = [pc EXCEPT ![w] = "failed"]
            /\ status' = [status EXCEPT ![w] = "draft"]
    /\ UNCHANGED <<registry, corrections, rows, args, preview, commandVars>>

\* Insert the rows and commit header, correction and rows.
WriteRows(w) ==
    /\ pc[w] = "writing"
    /\ pc' = [pc EXCEPT ![w] = "written"]
    /\ status' = [status EXCEPT ![w] = "draft"]
    /\ rows' = [rows EXCEPT ![w] = preview[w].rows]
    /\ corrections' = IF PlanCorrection(w) = NoCorrection THEN corrections
                      ELSE [corrections EXCEPT ![PlanCorrection(w)] =
                                Correction("applied", w)]
    /\ UNCHANGED <<registry, args, preview, commandVars>>

\* The command dies before its commit: its transaction is rolled back.
CrashWriter(w) ==
    /\ pc[w] \in {"reading", "inserting", "applying", "writing"}
    /\ pc' = [pc EXCEPT ![w] = "failed"]
    /\ UNCHANGED <<registry, corrections, planVars, args, preview, commandVars>>

-----------------------------------------------------------------------------
(* Plan review.                                                            *)

MoveRows(R, from, to) ==
    [n \in DOMAIN R |-> [R[n] EXCEPT !.status = IF @ \in from THEN to ELSE @]]

NoReview == [active |-> FALSE, left |-> {}]

\* approve reads the plan and its rows (evaluate_approve_refusal, first part).
\* An approval of the same plan meanwhile would find it approved: one at a time.
BeginApprove(p) ==
    /\ ~ review[p].active
    /\ status[p] = "draft"
    /\ DOMAIN preview[p].rows # {}
    /\ PlanTotal(p) > 0
    /\ PlanTotal(p) <= args[p].cap
    /\ \A n \in DOMAIN rows[p] : rows[p][n].status = "draft"
    /\ review' = [review EXCEPT ![p] = [active |-> TRUE, left |-> DOMAIN rows[p]]]
    /\ UNCHANGED <<registry, corrections, planVars, writerVars, checks, verdict>>

\* One query per row: its node's address is still the plan's, or refuse.
CompareAddress(p, n) ==
    /\ review[p].active
    /\ n \in review[p].left
    /\ review' = [review EXCEPT ![p] =
          IF registry[n] = rows[p][n].address
          THEN [active |-> TRUE, left |-> review[p].left \ {n}]
          ELSE NoReview]
    /\ UNCHANGED <<registry, corrections, planVars, writerVars, checks, verdict>>

\* Mutant: the update approves whatever has become of the plan.
MutApprovePlan(p) ==
    /\ review[p].active
    /\ review[p].left = {}
    /\ review' = [review EXCEPT ![p] = NoReview]
    /\ status' = [status EXCEPT ![p] = "approved"]
    /\ rows' = [rows EXCEPT ![p] = MoveRows(rows[p], {"draft"}, "approved")]
    /\ UNCHANGED <<registry, corrections, writerVars, checks, verdict>>

\* UPDATE ... WHERE status = 'draft', and its draft rows.
ApprovePlan(p) ==
    /\ review[p].active
    /\ review[p].left = {}
    /\ review' = [review EXCEPT ![p] = NoReview]
    /\ IF status[p] = "draft"
       THEN /\ status' = [status EXCEPT ![p] = "approved"]
            /\ rows' = [rows EXCEPT ![p] = MoveRows(rows[p], {"draft"}, "approved")]
       ELSE UNCHANGED planVars
    /\ UNCHANGED <<registry, corrections, writerVars, checks, verdict>>

\* The correction the plan has applied stays applied.
CancelPlan(p) ==
    /\ status[p] \in {"draft", "approved"}
    /\ status' = [status EXCEPT ![p] = "cancelled"]
    /\ rows' = [rows EXCEPT ![p] = MoveRows(rows[p], {"draft", "approved"}, "cancelled")]
    /\ UNCHANGED <<registry, corrections, writerVars, commandVars>>

-----------------------------------------------------------------------------
(* The production preflight record.                                        *)

Check(s, p, k, R) == [status |-> s, plan |-> p, key |-> k, rows |-> R]
NoCheck == Check("none", NoPlan, NoKey, NoRows)

ApprovedRows(p) == {n \in DOMAIN rows[p] : rows[p][n].status = "approved"}

\* What the record copies of each approved row.
CheckRows(p) ==
    [n \in ApprovedRows(p) |-> [address |-> rows[p][n].address,
                                amount  |-> rows[p][n].amount]]

\* Mutant: the plan's addresses are not compared with the registry again.
MutCheckPasses(p, limit) ==
    /\ status[p] = "approved"
    /\ ApprovedRows(p) # {}
    /\ PlanTotal(p) > 0
    /\ PlanTotal(p) <= limit

\* evaluate_production_preflight_refusal against a balance that allows limit.
CheckPasses(p, limit) ==
    /\ status[p] = "approved"
    /\ ApprovedRows(p) # {}
    /\ PlanTotal(p) > 0
    /\ \A n \in ApprovedRows(p) : registry[n] = rows[p][n].address
    /\ PlanTotal(p) <= limit

Recorded(p, k) == \E f \in Checks : /\ checks[f].status # "none"
                                    /\ checks[f].plan = p
                                    /\ checks[f].key = k

\* A new key: read plan, rows and all addresses (one query), and decide. A key
\* already recorded is a replay, which only reads.
BeginCheck(f) ==
    /\ checks[f].status = "none"
    /\ verdict[f].status = "none"
    /\ \E p \in Writers, k \in Keys, limit \in Limits :
        /\ status[p] # "none"
        /\ ~ Recorded(p, k)
        /\ verdict' = [verdict EXCEPT ![f] =
              Check(IF CheckPasses(p, limit) THEN "passed" ELSE "refused",
                    p, k, CheckRows(p))]
    /\ UNCHANGED <<registry, corrections, planVars, writerVars, review, checks>>

\* Insert header and rows, or break the unique index on plan and key.
RecordCheck(f) ==
    /\ verdict[f].status # "none"
    /\ verdict' = [verdict EXCEPT ![f] = NoCheck]
    /\ checks' = IF Recorded(verdict[f].plan, verdict[f].key) THEN checks
                 ELSE [checks EXCEPT ![f] = verdict[f]]
    /\ UNCHANGED <<registry, corrections, planVars, writerVars, review>>

-----------------------------------------------------------------------------
Init ==
    /\ registry = [n \in Nodes |-> NoAddress]
    /\ corrections = [x \in Corrections |-> Correction("none", NoPlan)]
    /\ status = [p \in Writers |-> "none"]
    /\ rows = [p \in Writers |-> NoRows]
    /\ checks = [f \in Checks |-> NoCheck]
    /\ pc = [w \in Writers |-> "idle"]
    /\ args \in [Writers -> Requests]
    /\ preview = [w \in Writers |-> [correction |-> NoCorrection, rows |-> NoRows]]
    /\ review = [p \in Writers |-> NoReview]
    /\ verdict = checks

Write(w) ==
    \/ LoadCredits(w) \/ DecidePreview(w)
    \/ InsertHeader(w) \/ ApplyCorrection(w) \/ WriteRows(w)
    \/ \E n \in Nodes : ReadAddress(w, n)

Review(p) ==
    \/ BeginApprove(p) \/ ApprovePlan(p) \/ CancelPlan(p)
    \/ \E n \in Nodes : CompareAddress(p, n)

Next ==
    \/ \E x \in Corrections : CreateCorrection(x) \/ CancelCorrection(x)
    \/ \E n \in Nodes, a \in Addresses : RegisterAddress(n, a)
    \/ \E w \in Writers : Write(w) \/ CrashWriter(w) \/ Review(w)
    \/ \E f \in Checks : BeginCheck(f) \/ RecordCheck(f)

Spec == Init /\ [][Next]_vars

\* A write-draft command keeps running unless it crashes; nothing else must happen.
FairSpec == Spec /\ \A w \in Writers : WF_vars(Write(w))

-----------------------------------------------------------------------------
(* Properties.                                                             *)

IsRows(R, Row) == DOMAIN R \subseteq Nodes /\ R \in [DOMAIN R -> Row]

IsPlanRows(R) ==
    IsRows(R, [address : Addresses, gross : Nat, correction : Nat, amount : Nat,
               status : {"draft", "approved", "cancelled"}])

IsCheck(r) ==
    /\ r.status \in {"none", "passed", "refused"}
    /\ r.plan \in Writers \cup {NoPlan}
    /\ r.key \in Keys \cup {NoKey}
    /\ IsRows(r.rows, [address : Addresses, amount : Nat])

\* The tables, and the local state of the commands, have their columns' types.
TypeOK ==
    /\ registry \in [Nodes -> Addresses \cup {NoAddress}]
    /\ corrections \in [Corrections -> [status : {"none", "draft", "applied", "cancelled"},
                                        plan : Writers \cup {NoPlan}]]
    /\ status \in [Writers -> {"none", "draft", "approved", "cancelled"}]
    /\ DOMAIN rows = Writers /\ \A p \in Writers : IsPlanRows(rows[p])
    /\ DOMAIN checks = Checks /\ \A f \in Checks : IsCheck(checks[f])
    /\ pc \in [Writers -> {"idle", "reading", "inserting", "applying", "writing",
                           "written", "refused", "failed"}]
    /\ args \in [Writers -> Requests]
    /\ DOMAIN preview = Writers
    /\ \A w \in Writers : /\ PlanCorrection(w) \in Corrections \cup {NoCorrection}
                          /\ IsPlanRows(preview[w].rows)
    /\ review \in [Writers -> [active : BOOLEAN, left : SUBSET Nodes]]
    /\ DOMAIN verdict = Checks /\ \A f \in Checks : IsCheck(verdict[f])

\* A credit run never has two draft plans, whatever write-draft commands race
\* past the planner's own check (idx_..._one_draft_per_credit_run).
OneDraftPerRun ==
    \A p, q \in Writers :
        status[p] = "draft" /\ status[q] = "draft" /\ PlanRun(p) = PlanRun(q) => p = q

\* A correction is deducted from the rows of one plan at most, the one it says
\* it was applied to, and once applied it is deducted there in full: also when
\* two writers use it, when it is cancelled meanwhile and when its plan is
\* cancelled later.
CorrectionDeductedOnce ==
    /\ \A p \in Writers : \A n \in DOMAIN rows[p] :
          rows[p][n].correction > 0 =>
              /\ PlanCorrection(p) # NoCorrection
              /\ corrections[PlanCorrection(p)] = Correction("applied", p)
    /\ \A x \in Corrections : \A p \in Writers :
          corrections[x] = Correction("applied", p) =>
              /\ CorrectionOf[x].node \in DOMAIN rows[p]
              /\ rows[p][CorrectionOf[x].node].correction = CorrectionOf[x].amount

\* A plan with rows pays every credit of its run, net of its correction, in
\* rows that sum to a total within its spend cap.
PlanIsWhole ==
    \A p \in Writers : rows[p] # NoRows =>
        /\ DOMAIN rows[p] = DOMAIN Credits[PlanRun(p)]
        /\ \A n \in DOMAIN rows[p] :
              rows[p][n].amount + rows[p][n].correction = Credits[PlanRun(p)][n]
        /\ RowTotal(rows[p]) = PlanTotal(p)
        /\ PlanTotal(p) <= args[p].cap

\* The rows of a plan have its status: what the preflight and the executors
\* select by row status is what they select by plan status.
RowsFollowPlan ==
    \A p \in Writers : \A n \in DOMAIN rows[p] : rows[p][n].status = status[p]

\* The plan tables are well-formed, with one draft per run and rows that follow
\* their plans, whatever commands run beside each other.
PlanTablesSound == TypeOK /\ OneDraftPerRun /\ RowsFollowPlan

\* A passed preflight is one that the executors can pay from, even after its
\* plan is cancelled: it names every credit of the run, with the address and
\* amount of the plan, and no address twice although a plan reads its addresses
\* one by one while they may move between nodes.
PassedCheckPayable ==
    \A f \in Checks : checks[f].status = "passed" =>
        LET p == checks[f].plan
            R == checks[f].rows
        IN /\ status[p] \in {"approved", "cancelled"}
           /\ DOMAIN R = DOMAIN Credits[PlanRun(p)]
           /\ \A n \in DOMAIN R : /\ R[n].address = rows[p][n].address
                                  /\ R[n].amount = rows[p][n].amount
           /\ \A m, n \in DOMAIN R : R[m].address = R[n].address => m = n

\* One idempotency key records one preflight of a plan, however commands race
\* between the lookup of the key and the insert (scn_pppf_plan_idempotency_unique).
OneCheckPerKey ==
    \A f, g \in Checks :
        checks[f].status # "none" /\ checks[f].plan = checks[g].plan
            /\ checks[f].key = checks[g].key => f = g

\* The preflight records are payable when they say so, and one for each key.
ChecksSound == PassedCheckPayable /\ OneCheckPerKey

LaterStatus(s) ==
    CASE s = "none" -> {"none", "draft"}
      [] s = "draft" -> {"draft", "approved", "cancelled"}
      [] s = "approved" -> {"approved", "cancelled"}
      [] s = "cancelled" -> {"cancelled"}

\* A plan only moves on, draft to approved to cancelled, its rows never change
\* what they pay or where to, and an applied correction stays with its plan.
PlansMoveOn ==
    [][/\ \A p \in Writers :
            /\ status'[p] \in LaterStatus(status[p])
            /\ status[p] # "none" =>
                  /\ DOMAIN rows'[p] = DOMAIN rows[p]
                  /\ \A n \in DOMAIN rows[p] :
                        rows'[p][n] = [rows[p][n] EXCEPT !.status = rows'[p][n].status]
       /\ \A x \in Corrections :
            corrections[x].status \in {"applied", "cancelled"} =>
                corrections'[x] = corrections[x]]_vars

\* A write-draft command that runs on comes to an end: the waits for a header
\* and for a correction never close a circle.
WritersEnd ==
    \A w \in Writers : <>(pc[w] \in {"written", "refused", "failed"})
=============================================================================
