------------------------ MODULE PayoutPlanning_proofs ------------------------
(***************************************************************************)
(* Theorems of PayoutPlanning for all writers, credit runs, corrections,   *)
(* nodes, addresses and preflights. PlanningInv is the inductive one:      *)
(* types, what the planner and the review keep, what preflights keep. What *)
(* the rows of a plan add up to is kept beside it. Then the theorems of    *)
(* PreflightPolicy and of PayoutRehearsal, whose steps keep what the       *)
(* commands of PayoutPlanning keep and RehearsalInv.                       *)
(***************************************************************************)
EXTENDS PayoutRehearsal, Sums_proofs, TLAPS

\* No two nodes have the same active default address.
RegistryDistinct ==
    \A m, n \in Nodes : registry[m] = registry[n] /\ registry[n] # NoAddress => m = n

\* What a writer has committed by where it is: only a written plan has rows,
\* and a writer on its way has committed nothing.
Stages ==
    \A p \in Writers :
        /\ pc[p] # "written" => rows[p] = NoRows
        /\ pc[p] \notin {"written", "failed"} => status[p] = "none"
        /\ pc[p] = "written" => status[p] # "none"
        /\ pc[p] = "applying" => PlanCorrection(p) # NoCorrection

Written == {"inserting", "applying", "writing", "written"}

\* A preview has the credits read so far, all of them when it is written, and
\* a correction that its node's credit can bear.
PreviewRight(p) ==
    /\ DOMAIN preview[p].rows \subseteq DOMAIN Credits[PlanRun(p)]
    /\ pc[p] \in Written => DOMAIN preview[p].rows = DOMAIN Credits[PlanRun(p)]
    /\ PlanCorrection(p) # NoCorrection =>
          LET x == CorrectionOf[PlanCorrection(p)]
          IN x.node \in DOMAIN Credits[PlanRun(p)] /\ x.amount <= Credits[PlanRun(p)][x.node]
    /\ \A n \in DOMAIN preview[p].rows :
          /\ preview[p].rows[n].status = "draft"
          /\ preview[p].rows[n].correction = Deduction(PlanCorrection(p), n)

PreviewsRight == \A p \in Writers : PreviewRight(p)

\* The rows of a written plan are those of its preview.
RowsArePreview ==
    \A p \in Writers : pc[p] = "written" =>
        /\ DOMAIN rows[p] = DOMAIN preview[p].rows
        /\ \A n \in DOMAIN rows[p] : rows[p][n].correction = preview[p].rows[n].correction

\* Whoever holds the uncommitted header of a credit run is alone with it.
HeaderHeld ==
    \A w \in Writers : pc[w] \in {"applying", "writing"} =>
        /\ ~ DraftExists(PlanRun(w))
        /\ \A u \in Writers : pc[u] \in {"applying", "writing"}
                                /\ PlanRun(u) = PlanRun(w) => u = w

\* Whoever has updated a correction is alone with it, and it was a draft.
CorrectionHeld ==
    \A w \in Writers : pc[w] = "writing" /\ PlanCorrection(w) # NoCorrection =>
        /\ corrections[PlanCorrection(w)].status = "draft"
        /\ \A u \in Writers : pc[u] = "writing"
                                /\ PlanCorrection(u) = PlanCorrection(w) => u = w

\* A correction is applied to the plan written with it, and to no other.
AppliedToWritten ==
    /\ \A p \in Writers : pc[p] = "written" /\ PlanCorrection(p) # NoCorrection =>
          corrections[PlanCorrection(p)] = Correction("applied", p)
    /\ \A x \in Corrections : \A p \in Writers :
          corrections[x] = Correction("applied", p) =>
              pc[p] = "written" /\ PlanCorrection(p) = x

\* The record r has copied all rows of a plan that was approved.
Copies(r) ==
    LET p == r.plan
        R == r.rows
    IN /\ p \in Writers
       /\ status[p] \in {"approved", "cancelled"}
       /\ DOMAIN R = DOMAIN Credits[PlanRun(p)]
       /\ DOMAIN R = DOMAIN rows[p] /\ DOMAIN R # {}
       /\ \A n \in DOMAIN R : /\ R[n].address = rows[p][n].address
                              /\ R[n].amount = rows[p][n].amount

\* A passed preflight r can be paid from.
Payable(r) ==
    /\ Copies(r)
    /\ \A m, n \in DOMAIN r.rows : r.rows[m].address = r.rows[n].address => m = n

\* Passed preflights, recorded or on their way, can be paid from.
ChecksPayable ==
    \A f \in Checks : /\ checks[f].status = "passed" => Payable(checks[f])
                      /\ verdict[f].status = "passed" => Payable(verdict[f])

\* What has not been recorded names no plan, and what is on its way does.
ChecksNamed ==
    \A f \in Checks : /\ checks[f].status = "none" => checks[f].plan = NoPlan
                      /\ checks[f].status # "none" => checks[f].plan \in Writers
                      /\ verdict[f].status # "none" => verdict[f].plan \in Writers

PlannerInv ==
    /\ Stages
    /\ PreviewsRight
    /\ RowsArePreview
    /\ RowsFollowPlan
    /\ HeaderHeld
    /\ OneDraftPerRun
    /\ CorrectionHeld
    /\ AppliedToWritten

\* What the rows of a plan add up to: each row pays its credit net of the
\* correction, a plan that is written is within its cap, and the rows in the table
\* pay what the preview decided.
PlanAdds(p) ==
    /\ \A n \in DOMAIN preview[p].rows :
          preview[p].rows[n].amount = Credits[PlanRun(p)][n] - Deduction(PlanCorrection(p), n)
    /\ pc[p] \in Written => PlanTotal(p) <= args[p].cap
    /\ pc[p] = "written" => \A n \in DOMAIN rows[p] :
                               rows[p][n].amount = preview[p].rows[n].amount

PlansAddUp == \A p \in Writers : PlanAdds(p)

ChecksInv == RegistryDistinct /\ ChecksNamed /\ ChecksPayable /\ OneCheckPerKey

PlanningInv == TypeOK /\ PlannerInv /\ ChecksInv

-----------------------------------------------------------------------------
(* The helpers on rows.                                                    *)

\* A plan without rows has the type of a plan's rows, whatever its columns.
LEMMA NoRowsTyped ==
    ASSUME NEW Row
    PROVE  DOMAIN NoRows = {} /\ IsRows(NoRows, Row)
BY DEF NoRows, IsRows

\* Adding the row of a node keeps the other rows.
LEMMA WithRowFacts ==
    ASSUME NEW R, NEW n, NEW row
    PROVE  /\ DOMAIN WithRow(R, n, row) = DOMAIN R \cup {n}
           /\ WithRow(R, n, row)[n] = row
           /\ \A m \in DOMAIN R \ {n} : WithRow(R, n, row)[m] = R[m]
BY DEF WithRow

\* Adding a row of the right type to rows of the right type.
LEMMA WithRowTyped ==
    ASSUME NEW R, NEW n \in Nodes, NEW row, NEW Row, IsRows(R, Row), row \in Row
    PROVE  IsRows(WithRow(R, n, row), Row)
BY DEF WithRow, IsRows

\* Moving rows to another status changes nothing else of them.
LEMMA MoveRowsFacts ==
    ASSUME NEW R, NEW from, NEW to \in {"draft", "approved", "cancelled"}, IsPlanRows(R)
    PROVE  /\ IsPlanRows(MoveRows(R, from, to))
           /\ DOMAIN MoveRows(R, from, to) = DOMAIN R
           /\ \A n \in DOMAIN R :
                 /\ MoveRows(R, from, to)[n].address = R[n].address
                 /\ MoveRows(R, from, to)[n].gross = R[n].gross
                 /\ MoveRows(R, from, to)[n].correction = R[n].correction
                 /\ MoveRows(R, from, to)[n].amount = R[n].amount
                 /\ MoveRows(R, from, to)[n].status =
                       IF R[n].status \in from THEN to ELSE R[n].status
<1> DEFINE Row == [address : Addresses, gross : Nat, correction : Nat, amount : Nat,
                   status : {"draft", "approved", "cancelled"}]
           M(n) == [R[n] EXCEPT !.status = IF R[n].status \in from THEN to ELSE R[n].status]
<1>1. R \in [DOMAIN R -> Row] /\ DOMAIN R \subseteq Nodes
  BY DEF IsPlanRows, IsRows
<1>2. MoveRows(R, from, to) = [n \in DOMAIN R |-> M(n)]
  BY DEF MoveRows
<1>3. ASSUME NEW n \in DOMAIN R
      PROVE  /\ M(n) \in Row
             /\ M(n).address = R[n].address /\ M(n).gross = R[n].gross
             /\ M(n).correction = R[n].correction /\ M(n).amount = R[n].amount
             /\ M(n).status = IF R[n].status \in from THEN to ELSE R[n].status
  <2>1. R[n] \in Row
    BY <1>1
  <2> QED
    BY <2>1
<1> HIDE DEF M
<1>4. MoveRows(R, from, to) \in [DOMAIN R -> Row]
  BY <1>2, <1>3
<1>5. IsPlanRows(MoveRows(R, from, to))
  BY <1>1, <1>2, <1>4 DEF IsPlanRows, IsRows
<1> QED
  BY <1>2, <1>3, <1>5

\* A command line names a credit run, whose credits are amounts of nodes.
LEMMA ArgsFacts ==
    ASSUME TypeOK, NEW w \in Writers
    PROVE  /\ args[w].run \in CreditRuns
           /\ args[w].correction \in Corrections \cup {NoCorrection}
           /\ DOMAIN Credits[args[w].run] \subseteq Nodes
           /\ \A n \in DOMAIN Credits[args[w].run] : Credits[args[w].run][n] \in Nat
<1>1. args[w] \in Request
  BY PlanningAssumption DEF TypeOK
<1>2. args[w].run \in CreditRuns /\ args[w].correction \in Corrections \cup {NoCorrection}
  BY <1>1 DEF Request
<1> QED
  BY <1>2, CreditsAssumption

\* What is deducted from a row of a right preview is an amount its credit bears.
LEMMA DeductionFacts ==
    ASSUME TypeOK, NEW w \in Writers, PreviewRight(w),
           NEW n \in DOMAIN Credits[args[w].run]
    PROVE  /\ Deduction(PlanCorrection(w), n) \in Nat
           /\ Credits[args[w].run][n] - Deduction(PlanCorrection(w), n) \in Nat
<1> DEFINE x == PlanCorrection(w)
<1>1. Credits[args[w].run][n] \in Nat
  BY ArgsFacts
<1>2. x \in Corrections \cup {NoCorrection}
  BY DEF TypeOK
<1>3. CASE x # NoCorrection /\ CorrectionOf[x].node = n
  <2>1. CorrectionOf[x].amount \in Nat
    BY <1>2, <1>3, CorrectionAssumption
  <2>2. CorrectionOf[x].amount <= Credits[args[w].run][n]
    BY <1>3 DEF PreviewRight, PlanRun
  <2> QED
    BY <1>1, <1>3, <2>1, <2>2 DEF Deduction
<1>4. CASE ~ (x # NoCorrection /\ CorrectionOf[x].node = n)
  BY <1>1, <1>4 DEF Deduction
<1> QED
  BY <1>3, <1>4

-----------------------------------------------------------------------------
(* Type correctness.                                                       *)

LEMMA InitTypeOK == Init => TypeOK
<1> SUFFICES ASSUME Init PROVE TypeOK
  OBVIOUS
<1> USE DEF Init
<1>1. IsCheck(NoCheck)
  BY NoRowsTyped DEF IsCheck, NoCheck, Check
<1>2. IsPlanRows(NoRows)
  BY NoRowsTyped DEF IsPlanRows
<1>3. DOMAIN checks = Checks /\ \A f \in Checks : IsCheck(checks[f])
  BY <1>1
<1>4. DOMAIN verdict = Checks /\ \A f \in Checks : IsCheck(verdict[f])
  BY <1>3
<1>5. DOMAIN rows = Writers /\ \A p \in Writers : IsPlanRows(rows[p])
  BY <1>2
<1>6. /\ DOMAIN preview = Writers
      /\ \A w \in Writers : /\ PlanCorrection(w) \in Corrections \cup {NoCorrection}
                            /\ IsPlanRows(preview[w].rows)
  BY <1>2 DEF PlanCorrection
<1>7. review \in [Writers -> [active : BOOLEAN, left : SUBSET Nodes]]
  BY DEF NoReview
<1>8. corrections \in [Corrections -> [status : {"none", "draft", "applied", "cancelled"},
                                       plan : Writers \cup {NoPlan}]]
  BY DEF Correction
<1> QED
  BY <1>3, <1>4, <1>5, <1>6, <1>7, <1>8 DEF TypeOK

\* The row the planner builds for a credit has the columns' types.
LEMMA PlanRowTyped ==
    ASSUME TypeOK, NEW w \in Writers, PreviewRight(w),
           NEW n \in DOMAIN Credits[args[w].run], registry[n] # NoAddress
    PROVE  PlanRow(args[w].run, PlanCorrection(w), n) \in
               [address : Addresses, gross : Nat, correction : Nat, amount : Nat,
                status : {"draft", "approved", "cancelled"}]
<1>1. n \in Nodes /\ Credits[args[w].run][n] \in Nat
  BY ArgsFacts
<1>2. registry[n] \in Addresses
  BY <1>1 DEF TypeOK
<1> QED
  BY <1>1, <1>2, DeductionFacts DEF PlanRow

\* Every step keeps the types.
LEMMA NextTypeOK ==
    ASSUME TypeOK, PreviewsRight, [Next]_vars
    PROVE  TypeOK'
<1> USE DEF TypeOK, PlanCorrection, planVars, writerVars, commandVars
<1>1. ASSUME NEW x \in Corrections, CreateCorrection(x) \/ CancelCorrection(x)
      PROVE  TypeOK'
  BY <1>1 DEF CreateCorrection, CancelCorrection, Correction
<1>2. ASSUME NEW n \in Nodes, NEW a \in Addresses, RegisterAddress(n, a)
      PROVE  TypeOK'
  BY <1>2 DEF RegisterAddress
<1>3. ASSUME NEW w \in Writers, LoadCredits(w)
      PROVE  TypeOK'
  <2>1. CorrectionFound(args[w]) \in Corrections \cup {NoCorrection}
    BY DEF CorrectionFound
  <2>2. IsPlanRows(NoRows)
    BY NoRowsTyped DEF IsPlanRows
  <2>3. CASE UNCHANGED preview
    BY <1>3, <2>3 DEF LoadCredits
  <2>4. CASE preview' = [preview EXCEPT ![w] =
                           [correction |-> CorrectionFound(args[w]), rows |-> NoRows]]
    BY <1>3, <2>1, <2>2, <2>4 DEF LoadCredits
  <2> QED
    BY <1>3, <2>3, <2>4 DEF LoadCredits
<1>4. ASSUME NEW w \in Writers, NEW n \in Nodes, ReadAddress(w, n)
      PROVE  TypeOK'
  <2> DEFINE row == PlanRow(args[w].run, PlanCorrection(w), n)
             R == WithRow(preview[w].rows, n, row)
             Row == [address : Addresses, gross : Nat, correction : Nat, amount : Nat,
                     status : {"draft", "approved", "cancelled"}]
  <2>1. CASE registry[n] = NoAddress
    BY <1>4, <2>1 DEF ReadAddress
  <2>2. CASE registry[n] # NoAddress
    <3>1. PreviewRight(w) /\ n \in DOMAIN Credits[args[w].run]
      BY <1>4 DEF ReadAddress, Unread, PreviewsRight
    <3>2. IsPlanRows(R)
      <4>1. row \in Row
        BY <2>2, <3>1, PlanRowTyped
      <4>2. IsRows(preview[w].rows, Row)
        BY DEF IsPlanRows
      <4> HIDE DEF row, Row
      <4>3. IsRows(R, Row)
        BY <4>1, <4>2, WithRowTyped
      <4> QED
        BY <4>3 DEF IsPlanRows, Row
    <3>3. preview' = [preview EXCEPT ![w] = [correction |-> PlanCorrection(w), rows |-> R]]
      BY <1>4, <2>2 DEF ReadAddress
    <3> HIDE DEF R
    <3>4. UNCHANGED <<registry, corrections, status, rows, pc, args, review, checks, verdict>>
      BY <1>4, <2>2 DEF ReadAddress
    <3>5. /\ DOMAIN preview' = Writers
          /\ \A u \in Writers : /\ preview'[u].correction \in Corrections \cup {NoCorrection}
                                /\ IsPlanRows(preview'[u].rows)
      BY <3>2, <3>3
    <3> QED
      BY <3>4, <3>5 DEF IsPlanRows, IsRows, IsCheck
  <2> QED
    BY <2>1, <2>2
<1>5. ASSUME NEW w \in Writers,
             DecidePreview(w) \/ InsertHeader(w) \/ ApplyCorrection(w) \/ CrashWriter(w)
      PROVE  TypeOK'
  BY <1>5 DEF DecidePreview, InsertHeader, ApplyCorrection, CrashWriter
<1>6. ASSUME NEW w \in Writers, WriteRows(w)
      PROVE  TypeOK'
  BY <1>6 DEF WriteRows, Correction
<1>7. ASSUME NEW p \in Writers, NEW n \in Nodes, CompareAddress(p, n)
      PROVE  TypeOK'
  BY <1>7 DEF CompareAddress, NoReview
<1>8. ASSUME NEW p \in Writers, BeginApprove(p)
      PROVE  TypeOK'
  BY <1>8 DEF BeginApprove, IsPlanRows, IsRows
<1>9. ASSUME NEW p \in Writers, ApprovePlan(p)
      PROVE  TypeOK'
  <2> DEFINE R == MoveRows(rows[p], {"draft"}, "approved")
  <2>1. IsPlanRows(R)
    BY MoveRowsFacts
  <2>2. review' \in [Writers -> [active : BOOLEAN, left : SUBSET Nodes]]
    BY <1>9 DEF ApprovePlan, NoReview
  <2>3. /\ UNCHANGED <<registry, corrections, pc, args, preview, checks, verdict>>
        /\ \/ /\ status' = [status EXCEPT ![p] = "approved"]
              /\ rows' = [rows EXCEPT ![p] = R]
           \/ UNCHANGED <<status, rows>>
    BY <1>9 DEF ApprovePlan
  <2> HIDE DEF R
  <2> QED
    BY <2>1, <2>2, <2>3
<1>10. ASSUME NEW p \in Writers, CancelPlan(p)
       PROVE  TypeOK'
  BY <1>10, MoveRowsFacts DEF CancelPlan
<1>11. ASSUME NEW f \in Checks, BeginCheck(f)
       PROVE  TypeOK'
  <2>1. PICK p \in Writers, k \in Keys, limit \in Limits :
           verdict' = [verdict EXCEPT ![f] =
              Check(IF CheckPasses(p, limit) THEN "passed" ELSE "refused",
                    p, k, CheckRows(p))]
    BY <1>11 DEF BeginCheck
  <2>2. IsRows(CheckRows(p), [address : Addresses, amount : Nat])
    BY DEF CheckRows, ApprovedRows, IsPlanRows, IsRows
  <2>3. IsCheck(Check(IF CheckPasses(p, limit) THEN "passed" ELSE "refused",
                      p, k, CheckRows(p)))
    BY <2>2 DEF IsCheck, Check
  <2> QED
    BY <1>11, <2>1, <2>3 DEF BeginCheck
<1>12. ASSUME NEW f \in Checks, RecordCheck(f)
       PROVE  TypeOK'
  <2>1. IsCheck(NoCheck)
    BY NoRowsTyped DEF IsCheck, NoCheck, Check
  <2> QED
    BY <1>12, <2>1 DEF RecordCheck
<1>13. ASSUME UNCHANGED vars
       PROVE  TypeOK'
  BY <1>13 DEF vars, IsPlanRows, IsRows, IsCheck
<1> QED
  BY <1>1, <1>2, <1>3, <1>4, <1>5, <1>6, <1>7, <1>8, <1>9, <1>10, <1>11, <1>12, <1>13
     DEF Next, Write, Review

-----------------------------------------------------------------------------
(* What the planner, the corrections and the review keep.                  *)

LEMMA InitPlannerInv == Init => PlannerInv
<1> SUFFICES ASSUME Init PROVE PlannerInv
  OBVIOUS
<1> USE NoRowsTyped DEF Init, PlanRun, PlanCorrection
<1>1. Stages /\ RowsArePreview /\ RowsFollowPlan
  BY DEF Stages, RowsArePreview, RowsFollowPlan
<1>2. PreviewsRight
  BY DEF PreviewsRight, PreviewRight, Written
<1>3. HeaderHeld /\ OneDraftPerRun /\ CorrectionHeld
  BY DEF HeaderHeld, OneDraftPerRun, CorrectionHeld
<1>4. AppliedToWritten
  BY DEF AppliedToWritten, Correction
<1> QED
  BY <1>1, <1>2, <1>3, <1>4 DEF PlannerInv

\* A step that leaves plans, writers and corrections alone keeps all of it.
LEMMA PlannerUnchanged ==
    ASSUME PlannerInv, UNCHANGED <<planVars, writerVars, corrections>>
    PROVE  PlannerInv'
<1> USE DEF planVars, writerVars, PlanRun, PlanCorrection, PlannerInv
<1>1. (Stages /\ RowsArePreview /\ RowsFollowPlan)'
  BY DEF Stages, RowsArePreview, RowsFollowPlan
<1>2. PreviewsRight'
  BY DEF PreviewsRight, PreviewRight, Written
<1>3. (HeaderHeld /\ OneDraftPerRun /\ CorrectionHeld)'
  BY DEF HeaderHeld, OneDraftPerRun, CorrectionHeld, DraftExists
<1>4. AppliedToWritten'
  BY DEF AppliedToWritten
<1> QED
  BY <1>1, <1>2, <1>3, <1>4

\* A correction that is created or cancelled was not applied, and no writer
\* that has updated it is on its way.
LEMMA PlannerCorrections ==
    ASSUME TypeOK, PlannerInv, NEW x \in Corrections,
           CreateCorrection(x) \/ CancelCorrection(x)
    PROVE  PlannerInv'
<1> USE DEF planVars, writerVars, PlanRun, PlanCorrection, PlannerInv
<1>1. UNCHANGED <<status, rows, pc, args, preview>>
  BY DEF CreateCorrection, CancelCorrection
<1>2. (Stages /\ RowsArePreview /\ RowsFollowPlan /\ PreviewsRight /\ HeaderHeld
         /\ OneDraftPerRun)'
  BY <1>1 DEF Stages, RowsArePreview, RowsFollowPlan, PreviewsRight, PreviewRight, Written,
              HeaderHeld, OneDraftPerRun, DraftExists
<1>3. /\ corrections[x].status \in {"none", "draft"}
      /\ corrections'[x].status \in {"draft", "cancelled"}
      /\ corrections[x].status = "draft" => ~ CorrectionLocked(x)
      /\ \A y \in Corrections \ {x} : corrections'[y] = corrections[y]
  BY DEF CreateCorrection, CancelCorrection, Correction, TypeOK
<1>4. CorrectionHeld'
  BY <1>1, <1>3 DEF CorrectionHeld, CorrectionLocked, TypeOK
<1>5. AppliedToWritten'
  BY <1>1, <1>3 DEF AppliedToWritten, Correction, TypeOK
<1> QED
  BY <1>2, <1>4, <1>5

\* The steps of a writer before it inserts: nothing is committed.
LEMMA PlannerReads ==
    ASSUME TypeOK, PlannerInv, NEW w \in Writers,
           \/ LoadCredits(w)
           \/ DecidePreview(w)
           \/ \E n \in Nodes : ReadAddress(w, n)
    PROVE  PlannerInv'
<1> USE DEF planVars, writerVars, PlanRun, PlanCorrection
<1>1. /\ UNCHANGED <<status, rows, args, corrections>>
      /\ \A p \in Writers \ {w} : pc'[p] = pc[p] /\ preview'[p] = preview[p]
      /\ pc[w] \in {"idle", "reading"}
      /\ pc'[w] \in {"refused", "reading", "inserting"}
  BY DEF TypeOK, LoadCredits, DecidePreview, ReadAddress
<1>2. (Stages /\ RowsArePreview /\ RowsFollowPlan /\ HeaderHeld /\ OneDraftPerRun
         /\ CorrectionHeld /\ AppliedToWritten)'
  BY <1>1 DEF PlannerInv, Stages, RowsArePreview, RowsFollowPlan, HeaderHeld,
              OneDraftPerRun, DraftExists, CorrectionHeld, AppliedToWritten, Correction
<1>3. PreviewRight(w)'
  <2> USE DEF PlannerInv, PreviewsRight
  <2>1. CASE LoadCredits(w)
    <3> DEFINE x == CorrectionFound(args[w])
    <3>1. CASE preview' = preview
      BY <1>1, <2>1, <3>1 DEF PreviewRight, LoadCredits, Written, TypeOK
    <3>2. CASE /\ ~ CorrectionRefused(x, args[w].run)
               /\ preview' = [preview EXCEPT ![w] = [correction |-> x, rows |-> NoRows]]
               /\ pc'[w] = "reading"
      <4>1. preview'[w] = [correction |-> x, rows |-> NoRows]
        BY <3>2 DEF TypeOK
      <4>2. x # NoCorrection =>
               /\ CorrectionOf[x].node \in DOMAIN Credits[args[w].run]
               /\ CorrectionOf[x].amount <= Credits[args[w].run][CorrectionOf[x].node]
        <5>1. x \in Corrections \cup {NoCorrection}
          BY ArgsFacts DEF CorrectionFound
        <5>2. SUFFICES ASSUME x # NoCorrection
              PROVE  /\ CorrectionOf[x].node \in DOMAIN Credits[args[w].run]
                     /\ CorrectionOf[x].amount <= Credits[args[w].run][CorrectionOf[x].node]
          OBVIOUS
        <5>3. CorrectionOf[x].amount \in Nat
          BY <5>1, <5>2, CorrectionAssumption
        <5>4. /\ CorrectionOf[x].node \in DOMAIN Credits[args[w].run]
              /\ ~ (CorrectionOf[x].amount > Credits[args[w].run][CorrectionOf[x].node])
          BY <3>2, <5>2 DEF CorrectionRefused
        <5> HIDE DEF x
        <5> QED
          BY <5>3, <5>4, ArgsFacts
      <4> HIDE DEF x
      <4> QED
        BY <1>1, <3>2, <4>1, <4>2, NoRowsTyped DEF PreviewRight, Written
    <3> QED
      BY <2>1, <3>1, <3>2 DEF LoadCredits, TypeOK
  <2>2. CASE DecidePreview(w)
    BY <1>1, <2>2 DEF PreviewRight, DecidePreview, Unread, Written
  <2>3. ASSUME NEW n \in Nodes, ReadAddress(w, n)
        PROVE  PreviewRight(w)'
    <3> DEFINE row == PlanRow(args[w].run, PlanCorrection(w), n)
               R == WithRow(preview[w].rows, n, row)
    <3>1. CASE preview' = preview
      BY <1>1, <2>3, <3>1 DEF PreviewRight, ReadAddress, Written, TypeOK
    <3>2. CASE /\ preview' = [preview EXCEPT ![w] =
                                [correction |-> PlanCorrection(w), rows |-> R]]
               /\ pc' = pc
      <4>1. row.status = "draft" /\ row.correction = Deduction(PlanCorrection(w), n)
        BY DEF PlanRow
      <4>2. pc[w] = "reading" /\ n \in DOMAIN Credits[args[w].run]
        BY <2>3 DEF ReadAddress, Unread
      <4> HIDE DEF row
      <4>3. /\ DOMAIN R = DOMAIN preview[w].rows \cup {n}
            /\ R[n] = row
            /\ \A m \in DOMAIN preview[w].rows \ {n} : R[m] = preview[w].rows[m]
        BY DEF WithRow
      <4> HIDE DEF R
      <4>4. preview'[w] = [correction |-> PlanCorrection(w), rows |-> R]
        BY <3>2 DEF TypeOK
      <4>5. preview'[w].rows = R /\ preview'[w].correction = PlanCorrection(w)
        BY <4>4
      <4> QED
        BY <1>1, <3>2, <4>1, <4>2, <4>3, <4>5 DEF PreviewRight, Written
    <3> QED
      BY <2>3, <3>1, <3>2 DEF ReadAddress
  <2> QED
    BY <2>1, <2>2, <2>3
<1>4. PreviewsRight'
  BY <1>1, <1>3 DEF PlannerInv, PreviewsRight, PreviewRight
<1> QED
  BY <1>2, <1>4 DEF PlannerInv

\* A writer that inserts its header, applies its correction or dies: the unique
\* index and the lock on the correction keep writers apart.
LEMMA PlannerInserts ==
    ASSUME TypeOK, PlannerInv, NEW w \in Writers,
           InsertHeader(w) \/ ApplyCorrection(w) \/ CrashWriter(w)
    PROVE  PlannerInv'
<1> USE DEF planVars, writerVars, PlanRun, PlanCorrection
<1>1. /\ UNCHANGED <<rows, args, preview, corrections>>
      /\ pc[w] \in {"reading", "inserting", "applying", "writing"}
      /\ pc'[w] \in {"failed", "applying", "writing"}
      /\ \A p \in Writers \ {w} : pc'[p] = pc[p] /\ status'[p] = status[p]
      /\ status'[w] # status[w] =>
            pc[w] = "applying" /\ status'[w] = "draft" /\ pc'[w] = "failed"
  BY DEF TypeOK, InsertHeader, ApplyCorrection, CrashWriter
<1>2. status[w] = "none" /\ rows[w] = NoRows
  BY <1>1 DEF PlannerInv, Stages
<1>3. pc'[w] = "applying" => PlanCorrection(w) # NoCorrection
  BY DEF InsertHeader, ApplyCorrection, CrashWriter, TypeOK
<1>4. (Stages /\ RowsArePreview /\ RowsFollowPlan)'
  BY <1>1, <1>2, <1>3, NoRowsTyped DEF PlannerInv, Stages, RowsArePreview, RowsFollowPlan
<1>5. PreviewsRight'
  <2>1. pc[w] \in {"inserting", "applying", "writing"} \/ pc'[w] = "failed"
    BY <1>1 DEF InsertHeader, ApplyCorrection, CrashWriter, TypeOK
  <2> QED
    BY <1>1, <2>1 DEF PlannerInv, PreviewsRight, PreviewRight, Written
<1>6. HeaderHeld'
  <2>1. CASE InsertHeader(w) /\ pc'[w] # "failed"
    <3>1. ~ HeaderLocked(PlanRun(w)) /\ ~ DraftExists(PlanRun(w)) /\ status' = status
      BY <2>1 DEF InsertHeader, TypeOK
    <3> QED
      BY <1>1, <3>1 DEF PlannerInv, HeaderHeld, HeaderLocked, DraftExists
  <2>2. CASE ApplyCorrection(w) /\ pc'[w] # "failed"
    <3>1. pc[w] = "applying" /\ status' = status
      BY <2>2 DEF ApplyCorrection, TypeOK
    <3> QED
      BY <1>1, <3>1 DEF PlannerInv, HeaderHeld, DraftExists
  <2>3. CASE pc'[w] = "failed"
    BY <1>1, <2>3 DEF PlannerInv, HeaderHeld, DraftExists
  <2> QED
    BY <2>1, <2>2, <2>3 DEF CrashWriter, TypeOK
<1>7. OneDraftPerRun'
  BY <1>1 DEF PlannerInv, OneDraftPerRun, HeaderHeld, DraftExists
<1>8. CorrectionHeld'
  <2>1. CASE InsertHeader(w)
    BY <1>1, <2>1 DEF PlannerInv, CorrectionHeld, InsertHeader, TypeOK
  <2>2. CASE ApplyCorrection(w)
    <3>1. pc'[w] = "writing" => /\ corrections[PlanCorrection(w)].status = "draft"
                                /\ ~ CorrectionLocked(PlanCorrection(w))
      BY <2>2 DEF ApplyCorrection, TypeOK
    <3> QED
      BY <1>1, <3>1 DEF PlannerInv, CorrectionHeld, CorrectionLocked
  <2>3. CASE CrashWriter(w)
    BY <1>1, <2>3 DEF PlannerInv, CorrectionHeld, CrashWriter, TypeOK
  <2> QED
    BY <2>1, <2>2, <2>3
<1>9. AppliedToWritten'
  BY <1>1 DEF PlannerInv, AppliedToWritten, Correction
<1> QED
  BY <1>4, <1>5, <1>6, <1>7, <1>8, <1>9 DEF PlannerInv

\* A writer that commits its rows: it was alone with its run and correction.
LEMMA PlannerWrites ==
    ASSUME TypeOK, PlannerInv, NEW w \in Writers, WriteRows(w)
    PROVE  PlannerInv'
<1> USE DEF planVars, writerVars, PlanRun, PlanCorrection
<1>1. /\ UNCHANGED <<args, preview>>
      /\ pc[w] = "writing" /\ pc'[w] = "written" /\ status'[w] = "draft"
      /\ rows'[w] = preview[w].rows
      /\ \A p \in Writers \ {w} :
            pc'[p] = pc[p] /\ status'[p] = status[p] /\ rows'[p] = rows[p]
  BY DEF TypeOK, WriteRows
<1>2. PreviewRight(w)
  BY DEF PlannerInv, PreviewsRight
<1>3. (Stages /\ RowsArePreview /\ RowsFollowPlan)'
  BY <1>1, <1>2 DEF PlannerInv, Stages, RowsArePreview, RowsFollowPlan, PreviewRight
<1>4. PreviewsRight'
  BY <1>1 DEF PlannerInv, PreviewsRight, PreviewRight, Written
<1>5. HeaderHeld' /\ OneDraftPerRun'
  BY <1>1 DEF PlannerInv, HeaderHeld, OneDraftPerRun, DraftExists
<1>6. CASE PlanCorrection(w) = NoCorrection
  <2>1. corrections' = corrections
    BY <1>6 DEF WriteRows
  <2>2. CorrectionHeld'
    BY <1>1, <2>1 DEF PlannerInv, CorrectionHeld
  <2>3. AppliedToWritten'
    BY <1>1, <1>6, <2>1 DEF PlannerInv, AppliedToWritten, Correction
  <2> QED
    BY <1>3, <1>4, <1>5, <2>2, <2>3 DEF PlannerInv
<1>7. CASE PlanCorrection(w) # NoCorrection
  <2>1. /\ PlanCorrection(w) \in Corrections
        /\ corrections'[PlanCorrection(w)] = Correction("applied", w)
        /\ \A x \in Corrections \ {PlanCorrection(w)} : corrections'[x] = corrections[x]
    BY <1>7 DEF WriteRows, TypeOK
  <2>2. /\ corrections[PlanCorrection(w)].status = "draft"
        /\ \A u \in Writers : pc[u] = "writing"
                                /\ PlanCorrection(u) = PlanCorrection(w) => u = w
    BY <1>1, <1>7 DEF PlannerInv, CorrectionHeld
  <2>3. CorrectionHeld'
    BY <1>1, <2>1, <2>2 DEF PlannerInv, CorrectionHeld, TypeOK
  <2>4. \A u, v \in Writers : Correction("applied", u) = Correction("applied", v) => u = v
    BY DEF Correction
  <2>5. \A p \in Writers : corrections[PlanCorrection(w)] # Correction("applied", p)
    BY <2>2 DEF Correction
  <2>6. AppliedToWritten'
    <3>1. \A p \in Writers : pc'[p] = "written" /\ PlanCorrection(p) # NoCorrection =>
             corrections'[PlanCorrection(p)] = Correction("applied", p)
      BY <1>1, <2>1, <2>5 DEF PlannerInv, AppliedToWritten, TypeOK
    <3>2. \A x \in Corrections : \A p \in Writers :
             corrections'[x] = Correction("applied", p) =>
                 pc'[p] = "written" /\ PlanCorrection(p) = x
      BY <1>1, <2>1, <2>4 DEF PlannerInv, AppliedToWritten
    <3> QED
      BY <1>1, <3>1, <3>2 DEF AppliedToWritten
  <2> QED
    BY <1>3, <1>4, <1>5, <2>3, <2>6 DEF PlannerInv
<1> QED
  BY <1>6, <1>7

\* Approval and cancellation take the rows along, and never make a draft.
LEMMA PlannerReviews ==
    ASSUME TypeOK, PlannerInv, NEW p \in Writers, ApprovePlan(p) \/ CancelPlan(p)
    PROVE  PlannerInv'
<1> USE DEF planVars, writerVars, PlanRun, PlanCorrection
<1>1. CASE UNCHANGED <<status, rows>>
  BY <1>1, PlannerUnchanged DEF ApprovePlan, CancelPlan
<1>2. ASSUME NEW from \in SUBSET {"draft", "approved"}, NEW to \in {"approved", "cancelled"},
             status[p] \in from,
             status' = [status EXCEPT ![p] = to],
             rows' = [rows EXCEPT ![p] = MoveRows(rows[p], from, to)]
      PROVE  PlannerInv'
  <2>1. UNCHANGED <<pc, args, preview, corrections>>
    BY DEF ApprovePlan, CancelPlan
  <2> DEFINE R == MoveRows(rows[p], from, to)
  <2>2. IsPlanRows(rows[p]) /\ to \in {"draft", "approved", "cancelled"}
    BY DEF TypeOK
  <2>3. /\ DOMAIN R = DOMAIN rows[p]
        /\ \A n \in DOMAIN rows[p] :
              /\ R[n].correction = rows[p][n].correction
              /\ R[n].status = IF rows[p][n].status \in from THEN to ELSE rows[p][n].status
    BY <2>2, MoveRowsFacts
  <2>4. rows[p] = NoRows => R = NoRows
    BY NoRowsTyped DEF MoveRows, NoRows
  <2> HIDE DEF R
  <2>5. /\ rows'[p] = R /\ status'[p] = to /\ status[p] # "none"
        /\ \A q \in Writers \ {p} : rows'[q] = rows[q] /\ status'[q] = status[q]
    BY <1>2 DEF TypeOK, R
  <2>6. (Stages /\ RowsArePreview)'
    BY <2>1, <2>3, <2>4, <2>5 DEF PlannerInv, Stages, RowsArePreview
  <2>7. RowsFollowPlan'
    BY <1>2, <2>3, <2>5 DEF PlannerInv, RowsFollowPlan
  <2>8. PreviewsRight'
    BY <2>1 DEF PlannerInv, PreviewsRight, PreviewRight, Written
  <2>9. HeaderHeld' /\ OneDraftPerRun'
    BY <2>1, <2>5 DEF PlannerInv, HeaderHeld, OneDraftPerRun, DraftExists
  <2>10. CorrectionHeld' /\ AppliedToWritten'
    BY <2>1 DEF PlannerInv, CorrectionHeld, AppliedToWritten
  <2> QED
    BY <2>6, <2>7, <2>8, <2>9, <2>10 DEF PlannerInv
<1>3. CASE ApprovePlan(p)
  BY <1>1, <1>2, <1>3 DEF ApprovePlan
<1>4. CASE CancelPlan(p)
  BY <1>2, <1>4 DEF CancelPlan
<1> QED
  BY <1>3, <1>4

\* Every step keeps what the planner, the corrections and the review keep.
LEMMA NextPlannerInv ==
    ASSUME TypeOK, PlannerInv, [Next]_vars
    PROVE  PlannerInv'
<1> USE DEF commandVars
<1>1. ASSUME NEW n \in Nodes, NEW a \in Addresses, RegisterAddress(n, a)
      PROVE  PlannerInv'
  BY <1>1, PlannerUnchanged DEF RegisterAddress
<1>2. ASSUME NEW p \in Writers, BeginApprove(p) \/ \E n \in Nodes : CompareAddress(p, n)
      PROVE  PlannerInv'
  BY <1>2, PlannerUnchanged DEF BeginApprove, CompareAddress
<1>3. ASSUME NEW f \in Checks, BeginCheck(f) \/ RecordCheck(f)
      PROVE  PlannerInv'
  BY <1>3, PlannerUnchanged DEF BeginCheck, RecordCheck
<1>4. CASE UNCHANGED vars
  BY <1>4, PlannerUnchanged DEF vars
<1> QED
  BY <1>1, <1>2, <1>3, <1>4, PlannerCorrections, PlannerReads, PlannerInserts, PlannerWrites,
     PlannerReviews DEF Next, Write, Review

-----------------------------------------------------------------------------
(* Plans move on, and preflights stay payable.                             *)

\* What PlansMoveOn says of one step.
PlansStep ==
    /\ \A p \in Writers :
         /\ status'[p] \in LaterStatus(status[p])
         /\ status[p] # "none" =>
               /\ DOMAIN rows'[p] = DOMAIN rows[p]
               /\ \A n \in DOMAIN rows[p] :
                     rows'[p][n] = [rows[p][n] EXCEPT !.status = rows'[p][n].status]
    /\ \A x \in Corrections :
         corrections[x].status \in {"applied", "cancelled"} => corrections'[x] = corrections[x]

\* A moved row is the row with another status.
LEMMA MoveRowsRow ==
    ASSUME NEW R, NEW from, NEW to \in {"draft", "approved", "cancelled"}, IsPlanRows(R),
           NEW n \in DOMAIN R
    PROVE  MoveRows(R, from, to)[n] = [R[n] EXCEPT !.status = MoveRows(R, from, to)[n].status]
<1> DEFINE s == IF R[n].status \in from THEN to ELSE R[n].status
<1>1. R[n] \in [address : Addresses, gross : Nat, correction : Nat, amount : Nat,
                status : {"draft", "approved", "cancelled"}]
  BY DEF IsPlanRows, IsRows
<1>2. MoveRows(R, from, to)[n] = [R[n] EXCEPT !.status = s]
  BY DEF MoveRows
<1> HIDE DEF s
<1>3. [R[n] EXCEPT !.status = s].status = s
  BY <1>1
<1> QED
  BY <1>2, <1>3

\* A row with its own status is the row.
LEMMA SameRow ==
    ASSUME NEW R, IsPlanRows(R), NEW n \in DOMAIN R
    PROVE  R[n] = [R[n] EXCEPT !.status = R[n].status]
<1>1. R[n] \in [address : Addresses, gross : Nat, correction : Nat, amount : Nat,
                status : {"draft", "approved", "cancelled"}]
  BY DEF IsPlanRows, IsRows
<1> QED
  BY <1>1

LEMMA NextPlansStep ==
    ASSUME TypeOK, PlannerInv, [Next]_vars
    PROVE  PlansStep
<1> USE DEF planVars, writerVars, commandVars, PlanRun, PlanCorrection
<1>1. \A p \in Writers : \A n \in DOMAIN rows[p] :
         rows[p][n] = [rows[p][n] EXCEPT !.status = rows[p][n].status]
  BY SameRow DEF TypeOK
<1>2. \A s \in {"none", "draft", "approved", "cancelled"} : s \in LaterStatus(s)
  BY DEF LaterStatus
<1>3. ASSUME UNCHANGED <<status, rows, corrections>>
      PROVE  PlansStep
  BY <1>1, <1>2, <1>3 DEF PlansStep, TypeOK
<1>4. ASSUME NEW x \in Corrections, CreateCorrection(x) \/ CancelCorrection(x)
      PROVE  PlansStep
  <2>1. /\ UNCHANGED <<status, rows>>
        /\ corrections[x].status \in {"none", "draft"}
        /\ \A y \in Corrections \ {x} : corrections'[y] = corrections[y]
    BY <1>4 DEF CreateCorrection, CancelCorrection, TypeOK
  <2> QED
    BY <1>1, <1>2, <2>1 DEF PlansStep, TypeOK
<1>5. ASSUME NEW w \in Writers, ApplyCorrection(w)
      PROVE  PlansStep
  <2>1. /\ UNCHANGED <<rows, corrections>>
        /\ status[w] = "none" /\ status'[w] \in {"none", "draft"}
        /\ \A p \in Writers \ {w} : status'[p] = status[p]
    BY <1>5 DEF ApplyCorrection, PlannerInv, Stages, TypeOK
  <2>2. LaterStatus("none") = {"none", "draft"}
    BY DEF LaterStatus
  <2> QED
    BY <1>1, <1>2, <2>1, <2>2 DEF PlansStep, TypeOK
<1>6. ASSUME NEW w \in Writers, WriteRows(w)
      PROVE  PlansStep
  <2>1. /\ status[w] = "none" /\ status'[w] = "draft"
        /\ \A p \in Writers \ {w} : status'[p] = status[p] /\ rows'[p] = rows[p]
    BY <1>6 DEF WriteRows, PlannerInv, Stages, TypeOK
  <2>2. LaterStatus("none") = {"none", "draft"}
    BY DEF LaterStatus
  <2>3. \A x \in Corrections : corrections[x].status \in {"applied", "cancelled"} =>
           corrections'[x] = corrections[x]
    BY <1>6 DEF WriteRows, PlannerInv, CorrectionHeld, TypeOK
  <2> QED
    BY <1>1, <1>2, <2>1, <2>2, <2>3 DEF PlansStep, TypeOK
<1>7. ASSUME NEW p \in Writers, NEW from, NEW to \in {"approved", "cancelled"},
             to \in LaterStatus(status[p]), UNCHANGED corrections,
             status' = [status EXCEPT ![p] = to],
             rows' = [rows EXCEPT ![p] = MoveRows(rows[p], from, to)]
      PROVE  PlansStep
  <2>1. IsPlanRows(rows[p]) /\ to \in {"draft", "approved", "cancelled"}
    BY DEF TypeOK
  <2>2. /\ status'[p] = to
        /\ rows'[p] = MoveRows(rows[p], from, to)
        /\ \A q \in Writers \ {p} : status'[q] = status[q] /\ rows'[q] = rows[q]
    BY <1>7 DEF TypeOK
  <2>3. DOMAIN rows'[p] = DOMAIN rows[p]
    BY <2>1, <2>2, MoveRowsFacts
  <2>4. ASSUME NEW n \in DOMAIN rows[p]
        PROVE  rows'[p][n] = [rows[p][n] EXCEPT !.status = rows'[p][n].status]
    BY <2>1, <2>2, MoveRowsRow
  <2> QED
    BY <1>1, <1>2, <1>7, <2>2, <2>3, <2>4 DEF PlansStep, TypeOK
<1>8. ASSUME NEW p \in Writers, ApprovePlan(p)
      PROVE  PlansStep
  <2>1. status[p] = "draft" => "approved" \in LaterStatus(status[p])
    BY DEF LaterStatus
  <2> QED
    BY <1>3, <1>7, <1>8, <2>1 DEF ApprovePlan
<1>9. ASSUME NEW p \in Writers, CancelPlan(p)
      PROVE  PlansStep
  <2>1. "cancelled" \in LaterStatus(status[p])
    BY <1>9 DEF CancelPlan, LaterStatus
  <2> QED
    BY <1>7, <1>9, <2>1 DEF CancelPlan
<1>10. ASSUME NEW n \in Nodes, NEW a \in Addresses, RegisterAddress(n, a)
       PROVE  PlansStep
  BY <1>3, <1>10 DEF RegisterAddress
<1>11. ASSUME NEW w \in Writers,
              \/ LoadCredits(w) \/ DecidePreview(w) \/ InsertHeader(w) \/ CrashWriter(w)
              \/ BeginApprove(w)
              \/ \E n \in Nodes : ReadAddress(w, n) \/ CompareAddress(w, n)
       PROVE  PlansStep
  BY <1>3, <1>11 DEF LoadCredits, DecidePreview, InsertHeader, CrashWriter, BeginApprove,
                     ReadAddress, CompareAddress
<1>12. ASSUME NEW f \in Checks, BeginCheck(f) \/ RecordCheck(f)
       PROVE  PlansStep
  BY <1>3, <1>12 DEF BeginCheck, RecordCheck
<1>13. CASE UNCHANGED vars
  BY <1>3, <1>13 DEF vars
<1> QED
  BY <1>4, <1>5, <1>6, <1>8, <1>9, <1>10, <1>11, <1>12, <1>13 DEF Next, Write, Review

LEMMA InitChecksInv == Init => ChecksInv
<1> SUFFICES ASSUME Init PROVE ChecksInv
  OBVIOUS
<1>1. RegistryDistinct
  BY DEF Init, RegistryDistinct
<1>2. \A f \in Checks : checks[f] = NoCheck /\ verdict[f] = NoCheck
  BY DEF Init
<1>3. NoCheck.status = "none" /\ NoCheck.plan = NoPlan
  BY DEF NoCheck, Check
<1> QED
  BY <1>1, <1>2, <1>3 DEF ChecksInv, ChecksNamed, ChecksPayable, OneCheckPerKey

\* A copy is one after any step of the plans.
LEMMA CopiesKept ==
    ASSUME TypeOK, PlansStep, UNCHANGED args, NEW r, Copies(r)
    PROVE  Copies(r)'
<1> DEFINE p == r.plan
           R == r.rows
<1>1. /\ p \in Writers
      /\ status[p] \in {"approved", "cancelled"}
      /\ DOMAIN R = DOMAIN Credits[PlanRun(p)]
      /\ DOMAIN R = DOMAIN rows[p] /\ DOMAIN rows'[p] = DOMAIN rows[p] /\ DOMAIN R # {}
      /\ \A n \in DOMAIN R : R[n].address = rows[p][n].address /\ R[n].amount = rows[p][n].amount
  BY DEF Copies, PlansStep
<1> HIDE DEF p, R
<1>2. status'[p] \in {"approved", "cancelled"}
  BY <1>1 DEF PlansStep, LaterStatus
<1>3. IsPlanRows(rows[p])
  BY <1>1 DEF TypeOK
<1>4. ASSUME NEW n \in DOMAIN rows[p]
      PROVE  /\ rows'[p][n].address = rows[p][n].address
             /\ rows'[p][n].amount = rows[p][n].amount
  <2>1. rows[p][n] \in [address : Addresses, gross : Nat, correction : Nat, amount : Nat,
                        status : {"draft", "approved", "cancelled"}]
    BY <1>3 DEF IsPlanRows, IsRows
  <2>2. rows'[p][n] = [rows[p][n] EXCEPT !.status = rows'[p][n].status]
    BY <1>1 DEF PlansStep
  <2> DEFINE s == rows'[p][n].status
  <2>3. rows'[p][n] = [rows[p][n] EXCEPT !.status = s]
    BY <2>2
  <2> HIDE DEF s
  <2> QED
    BY <2>1, <2>3
<1> QED
  BY <1>1, <1>2, <1>4 DEF Copies, PlanRun, p, R

\* What can be paid from can be paid from after any step of the plans.
LEMMA PayableKept ==
    ASSUME TypeOK, PlansStep, UNCHANGED args, NEW r, Payable(r)
    PROVE  Payable(r)'
  BY CopiesKept DEF Payable

\* The record of an approved plan is a copy of it.
LEMMA ApprovedIsCopied ==
    ASSUME TypeOK, PlannerInv, NEW p \in Writers, NEW k, NEW s,
           status[p] = "approved", DOMAIN rows[p] # {}
    PROVE  /\ ApprovedRows(p) = DOMAIN rows[p]
           /\ Copies(Check(s, p, k, CheckRows(p)))
<1>1. ApprovedRows(p) = DOMAIN rows[p]
  BY DEF ApprovedRows, PlannerInv, RowsFollowPlan
<1>2. pc[p] = "written"
  BY NoRowsTyped DEF PlannerInv, Stages
<1>3. DOMAIN rows[p] = DOMAIN Credits[PlanRun(p)]
  BY <1>2 DEF PlannerInv, RowsArePreview, PreviewsRight, PreviewRight, Written
<1> DEFINE R == CheckRows(p)
<1>4. /\ DOMAIN R = DOMAIN rows[p]
      /\ \A n \in DOMAIN R : R[n].address = rows[p][n].address /\ R[n].amount = rows[p][n].amount
  BY <1>1 DEF CheckRows
<1> HIDE DEF R
<1>5. LET r == Check(s, p, k, R) IN r.plan = p /\ r.rows = R
  BY DEF Check
<1> QED
  BY <1>1, <1>3, <1>4, <1>5 DEF Copies, R

\* A preflight that passes can be paid from.
LEMMA CheckedIsPayable ==
    ASSUME TypeOK, PlannerInv, RegistryDistinct, NEW p \in Writers, NEW k \in Keys,
           NEW limit \in Limits, CheckPasses(p, limit)
    PROVE  Payable(Check("passed", p, k, CheckRows(p)))
<1> DEFINE R == CheckRows(p)
<1>1. status[p] = "approved" /\ DOMAIN rows[p] # {}
  BY DEF CheckPasses, ApprovedRows
<1>2. ApprovedRows(p) = DOMAIN rows[p] /\ Copies(Check("passed", p, k, R))
  BY <1>1, ApprovedIsCopied
<1>3. /\ DOMAIN R = DOMAIN rows[p]
      /\ \A n \in DOMAIN R : R[n].address = rows[p][n].address
  BY <1>2 DEF CheckRows
<1>4. \A n \in DOMAIN rows[p] : n \in Nodes /\ rows[p][n].address \in Addresses
  BY DEF TypeOK, IsPlanRows, IsRows
<1>5. \A n \in DOMAIN rows[p] : registry[n] = rows[p][n].address
  BY <1>2 DEF CheckPasses
<1> HIDE DEF R
<1>6. \A m, n \in DOMAIN R : R[m].address = R[n].address => m = n
  BY <1>3, <1>4, <1>5, PlanningAssumption DEF RegistryDistinct
<1>7. LET r == Check("passed", p, k, R) IN r.plan = p /\ r.rows = R
  BY DEF Check
<1> QED
  BY <1>2, <1>6, <1>7 DEF Payable, R

\* Every step keeps what the preflights keep.
LEMMA NextChecksInv ==
    ASSUME TypeOK, PlannerInv, ChecksInv, [Next]_vars
    PROVE  ChecksInv'
<1> USE DEF planVars, writerVars, commandVars
<1>1. PlansStep
  BY NextPlansStep
<1>2. UNCHANGED args
  BY DEF Next, Write, Review, vars, CreateCorrection, CancelCorrection, RegisterAddress,
         LoadCredits, ReadAddress, DecidePreview, InsertHeader, ApplyCorrection, WriteRows,
         CrashWriter, BeginApprove, CompareAddress, ApprovePlan, CancelPlan, BeginCheck,
         RecordCheck
<1>3. RegistryDistinct'
  <2>1. ASSUME NEW n \in Nodes, NEW a \in Addresses, RegisterAddress(n, a)
        PROVE  RegistryDistinct'
    BY <2>1 DEF RegisterAddress, ChecksInv, RegistryDistinct, TypeOK
  <2>2. CASE UNCHANGED registry
    BY <2>2 DEF ChecksInv, RegistryDistinct
  <2> QED
    BY <2>1, <2>2
       DEF Next, Write, Review, vars, CreateCorrection, CancelCorrection, LoadCredits,
           ReadAddress, DecidePreview, InsertHeader, ApplyCorrection, WriteRows, CrashWriter,
           BeginApprove, CompareAddress, ApprovePlan, CancelPlan, BeginCheck, RecordCheck
<1>4. ASSUME UNCHANGED <<checks, verdict>>
      PROVE  ChecksInv'
  <2>1. ChecksPayable'
    BY <1>1, <1>2, <1>4, PayableKept DEF ChecksInv, ChecksPayable
  <2> QED
    BY <1>3, <1>4, <2>1 DEF ChecksInv, ChecksNamed, OneCheckPerKey
<1>5. ASSUME NEW f \in Checks, BeginCheck(f)
      PROVE  ChecksInv'
  <2>1. PICK p \in Writers, k \in Keys, limit \in Limits :
           verdict' = [verdict EXCEPT ![f] =
              Check(IF CheckPasses(p, limit) THEN "passed" ELSE "refused",
                    p, k, CheckRows(p))]
    BY <1>5 DEF BeginCheck
  <2> DEFINE v == Check(IF CheckPasses(p, limit) THEN "passed" ELSE "refused",
                        p, k, CheckRows(p))
  <2>2. /\ verdict'[f] = v
        /\ \A g \in Checks \ {f} : verdict'[g] = verdict[g]
        /\ checks' = checks
    BY <1>5, <2>1 DEF BeginCheck, TypeOK
  <2>3. v.plan = p /\ (v.status = "passed" => Payable(v))
    <3>1. CASE CheckPasses(p, limit)
      <4>1. v = Check("passed", p, k, CheckRows(p))
        BY <3>1
      <4>2. v.plan = p
        BY DEF Check
      <4> QED
        BY <3>1, <4>1, <4>2, CheckedIsPayable DEF ChecksInv
    <3>2. CASE ~ CheckPasses(p, limit)
      BY <3>2 DEF Check
    <3> QED
      BY <3>1, <3>2
  <2> HIDE DEF v
  <2>4. ChecksPayable'
    BY <1>1, <1>2, <2>2, <2>3, PayableKept DEF ChecksInv, ChecksPayable
  <2>5. ChecksNamed'
    BY <2>2, <2>3 DEF ChecksInv, ChecksNamed
  <2> QED
    BY <1>3, <2>2, <2>4, <2>5 DEF ChecksInv, OneCheckPerKey
<1>6. ASSUME NEW f \in Checks, RecordCheck(f)
      PROVE  ChecksInv'
  <2>1. NoCheck.status = "none" /\ NoCheck.plan = NoPlan
    BY DEF NoCheck, Check
  <2>2. /\ verdict[f].status # "none"
        /\ verdict'[f] = NoCheck
        /\ \A g \in Checks \ {f} : verdict'[g] = verdict[g] /\ checks'[g] = checks[g]
        /\ \/ checks' = checks
           \/ /\ ~ Recorded(verdict[f].plan, verdict[f].key)
              /\ checks'[f] = verdict[f]
    BY <1>6 DEF RecordCheck, TypeOK
  <2>3. ChecksPayable'
    BY <1>1, <1>2, <2>1, <2>2, PayableKept DEF ChecksInv, ChecksPayable
  <2>4. ChecksNamed'
    BY <2>1, <2>2 DEF ChecksInv, ChecksNamed
  <2>5. OneCheckPerKey'
    BY <2>2, PlanningAssumption DEF ChecksInv, ChecksNamed, OneCheckPerKey, Recorded
  <2> QED
    BY <1>3, <2>3, <2>4, <2>5 DEF ChecksInv
<1> QED
  BY <1>4, <1>5, <1>6
     DEF Next, Write, Review, vars, CreateCorrection, CancelCorrection, RegisterAddress,
         LoadCredits, ReadAddress, DecidePreview, InsertHeader, ApplyCorrection, WriteRows,
         CrashWriter, BeginApprove, CompareAddress, ApprovePlan, CancelPlan

-----------------------------------------------------------------------------
(* What the rows of a plan add up to.                                      *)

\* A preview has finitely many rows, and so it has a total.
LEMMA PlanTotalType ==
    ASSUME TypeOK, NEW w \in Writers, PreviewRight(w)
    PROVE  PlanTotal(w) \in Nat /\ args[w].cap \in Nat
<1>1. PICK R : R = preview[w].rows
  OBVIOUS
<1> DEFINE f == [n \in DOMAIN R |-> R[n].amount]
<1>2. IsFiniteSet(DOMAIN R)
  <2>1. DOMAIN R \subseteq DOMAIN Credits[args[w].run] /\ args[w].run \in CreditRuns
    BY <1>1, ArgsFacts DEF PreviewRight, PlanRun
  <2>2. IsFiniteSet(DOMAIN Credits[args[w].run])
    BY <2>1, CreditsAssumption
  <2> QED
    BY <2>1, <2>2, FS_Subset
<1>3. \A n \in DOMAIN R : f[n] \in Nat
  <2>1. IsPlanRows(R)
    BY <1>1 DEF TypeOK
  <2> QED
    BY <2>1 DEF IsPlanRows, IsRows
<1>4. PlanTotal(w) = SumOver(f, DOMAIN R)
  BY <1>1 DEF PlanTotal, RowTotal
<1>5. args[w].cap \in Nat
  BY PlanningAssumption DEF TypeOK, Request
<1> HIDE DEF f
<1> QED
  BY <1>2, <1>3, <1>4, <1>5, SumOverNat

\* Rows that pay the same have the same total.
LEMMA SameTotal ==
    ASSUME NEW R, NEW Q, DOMAIN R = DOMAIN Q, \A n \in DOMAIN R : R[n].amount = Q[n].amount
    PROVE  RowTotal(R) = RowTotal(Q)
<1>1. [n \in DOMAIN R |-> R[n].amount] = [n \in DOMAIN Q |-> Q[n].amount]
  OBVIOUS
<1> QED
  BY <1>1, Zenon DEF RowTotal

\* A step that changes no preview, writes no rows and finishes no preview.
LEMMA AddsKept ==
    ASSUME PlansAddUp, UNCHANGED <<args, preview>>,
           \A p \in Writers : pc'[p] \in Written => pc[p] \in Written,
           \A p \in Writers : pc'[p] = "written" =>
               /\ pc[p] = "written"
               /\ DOMAIN rows'[p] = DOMAIN rows[p]
               /\ \A n \in DOMAIN rows[p] : rows'[p][n].amount = rows[p][n].amount
    PROVE  PlansAddUp'
  BY DEF PlansAddUp, PlanAdds, PlanRun, PlanCorrection, PlanTotal

LEMMA NextPlansAddUp ==
    ASSUME TypeOK, PlannerInv, PlansAddUp, [Next]_vars
    PROVE  PlansAddUp'
<1> USE DEF planVars, writerVars, commandVars
<1>1. ASSUME UNCHANGED <<rows, pc, args, preview>>
      PROVE  PlansAddUp'
  BY <1>1, AddsKept
<1>2. ASSUME NEW w \in Writers, LoadCredits(w)
      PROVE  PlansAddUp'
  <2>1. /\ args' = args /\ rows' = rows
        /\ pc'[w] \in {"refused", "reading"} /\ \A p \in Writers \ {w} : pc'[p] = pc[p]
        /\ \A p \in Writers \ {w} : preview'[p] = preview[p]
        /\ preview'[w] = preview[w] \/ preview'[w].rows = NoRows
    BY <1>2 DEF LoadCredits, TypeOK
  <2>2. CASE UNCHANGED preview
    BY <2>1, <2>2, AddsKept DEF Written
  <2>3. CASE preview'[w].rows = NoRows
    <3>1. PlanAdds(w)'
      BY <2>1, <2>3, NoRowsTyped DEF PlanAdds, Written
    <3>2. \A p \in Writers \ {w} : PlanAdds(p)'
      BY <2>1 DEF PlansAddUp, PlanAdds, PlanRun, PlanCorrection, PlanTotal
    <3> QED
      BY <3>1, <3>2 DEF PlansAddUp
  <2> QED
    BY <1>2, <2>2, <2>3 DEF LoadCredits, TypeOK
<1>3. ASSUME NEW w \in Writers, NEW n \in Nodes, ReadAddress(w, n)
      PROVE  PlansAddUp'
  <2> DEFINE row == PlanRow(args[w].run, PlanCorrection(w), n)
             R == WithRow(preview[w].rows, n, row)
  <2>1. /\ args' = args /\ rows' = rows /\ pc[w] = "reading"
        /\ pc'[w] \in {"refused", "reading"} /\ \A p \in Writers \ {w} : pc'[p] = pc[p]
    BY <1>3 DEF ReadAddress, TypeOK
  <2>2. CASE UNCHANGED preview
    BY <2>1, <2>2, AddsKept DEF Written
  <2>3. CASE preview' = [preview EXCEPT ![w] = [correction |-> PlanCorrection(w), rows |-> R]]
    <3>1. row.amount = Credits[PlanRun(w)][n] - Deduction(PlanCorrection(w), n)
      BY DEF PlanRow, PlanRun
    <3> HIDE DEF row
    <3>2. /\ DOMAIN R = DOMAIN preview[w].rows \cup {n} /\ R[n] = row
          /\ \A m \in DOMAIN preview[w].rows \ {n} : R[m] = preview[w].rows[m]
      BY DEF WithRow
    <3> HIDE DEF R
    <3>3. preview'[w].rows = R /\ preview'[w].correction = PlanCorrection(w)
      BY <2>3 DEF TypeOK
    <3>4. \A p \in Writers \ {w} : preview'[p] = preview[p]
      BY <2>3 DEF TypeOK
    <3>5. \A m \in DOMAIN R : R[m].amount = Credits[PlanRun(w)][m] - Deduction(PlanCorrection(w), m)
      BY <3>1, <3>2 DEF PlansAddUp, PlanAdds
    <3>6. PlanAdds(w)'
      BY <2>1, <3>3, <3>5 DEF PlanAdds, Written, PlanRun, PlanCorrection
    <3>7. \A p \in Writers \ {w} : PlanAdds(p)'
      BY <2>1, <3>4 DEF PlansAddUp, PlanAdds, PlanRun, PlanCorrection, PlanTotal
    <3> QED
      BY <3>6, <3>7 DEF PlansAddUp
  <2> QED
    BY <1>3, <2>2, <2>3 DEF ReadAddress
<1>4. ASSUME NEW w \in Writers, DecidePreview(w)
      PROVE  PlansAddUp'
  <2>1. /\ UNCHANGED <<rows, args, preview>> /\ \A p \in Writers \ {w} : pc'[p] = pc[p]
        /\ pc'[w] = IF PlanTotal(w) > args[w].cap THEN "refused" ELSE "inserting"
    BY <1>4 DEF DecidePreview, TypeOK
  <2>2. PlanTotal(w) \in Nat /\ args[w].cap \in Nat
    BY PlanTotalType DEF PlannerInv, PreviewsRight
  <2>3. pc'[w] = "inserting" => PlanTotal(w) <= args[w].cap
    BY <2>1, <2>2
  <2>4. PlanTotal(w)' = PlanTotal(w)
    BY <2>1 DEF PlanTotal
  <2>5. PlanAdds(w)'
    BY <2>1, <2>3, <2>4 DEF PlansAddUp, PlanAdds, Written, PlanRun, PlanCorrection
  <2>6. \A p \in Writers \ {w} : PlanAdds(p)'
    BY <2>1 DEF PlansAddUp, PlanAdds, PlanRun, PlanCorrection, PlanTotal
  <2> QED
    BY <2>5, <2>6 DEF PlansAddUp
<1>5. ASSUME NEW w \in Writers, InsertHeader(w) \/ ApplyCorrection(w) \/ CrashWriter(w)
      PROVE  PlansAddUp'
  <2>1. /\ UNCHANGED <<rows, args, preview>> /\ \A p \in Writers \ {w} : pc'[p] = pc[p]
        /\ pc'[w] \in {"failed", "applying", "writing"}
        /\ pc'[w] = "failed" \/ pc[w] \in {"inserting", "applying"}
    BY <1>5 DEF InsertHeader, ApplyCorrection, CrashWriter, TypeOK
  <2> QED
    BY <2>1, AddsKept DEF Written
<1>6. ASSUME NEW w \in Writers, WriteRows(w)
      PROVE  PlansAddUp'
  <2>1. /\ UNCHANGED <<args, preview>>
        /\ pc[w] = "writing" /\ pc'[w] = "written" /\ rows'[w] = preview[w].rows
        /\ \A p \in Writers \ {w} : pc'[p] = pc[p] /\ rows'[p] = rows[p]
    BY <1>6 DEF WriteRows, TypeOK
  <2> QED
    BY <2>1 DEF PlansAddUp, PlanAdds, PlanRun, PlanCorrection, PlanTotal, Written
<1>7. ASSUME NEW p \in Writers, ApprovePlan(p) \/ CancelPlan(p)
      PROVE  PlansAddUp'
  <2>1. /\ UNCHANGED <<pc, args, preview>>
        /\ \/ rows' = rows
           \/ \E from \in SUBSET {"draft", "approved"} : \E to \in {"approved", "cancelled"} :
                 rows' = [rows EXCEPT ![p] = MoveRows(rows[p], from, to)]
    BY <1>7 DEF ApprovePlan, CancelPlan
  <2>2. ASSUME NEW from \in SUBSET {"draft", "approved"}, NEW to \in {"approved", "cancelled"},
               rows' = [rows EXCEPT ![p] = MoveRows(rows[p], from, to)]
        PROVE  PlansAddUp'
    <3> DEFINE R == MoveRows(rows[p], from, to)
    <3>1. IsPlanRows(rows[p]) /\ to \in {"draft", "approved", "cancelled"}
      BY DEF TypeOK
    <3>2. /\ DOMAIN R = DOMAIN rows[p]
          /\ \A n \in DOMAIN rows[p] : R[n].amount = rows[p][n].amount
      BY <3>1, MoveRowsFacts
    <3> HIDE DEF R
    <3>3. rows'[p] = R /\ \A q \in Writers \ {p} : rows'[q] = rows[q]
      BY <2>2 DEF TypeOK, R
    <3>4. \A q \in Writers : /\ DOMAIN rows'[q] = DOMAIN rows[q]
                             /\ \A n \in DOMAIN rows[q] : rows'[q][n].amount = rows[q][n].amount
      BY <3>2, <3>3
    <3> QED
      BY <2>1, <3>4, AddsKept
  <2> QED
    BY <1>1, <2>1, <2>2
<1>8. UNCHANGED <<rows, pc, args, preview>> \/
      \E w \in Writers :
         \/ LoadCredits(w) \/ DecidePreview(w) \/ WriteRows(w)
         \/ InsertHeader(w) \/ ApplyCorrection(w) \/ CrashWriter(w)
         \/ ApprovePlan(w) \/ CancelPlan(w)
         \/ \E n \in Nodes : ReadAddress(w, n)
  BY DEF Next, Write, Review, vars, CreateCorrection, CancelCorrection, RegisterAddress,
         BeginApprove, CompareAddress, BeginCheck, RecordCheck
<1> QED
  BY <1>1, <1>2, <1>3, <1>4, <1>5, <1>6, <1>7, <1>8

-----------------------------------------------------------------------------
(* The theorems.                                                           *)

\* PlanningInv is an invariant: by induction, from the lemmas on each part.
THEOREM PlanningInvariant == Spec => []PlanningInv
<1>1. Init => PlanningInv
  BY InitTypeOK, InitPlannerInv, InitChecksInv DEF PlanningInv
<1>2. PlanningInv /\ [Next]_vars => PlanningInv'
  BY NextTypeOK, NextPlannerInv, NextChecksInv DEF PlanningInv, PlannerInv
<1> QED
  BY <1>1, <1>2, PTL DEF Spec

\* The tables and the commands' local state keep their types (migrations 004,
\* 007, 010 and 016).
THEOREM PlanningTypes == Spec => []TypeOK
<1>1. PlanningInv => TypeOK
  BY DEF PlanningInv
<1> QED
  BY <1>1, PlanningInvariant, PTL

\* However many write-draft commands race, a credit run has one draft plan.
THEOREM OneDraft == Spec => []OneDraftPerRun
<1>1. PlanningInv => OneDraftPerRun
  BY DEF PlanningInv, PlannerInv
<1> QED
  BY <1>1, PlanningInvariant, PTL

\* A correction is deducted from one plan at most, and in full.
THEOREM DeductedOnce == Spec => []CorrectionDeductedOnce
<1>1. PlanningInv => CorrectionDeductedOnce
  <2> SUFFICES ASSUME PlanningInv PROVE CorrectionDeductedOnce
    OBVIOUS
  <2> USE DEF PlanningInv, PlannerInv
  <2>1. ASSUME NEW p \in Writers, NEW n \in DOMAIN rows[p], rows[p][n].correction > 0
        PROVE  /\ PlanCorrection(p) # NoCorrection
               /\ corrections[PlanCorrection(p)] = Correction("applied", p)
    <3>1. pc[p] = "written"
      BY <2>1, NoRowsTyped DEF Stages
    <3>2. rows[p][n].correction = Deduction(PlanCorrection(p), n)
      BY <3>1 DEF RowsArePreview, PreviewsRight, PreviewRight
    <3>3. PlanCorrection(p) # NoCorrection
      BY <2>1, <3>2 DEF Deduction
    <3> QED
      BY <3>1, <3>3 DEF AppliedToWritten
  <2>2. ASSUME NEW x \in Corrections, NEW p \in Writers,
               corrections[x] = Correction("applied", p)
        PROVE  /\ CorrectionOf[x].node \in DOMAIN rows[p]
               /\ rows[p][CorrectionOf[x].node].correction = CorrectionOf[x].amount
    <3>1. pc[p] = "written" /\ PlanCorrection(p) = x /\ x # NoCorrection
      BY <2>2, CorrectionAssumption DEF AppliedToWritten
    <3>2. CorrectionOf[x].node \in DOMAIN rows[p]
      BY <3>1 DEF RowsArePreview, PreviewsRight, PreviewRight, Written
    <3>3. rows[p][CorrectionOf[x].node].correction = Deduction(x, CorrectionOf[x].node)
      BY <3>1, <3>2 DEF RowsArePreview, PreviewsRight, PreviewRight
    <3> QED
      BY <3>1, <3>2, <3>3 DEF Deduction
  <2> QED
    BY <2>1, <2>2 DEF CorrectionDeductedOnce
<1> QED
  BY <1>1, PlanningInvariant, PTL

\* Every plan with rows pays each credit of its run, net of the correction, in
\* rows that sum to its total and within its cap, whatever commands run beside it
\* and whatever becomes of the plan.
THEOREM PlansAreWhole == Spec => []PlanIsWhole
<1>1. Init => PlansAddUp
  <2>1. ASSUME Init PROVE PlansAddUp
    BY <2>1, NoRowsTyped DEF Init, PlansAddUp, PlanAdds, Written
  <2> QED
    BY <2>1
<1>2. PlanningInv /\ PlansAddUp /\ [Next]_vars => PlansAddUp'
  BY NextPlansAddUp DEF PlanningInv
<1>3. PlanningInv /\ PlansAddUp => PlanIsWhole
  <2> SUFFICES ASSUME PlanningInv, PlansAddUp, NEW p \in Writers, rows[p] # NoRows
               PROVE  /\ DOMAIN rows[p] = DOMAIN Credits[PlanRun(p)]
                      /\ \A n \in DOMAIN rows[p] :
                            rows[p][n].amount + rows[p][n].correction = Credits[PlanRun(p)][n]
                      /\ RowTotal(rows[p]) = PlanTotal(p)
                      /\ PlanTotal(p) <= args[p].cap
    BY DEF PlanIsWhole
  <2> USE DEF PlanningInv, PlannerInv
  <2>1. pc[p] = "written"
    BY DEF Stages
  <2>2. /\ DOMAIN rows[p] = DOMAIN preview[p].rows
        /\ DOMAIN preview[p].rows = DOMAIN Credits[PlanRun(p)]
        /\ \A n \in DOMAIN rows[p] : rows[p][n].correction = Deduction(PlanCorrection(p), n)
    BY <2>1 DEF RowsArePreview, PreviewsRight, PreviewRight, Written
  <2>3. \A n \in DOMAIN rows[p] :
           /\ rows[p][n].amount = preview[p].rows[n].amount
           /\ rows[p][n].amount = Credits[PlanRun(p)][n] - Deduction(PlanCorrection(p), n)
    BY <2>1, <2>2 DEF PlansAddUp, PlanAdds
  <2>4. ASSUME NEW n \in DOMAIN rows[p]
        PROVE  rows[p][n].amount + rows[p][n].correction = Credits[PlanRun(p)][n]
    <3>1. /\ Credits[PlanRun(p)][n] \in Nat /\ Deduction(PlanCorrection(p), n) \in Nat
      BY <2>2, ArgsFacts, DeductionFacts DEF PreviewsRight, PlanRun
    <3> QED
      BY <2>2, <2>3, <3>1
  <2>5. RowTotal(rows[p]) = PlanTotal(p)
    BY <2>2, <2>3, SameTotal DEF PlanTotal
  <2>6. PlanTotal(p) <= args[p].cap
    BY <2>1 DEF PlansAddUp, PlanAdds, Written
  <2> QED
    BY <2>2, <2>4, <2>5, <2>6
<1> QED
  BY <1>1, <1>2, <1>3, PlanningInvariant, PTL DEF Spec

\* The rows of a plan have its status.
THEOREM RowsFollow == Spec => []RowsFollowPlan
<1>1. PlanningInv => RowsFollowPlan
  BY DEF PlanningInv, PlannerInv
<1> QED
  BY <1>1, PlanningInvariant, PTL

\* A passed preflight can be paid from, whatever became of its plan and however
\* addresses move between nodes while commands read them.
THEOREM PassedIsPayable == Spec => []PassedCheckPayable
<1>1. PlanningInv => PassedCheckPayable
  BY DEF PlanningInv, ChecksInv, ChecksPayable, Payable, Copies, PassedCheckPayable
<1> QED
  BY <1>1, PlanningInvariant, PTL

\* One idempotency key records one preflight of a plan.
THEOREM OneCheck == Spec => []OneCheckPerKey
<1>1. PlanningInv => OneCheckPerKey
  BY DEF PlanningInv, ChecksInv
<1> QED
  BY <1>1, PlanningInvariant, PTL

\* Plans only move on, with the rows they were written with.
THEOREM PlansOnlyMoveOn == Spec => PlansMoveOn
<1>1. PlanningInv /\ [Next]_vars => [PlansStep]_vars
  BY NextPlansStep DEF PlanningInv
<1>2. PlansMoveOn <=> [][PlansStep]_vars
  BY PTL DEF PlansMoveOn, PlansStep
<1> QED
  BY <1>1, <1>2, PlanningInvariant, PTL DEF Spec

\* What the planner and the reviews keep of the plan tables, together.
THEOREM PlanTables == Spec => []PlanTablesSound
  BY PlanningTypes, OneDraft, RowsFollow, PTL DEF PlanTablesSound

\* What the production preflight keeps of its records, together.
THEOREM PreflightRecords == Spec => []ChecksSound
  BY PassedIsPayable, OneCheck, PTL DEF ChecksSound

-----------------------------------------------------------------------------
(* What a preflight makes of the wallet.                                   *)

\* A share of a balance is part of it.
LEMMA ShareFacts ==
    ASSUME NEW x \in Nat, NEW s \in 0 .. 100
    PROVE  (x * s) \div 100 \in 0 .. x
<1>1. x * s \in Nat
  OBVIOUS
<1>2. x * s <= x * 100
  <2>1. PICK d \in Nat : d = 100 - s
    OBVIOUS
  <2>2. x * d \in Nat /\ x * 100 = x * s + x * d
    BY <2>1
  <2> QED
    BY <1>1, <2>2
<1>3. PICK y \in Nat : y = x * s
  BY <1>1
<1> QED
  BY <1>2, <1>3

\* The limit is within the balance, and leaves the reserve untouched.
LEMMA LimitFacts ==
    ASSUME NEW trusted \in Nat, NEW o \in Option
    PROVE  /\ Reserve(trusted, o) \in Nat
           /\ SpendLimit(trusted, o) \in 0 .. trusted
           /\ ~ o.override =>
                 SpendLimit(trusted, o) = 0 \/
                 SpendLimit(trusted, o) + Reserve(trusted, o) <= trusted
<1>1. /\ o.mode \in {"percent", "amount"} /\ o.percent \in 0 .. 100 /\ o.amount \in Nat
      /\ o.most \in 0 .. 100 /\ o.override \in BOOLEAN
  BY DEF Option
<1>2. Reserve(trusted, o) \in Nat
  BY <1>1, ShareFacts DEF Reserve
<1>3. MaxSpendAllowed(trusted, o) \in Nat
  BY <1>1, ShareFacts DEF MaxSpendAllowed
<1>4. /\ SpendableAfterReserve(trusted, o) \in 0 .. trusted
      /\ \/ SpendableAfterReserve(trusted, o) = 0
         \/ SpendableAfterReserve(trusted, o) + Reserve(trusted, o) <= trusted
  BY <1>2 DEF SpendableAfterReserve
<1> QED
  BY <1>1, <1>2, <1>3, <1>4 DEF SpendLimit

\* The coins of a snapshot are finitely many, and the first n pay at least the
\* largest.
LEMMA CoinFacts ==
    ASSUME NEW coins, IsSnapshot(coins), coins # <<>>
    PROVE  /\ coins[1] \in Nat \ {0}
           /\ FirstCoins(coins, 0) = 0
           /\ FirstCoins(coins, 1) = coins[1]
           /\ \A n \in 1 .. Len(coins) : /\ FirstCoins(coins, n) \in Nat
                                         /\ coins[1] <= FirstCoins(coins, n)
<1>1. coins \in Seq(Nat \ {0}) /\ Len(coins) \in Nat \ {0}
  BY DEF IsSnapshot
<1>2. \A i \in 1 .. Len(coins) : coins[i] \in Nat \ {0}
  BY <1>1
<1>3. FirstCoins(coins, 0) = 0
  <2>1. 1 .. 0 = {}
    OBVIOUS
  <2> QED
    BY <2>1, SumOverEmpty DEF FirstCoins
<1>4. 1 .. 1 = {1} /\ coins[1] \in Nat \ {0}
  BY <1>1, <1>2
<1>5. SumOver(coins, {1}) = coins[1]
  <2>1. {} \cup {1} = {1} /\ IsFiniteSet({})
    BY FS_EmptySet
  <2>2. \A i \in {} \cup {1} : coins[i] \in Int
    BY <1>4
  <2>3. SumOver(coins, {} \cup {1}) = SumOver(coins, {}) + coins[1]
    BY <2>1, <2>2, SumOverAdd
  <2> QED
    BY <1>4, <2>1, <2>3, SumOverEmpty
<1>6. ASSUME NEW n \in 1 .. Len(coins)
      PROVE  FirstCoins(coins, n) \in Nat /\ coins[1] <= FirstCoins(coins, n)
  <2>1. IsFiniteSet(1 .. n) /\ {1} \in SUBSET (1 .. n)
    BY <1>1, FS_Interval
  <2>2. \A i \in 1 .. n : coins[i] \in Nat
    BY <1>1, <1>2
  <2>3. SumOver(coins, {1}) <= SumOver(coins, 1 .. n)
    BY <2>1, <2>2, SumOverSubset
  <2> QED
    BY <1>5, <2>1, <2>2, <2>3, SumOverNat DEF FirstCoins
<1> QED
  BY <1>3, <1>4, <1>5, <1>6 DEF FirstCoins

\* A payment opens a second coin just when the largest does not pay it.
LEMMA OneInput ==
    ASSUME NEW coins, IsSnapshot(coins), coins # <<>>, NEW amount \in Nat
    PROVE  /\ InputCount(amount, coins) \in Nat
           /\ InputCount(amount, coins) > 1 <=> amount > coins[1]
<1> DEFINE S == {n \in 0 .. Len(coins) : FirstCoins(coins, n) < amount}
<1>1. coins \in Seq(Nat \ {0}) /\ Len(coins) \in Nat \ {0}
  BY DEF IsSnapshot
<1>2. IsFiniteSet(0 .. Len(coins))
  BY <1>1, FS_Interval
<1>3. IsFiniteSet(S) /\ Cardinality(S) \in Nat
  BY <1>2, FS_Subset, FS_CardinalityType
<1>4. ASSUME amount > coins[1]
      PROVE  Cardinality(S) > 1
  <2>1. 0 .. 1 \in SUBSET S
    BY <1>1, <1>4, CoinFacts
  <2>2. PICK a \in Int, b \in Int : a = 0 /\ b = 1
    OBVIOUS
  <2>3. Cardinality(a .. b) = IF a > b THEN 0 ELSE b - a + 1
    BY FS_Interval
  <2>4. Cardinality(0 .. 1) <= Cardinality(S)
    BY <1>3, <2>1, FS_Subset
  <2> QED
    BY <1>3, <2>2, <2>3, <2>4
<1>5. ASSUME ~ (amount > coins[1])
      PROVE  ~ (Cardinality(S) > 1)
  <2>1. S \subseteq {0}
    BY <1>5, CoinFacts
  <2>2. IsFiniteSet({0}) /\ Cardinality({0}) = 1
    BY FS_Singleton
  <2>3. Cardinality(S) <= Cardinality({0})
    BY <2>1, <2>2, FS_Subset
  <2> QED
    BY <1>3, <2>2, <2>3
<1> QED
  BY <1>3, <1>4, <1>5 DEF InputCount

\* assess_fragmentation_risk never answers MEDIUM: whatever the thresholds, a
\* payment with enough inputs for it is more than the largest coin, which is HIGH.
THEOREM NeverMedium ==
    ASSUME NEW coins, IsSnapshot(coins), NEW amount \in Nat
    PROVE  FragmentationRisk(amount, coins) \in {"UNKNOWN", "HIGH", "LOW"}
<1>1. CASE coins = <<>> \/ amount = 0
  BY <1>1 DEF FragmentationRisk
<1>2. CASE coins # <<>> /\ amount # 0
  <2>1. /\ InputCount(amount, coins) \in Nat
        /\ InputCount(amount, coins) > 1 <=> amount > coins[1]
    BY <1>2, OneInput
  <2>2. InputCount(amount, coins) > SomeInputs => InputCount(amount, coins) > 1
    BY <2>1, PolicyAssumption
  <2> QED
    BY <2>1, <2>2 DEF FragmentationRisk, HighRisk
<1> QED
  BY <1>1, <1>2

\* One transaction is recommended for what one coin pays.
LEMMA SingleIsOneCoin ==
    ASSUME NEW coins, IsSnapshot(coins), NEW amount \in Nat, NEW allowed \in BOOLEAN,
           ExecutionMode(allowed, amount, coins) = "single"
    PROVE  coins # <<>> /\ amount <= coins[1] /\ amount <= TargetSingle
<1>1. amount <= TargetSingle /\ FragmentationRisk(amount, coins) = "LOW"
  BY DEF ExecutionMode
<1>2. coins # <<>> /\ ~ HighRisk(amount, coins)
  BY <1>1 DEF FragmentationRisk
<1>3. ~ (amount > coins[1])
  BY <1>2, OneInput DEF HighRisk
<1> QED
  BY <1>1, <1>2, <1>3, CoinFacts

\* The recommended chunks are no larger than the largest coin.
LEMMA ChunkSizeFacts ==
    ASSUME NEW coins, IsSnapshot(coins)
    PROVE  ChunkSize(coins) \in Nat \ {0} /\ (coins # <<>> => ChunkSize(coins) <= coins[1])
  BY CoinFacts, PolicyAssumption DEF ChunkSize

\* The chunks of one amount are enough for it.
LEMMA EnoughOfOne ==
    ASSUME NEW total \in Nat, NEW size \in Nat \ {0}
    PROVE  /\ ChunkCount(total, size) \in Nat
           /\ total <= size * ChunkCount(total, size)
<1>1. CASE size > total
  BY <1>1 DEF ChunkCount
<1>2. CASE ~ (size > total)
  <2> DEFINE x == total + size - 1
             q == x \div size
  <2>1. x \in Nat /\ q \in Nat
    BY <1>2
  <2>2. x = size * q + (x % size) /\ x % size \in 0 .. size - 1
    BY <2>1
  <2>3. ChunkCount(total, size) = q
    BY <1>2 DEF ChunkCount
  <2>4. PICK y, z : y = size * q /\ z = x % size
    OBVIOUS
  <2>5. y \in Nat /\ z \in 0 .. size - 1 /\ x = y + z
    BY <2>1, <2>2, <2>4
  <2> HIDE DEF q
  <2>6. total <= y
    BY <2>5
  <2> QED
    BY <2>1, <2>3, <2>4, <2>6
<1> QED
  BY <1>1, <1>2

\* The estimated chunks are enough for all rows.
LEMMA EnoughChunks ==
    ASSUME NEW R, IsFiniteSet(DOMAIN R), \A n \in DOMAIN R : R[n].amount \in Nat,
           NEW size \in Nat \ {0}
    PROVE  RowTotal(R) <= EstimatedChunks(R, size) * size
<1> DEFINE S == DOMAIN R
           f == [n \in S |-> R[n].amount]
           g == [n \in S |-> ChunkCount(R[n].amount, size)]
           h == [n \in S |-> size * g[n]]
<1>1. \A n \in S : f[n] \in Int /\ g[n] \in Int /\ h[n] \in Int /\ f[n] <= h[n]
  BY EnoughOfOne
<1>2. \A n \in S : h[n] = size * g[n]
  OBVIOUS
<1>3. RowTotal(R) = SumOver(f, S) /\ EstimatedChunks(R, size) = SumOver(g, S)
  BY DEF RowTotal, EstimatedChunks
<1> HIDE DEF f, g, h
<1>4. SumOver(f, S) <= SumOver(h, S)
  BY <1>1, SumOverMonotone
<1>5. SumOver(h, S) = size * SumOver(g, S) /\ SumOver(g, S) \in Int
  BY <1>1, <1>2, SumOverScale, SumOverType
<1> QED
  BY <1>3, <1>4, <1>5

-----------------------------------------------------------------------------
(* Rehearsals.                                                             *)

\* Who works out an advice to allow a plan has seen it approved.
AdvisorsHold ==
    \A v \in Advisors : advising[v].allowed =>
        advising[v].plan \in Writers /\ status[advising[v].plan] \in {"approved", "cancelled"}

\* A test execution, recorded or on its way, is a copy of its plan, and one that
\* is not recorded names none.
TrialsCopy ==
    \A t \in Trials :
        /\ trials[t].status = "none" => trials[t].plan = NoPlan
        /\ trials[t].status # "none" => Copies(trials[t])
        /\ trying[t] # NoCheck => (trying[t].status = "sent" /\ Copies(trying[t]))

RehearsalInv ==
    RehearsalTypeOK /\ AdvisorsHold /\ AdviceHolds /\ TrialsCopy /\ OneTrialPerKey

LEMMA NoCheckFacts ==
    NoCheck.status = "none" /\ NoCheck.plan = NoPlan /\ IsTrial(NoCheck)
  BY NoRowsTyped DEF NoCheck, Check, IsTrial

LEMMA InitRehearsal == RehearsalInit => RehearsalInv
<1> SUFFICES ASSUME RehearsalInit PROVE RehearsalInv
  OBVIOUS
<1>1. \A t \in Trials : trials[t] = NoCheck /\ trying[t] = NoCheck
  BY DEF RehearsalInit
<1>2. \A v \in Advisors : ~ advising[v].allowed
  BY DEF RehearsalInit, NoAdvice
<1>3. RehearsalTypeOK
  BY <1>1, NoCheckFacts DEF RehearsalInit, RehearsalTypeOK, NoAdvice
<1>4. AdviceHolds
  BY DEF RehearsalInit, AdviceHolds
<1> QED
  BY <1>1, <1>2, <1>3, <1>4, NoCheckFacts
     DEF RehearsalInv, AdvisorsHold, TrialsCopy, OneTrialPerKey

\* The commands of PayoutPlanning keep it: plans only move on.
LEMMA PlansKeepRehearsal ==
    ASSUME PlanningInv, RehearsalInv, [Next]_vars, UNCHANGED rehearsal
    PROVE  RehearsalInv'
<1> USE DEF rehearsal
<1>1. TypeOK /\ PlannerInv /\ PlansStep
  BY NextPlansStep DEF PlanningInv
<1>2. UNCHANGED args
  BY DEF Next, Write, Review, vars, planVars, writerVars, commandVars, CreateCorrection,
         CancelCorrection, RegisterAddress, LoadCredits, ReadAddress, DecidePreview,
         InsertHeader, ApplyCorrection, WriteRows, CrashWriter, BeginApprove, CompareAddress,
         ApprovePlan, CancelPlan, BeginCheck, RecordCheck
<1>3. \A p \in Writers : status[p] \in {"approved", "cancelled"} =>
         status'[p] \in {"approved", "cancelled"}
  BY <1>1 DEF PlansStep, LaterStatus
<1>4. RehearsalTypeOK' /\ OneTrialPerKey'
  BY DEF RehearsalInv, RehearsalTypeOK, IsTrial, OneTrialPerKey
<1>5. AdvisorsHold' /\ AdviceHolds'
  BY <1>3 DEF RehearsalInv, AdvisorsHold, AdviceHolds
<1>6. TrialsCopy'
  BY <1>1, <1>2, CopiesKept DEF RehearsalInv, TrialsCopy
<1> QED
  BY <1>4, <1>5, <1>6 DEF RehearsalInv

\* The no-send preflight keeps it.
LEMMA AdviceKeepsRehearsal ==
    ASSUME PlanningInv, RehearsalInv, NEW v \in Advisors, Advise(v)
    PROVE  RehearsalInv'
<1> USE DEF vars, planVars, writerVars, commandVars
<1>1. /\ UNCHANGED <<status, rows, args, preview, trials, trying>>
      /\ TypeOK
  BY DEF Advise, BeginAdvise, RecordAdvice, AdviseAddress, PlanningInv
<1>2. /\ OneTrialPerKey'
      /\ TrialsCopy'
  BY <1>1 DEF RehearsalInv, TrialsCopy, OneTrialPerKey, Copies, PlanRun
<1>3. ASSUME UNCHANGED advice, NEW r, advising' = [advising EXCEPT ![v] = r],
             r \in [plan : Writers \cup {NoPlan}, allowed : BOOLEAN, left : SUBSET Nodes],
             r.allowed => r.plan \in Writers /\ status[r.plan] \in {"approved", "cancelled"}
      PROVE  RehearsalInv'
  <2>1. RehearsalTypeOK'
    BY <1>1, <1>3 DEF RehearsalInv, RehearsalTypeOK, IsTrial
  <2>2. advising'[v] = r /\ \A u \in Advisors \ {v} : advising'[u] = advising[u]
    BY <1>3 DEF RehearsalInv, RehearsalTypeOK
  <2>3. AdvisorsHold' /\ AdviceHolds'
    BY <1>1, <1>3, <2>2 DEF RehearsalInv, AdvisorsHold, AdviceHolds
  <2> QED
    BY <1>2, <2>1, <2>3 DEF RehearsalInv
<1>4. CASE BeginAdvise(v)
  <2>1. PICK p \in Writers, limit \in Limits :
           advising' = [advising EXCEPT ![v] =
              [plan |-> p,
               allowed |-> status[p] = "approved" /\ PlanTotal(p) <= limit,
               left |-> DOMAIN rows[p]]]
    BY <1>4 DEF BeginAdvise
  <2>2. DOMAIN rows[p] \subseteq Nodes
    BY <1>1 DEF TypeOK, IsPlanRows, IsRows
  <2> DEFINE b == status[p] = "approved" /\ PlanTotal(p) <= limit
             r == [plan |-> p, allowed |-> b, left |-> DOMAIN rows[p]]
  <2>3. b \in BOOLEAN /\ (b => status[p] = "approved")
    OBVIOUS
  <2> HIDE DEF b
  <2>4. /\ r \in [plan : Writers \cup {NoPlan}, allowed : BOOLEAN, left : SUBSET Nodes]
        /\ r.allowed => r.plan \in Writers /\ status[r.plan] \in {"approved", "cancelled"}
    BY <2>2, <2>3
  <2>5. advising' = [advising EXCEPT ![v] = r] /\ UNCHANGED advice
    BY <1>4, <2>1 DEF BeginAdvise, b
  <2> HIDE DEF r
  <2> QED
    BY <1>3, <2>4, <2>5
<1>5. ASSUME NEW n \in Nodes, AdviseAddress(v, n)
      PROVE  RehearsalInv'
  <2> DEFINE a == advising[v]
             b == a.allowed /\ registry[n] = rows[a.plan][n].address
             r == [plan |-> a.plan, allowed |-> b, left |-> a.left \ {n}]
  <2>1. a \in [plan : Writers \cup {NoPlan}, allowed : BOOLEAN, left : SUBSET Nodes]
    BY DEF RehearsalInv, RehearsalTypeOK
  <2>2. b \in BOOLEAN /\ (b => a.allowed)
    BY <2>1
  <2>3. advising' = [advising EXCEPT ![v] = r] /\ UNCHANGED advice
    BY <1>5 DEF AdviseAddress
  <2>4. a.allowed => a.plan \in Writers /\ status[a.plan] \in {"approved", "cancelled"}
    BY DEF RehearsalInv, AdvisorsHold
  <2> HIDE DEF a, b
  <2>5. /\ r \in [plan : Writers \cup {NoPlan}, allowed : BOOLEAN, left : SUBSET Nodes]
        /\ r.allowed => r.plan \in Writers /\ status[r.plan] \in {"approved", "cancelled"}
    BY <2>1, <2>2, <2>4
  <2> HIDE DEF r
  <2> QED
    BY <1>3, <2>3, <2>5
<1>6. CASE RecordAdvice(v)
  <2>1. NoAdvice \in [plan : Writers \cup {NoPlan}, allowed : BOOLEAN, left : SUBSET Nodes]
        /\ ~ NoAdvice.allowed
    BY DEF NoAdvice
  <2>2. PICK p \in Writers, a \in {"allowed", "refused"} :
           /\ advice' = [advice EXCEPT ![p] = a]
           /\ a = "allowed" => status[p] \in {"approved", "cancelled"}
    <3>1. advising[v].plan \in Writers
      BY <1>6 DEF RecordAdvice, RehearsalInv, RehearsalTypeOK
    <3>2. advice' = [advice EXCEPT ![advising[v].plan] =
                        IF advising[v].allowed THEN "allowed" ELSE "refused"]
      BY <1>6 DEF RecordAdvice
    <3> QED
      BY <3>1, <3>2 DEF RehearsalInv, AdvisorsHold
  <2>3. advising' = [advising EXCEPT ![v] = NoAdvice]
    BY <1>6 DEF RecordAdvice
  <2> HIDE DEF NoAdvice
  <2>4. RehearsalTypeOK'
    BY <1>1, <2>1, <2>2, <2>3 DEF RehearsalInv, RehearsalTypeOK, IsTrial
  <2>5. AdvisorsHold'
    BY <1>1, <2>1, <2>3 DEF RehearsalInv, RehearsalTypeOK, AdvisorsHold
  <2>6. AdviceHolds'
    BY <1>1, <2>2 DEF RehearsalInv, RehearsalTypeOK, AdviceHolds
  <2> QED
    BY <1>2, <2>4, <2>5, <2>6 DEF RehearsalInv
<1> QED
  BY <1>4, <1>5, <1>6 DEF Advise

\* The test executor keeps it.
LEMMA TrialKeepsRehearsal ==
    ASSUME PlanningInv, RehearsalInv, NEW t \in Trials, Try(t)
    PROVE  RehearsalInv'
<1> USE DEF vars, planVars, writerVars, commandVars
<1>1. /\ UNCHANGED <<status, rows, args, preview, advice, advising>>
      /\ TypeOK /\ PlannerInv
  BY DEF Try, BeginTry, RecordTry, ConfirmTry, PlanningInv
<1>2. AdvisorsHold' /\ AdviceHolds'
  BY <1>1 DEF RehearsalInv, AdvisorsHold, AdviceHolds
<1>3. \A r : Copies(r) => Copies(r)'
  BY <1>1 DEF Copies, PlanRun
<1>4. CASE BeginTry(t)
  <2>1. PICK p \in Writers, k \in Keys :
           /\ MayTry(p)
           /\ trying' = [trying EXCEPT ![t] = Check("sent", p, k, CheckRows(p))]
           /\ UNCHANGED trials
    BY <1>4 DEF BeginTry, Trial
  <2> DEFINE r == Check("sent", p, k, CheckRows(p))
  <2>2. Copies(r)
    BY <1>1, <2>1, ApprovedIsCopied DEF MayTry
  <2>3. IsRows(CheckRows(p), [address : Addresses, amount : Nat])
    BY <1>1 DEF TypeOK, CheckRows, ApprovedRows, IsPlanRows, IsRows
  <2>4. IsTrial(r) /\ r.status = "sent"
    BY <2>3 DEF IsTrial, Check
  <2> HIDE DEF r
  <2>5. trying' = [trying EXCEPT ![t] = r]
    BY <2>1 DEF r
  <2>6. RehearsalTypeOK'
    BY <1>1, <2>1, <2>4, <2>5 DEF RehearsalInv, RehearsalTypeOK, IsTrial
  <2>7. TrialsCopy'
    BY <1>3, <2>1, <2>2, <2>4, <2>5 DEF RehearsalInv, RehearsalTypeOK, TrialsCopy
  <2>8. OneTrialPerKey'
    BY <2>1 DEF RehearsalInv, OneTrialPerKey
  <2> QED
    BY <1>2, <2>6, <2>7, <2>8 DEF RehearsalInv
<1>5. CASE RecordTry(t)
  <2>1. /\ trying[t] # NoCheck /\ trying'[t] = NoCheck
        /\ \A u \in Trials \ {t} : trying'[u] = trying[u] /\ trials'[u] = trials[u]
        /\ \/ trials' = trials
           \/ ~ Tried(trying[t].plan, trying[t].key) /\ trials'[t] = trying[t]
        /\ DOMAIN trials' = Trials /\ DOMAIN trying' = Trials
    BY <1>5 DEF RecordTry, RehearsalInv, RehearsalTypeOK
  <2>2. trying[t].status = "sent" /\ Copies(trying[t]) /\ trying[t].plan \in Writers
    BY <2>1 DEF RehearsalInv, TrialsCopy, Copies
  <2>3. RehearsalTypeOK'
    BY <1>1, <2>1, NoCheckFacts DEF RehearsalInv, RehearsalTypeOK, IsTrial
  <2>4. TrialsCopy'
    BY <1>3, <2>1, <2>2 DEF RehearsalInv, TrialsCopy
  <2>5. OneTrialPerKey'
    <3>1. CASE trials' = trials
      BY <3>1 DEF RehearsalInv, OneTrialPerKey
    <3>2. CASE trials'[t] = trying[t] /\ ~ Tried(trying[t].plan, trying[t].key)
      BY <2>1, <2>2, <3>2 DEF RehearsalInv, OneTrialPerKey, Tried
    <3> QED
      BY <2>1, <3>1, <3>2
  <2> QED
    BY <1>2, <2>3, <2>4, <2>5 DEF RehearsalInv
<1>6. CASE ConfirmTry(t)
  <2>1. /\ trials[t].status = "sent"
        /\ trials' = [trials EXCEPT ![t].status = "confirmed"]
        /\ UNCHANGED trying
    BY <1>6 DEF ConfirmTry
  <2> DEFINE r == [trials[t] EXCEPT !.status = "confirmed"]
  <2>2. /\ trials'[t] = r /\ DOMAIN trials' = Trials
        /\ \A u \in Trials \ {t} : trials'[u] = trials[u]
    BY <2>1 DEF RehearsalInv, RehearsalTypeOK
  <2>3. r.status = "confirmed" /\ r.plan = trials[t].plan /\ r.key = trials[t].key
        /\ r.rows = trials[t].rows
    BY <2>1 DEF RehearsalInv
  <2> HIDE DEF r
  <2>4. RehearsalTypeOK'
    BY <1>1, <2>1, <2>2, <2>3 DEF RehearsalInv, RehearsalTypeOK, IsTrial
  <2>5. Copies(r)
    <3>1. Copies(trials[t])
      BY <2>1 DEF RehearsalInv, TrialsCopy
    <3> QED
      BY <2>3, <3>1 DEF Copies
  <2>6. TrialsCopy'
    BY <1>3, <2>1, <2>2, <2>3, <2>5 DEF RehearsalInv, TrialsCopy
  <2>7. OneTrialPerKey'
    BY <2>1, <2>2, <2>3 DEF RehearsalInv, OneTrialPerKey
  <2> QED
    BY <1>2, <2>4, <2>6, <2>7 DEF RehearsalInv
<1> QED
  BY <1>4, <1>5, <1>6 DEF Try

-----------------------------------------------------------------------------

\* RehearsalInv is an invariant, on top of that of the planning.
THEOREM RehearsalInvariant == RehearsalSpec => [](PlanningInv /\ RehearsalInv)
<1>1. RehearsalInit => PlanningInv /\ RehearsalInv
  BY InitRehearsal, InitTypeOK, InitPlannerInv, InitChecksInv DEF RehearsalInit, PlanningInv
<1>2. PlanningInv /\ RehearsalInv /\ [RehearsalNext]_<<vars, rehearsal>>
         => (PlanningInv /\ RehearsalInv)'
  <2> SUFFICES ASSUME PlanningInv, RehearsalInv, [RehearsalNext]_<<vars, rehearsal>>
               PROVE  PlanningInv' /\ RehearsalInv'
    OBVIOUS
  <2>1. [Next]_vars
    BY DEF RehearsalNext, Advise, BeginAdvise, RecordAdvice, AdviseAddress,
           Try, BeginTry, RecordTry, ConfirmTry
  <2>2. PlanningInv'
    BY <2>1, NextTypeOK, NextPlannerInv, NextChecksInv DEF PlanningInv, PlannerInv
  <2>3. CASE UNCHANGED rehearsal
    BY <2>1, <2>2, <2>3, PlansKeepRehearsal
  <2>4. ASSUME NEW v \in Advisors, Advise(v) PROVE RehearsalInv'
    BY <2>4, AdviceKeepsRehearsal
  <2>5. ASSUME NEW t \in Trials, Try(t) PROVE RehearsalInv'
    BY <2>5, TrialKeepsRehearsal
  <2> QED
    BY <2>2, <2>3, <2>4, <2>5 DEF RehearsalNext
<1> QED
  BY <1>1, <1>2, PTL DEF RehearsalSpec

\* The commands of PayoutPlanning do not see that anything runs beside them.
LEMMA RehearsalsStutter == RehearsalSpec => Spec
<1>1. RehearsalInit => Init
  BY DEF RehearsalInit
<1>2. [RehearsalNext]_<<vars, rehearsal>> => [Next]_vars
  BY DEF RehearsalNext, Advise, BeginAdvise, RecordAdvice, AdviseAddress,
         Try, BeginTry, RecordTry, ConfirmTry
<1> QED
  BY <1>1, <1>2, PTL DEF RehearsalSpec, Spec

\* The copies of a plan are equal.
LEMMA CopiesEqual ==
    ASSUME NEW r, NEW q, Copies(r), Copies(q), r.plan = q.plan,
           IsRows(r.rows, [address : Addresses, amount : Nat]),
           IsRows(q.rows, [address : Addresses, amount : Nat])
    PROVE  r.rows = q.rows
<1> DEFINE R == r.rows
           Q == q.rows
<1>1. /\ DOMAIN R = DOMAIN Q
      /\ \A n \in DOMAIN R : R[n].address = Q[n].address /\ R[n].amount = Q[n].amount
  BY DEF Copies
<1>2. /\ R \in [DOMAIN R -> [address : Addresses, amount : Nat]]
      /\ Q \in [DOMAIN R -> [address : Addresses, amount : Nat]]
  BY <1>1 DEF IsRows
<1> HIDE DEF R, Q
<1>3. \A n \in DOMAIN R : R[n] = Q[n]
  BY <1>1, <1>2
<1>4. R = Q
  BY <1>2, <1>3
<1> QED
  BY <1>4 DEF R, Q

\* A copy has the total of its plan.
LEMMA CopyTotal ==
    ASSUME NEW r, Copies(r), PlanIsWhole
    PROVE  RowTotal(r.rows) = PlanTotal(r.plan)
<1> DEFINE p == r.plan
           R == r.rows
<1>1. /\ p \in Writers
      /\ DOMAIN R = DOMAIN rows[p] /\ DOMAIN R # {}
      /\ \A n \in DOMAIN R : R[n].amount = rows[p][n].amount
  BY DEF Copies
<1>2. rows[p] # NoRows
  BY <1>1, NoRowsTyped
<1> HIDE DEF p, R
<1>3. RowTotal(R) = RowTotal(rows[p])
  BY <1>1, SameTotal
<1>4. RowTotal(rows[p]) = PlanTotal(p)
  BY <1>1, <1>2 DEF PlanIsWhole
<1> QED
  BY <1>3, <1>4 DEF p, R

\* Test executions try what would be paid.
LEMMA TrialsAreTrue ==
    ASSUME PlanningInv, RehearsalInv, PlanIsWhole
    PROVE  TrialsTrue
<1> SUFFICES ASSUME NEW t \in Trials, trials[t].status # "none"
             PROVE  LET p == trials[t].plan
                        R == trials[t].rows
                    IN /\ status[p] \in {"approved", "cancelled"}
                       /\ DOMAIN R = DOMAIN Credits[PlanRun(p)]
                       /\ RowTotal(R) = PlanTotal(p)
                       /\ \A f \in Checks :
                             checks[f].status = "passed" /\ checks[f].plan = p
                                 => checks[f].rows = R
  BY DEF TrialsTrue
<1>1. PICK r : r = trials[t]
  OBVIOUS
<1>2. Copies(r) /\ IsRows(r.rows, [address : Addresses, amount : Nat])
  BY <1>1 DEF RehearsalInv, TrialsCopy, RehearsalTypeOK, IsTrial
<1>3. status[r.plan] \in {"approved", "cancelled"} /\ DOMAIN r.rows = DOMAIN Credits[PlanRun(r.plan)]
  BY <1>2 DEF Copies
<1>4. RowTotal(r.rows) = PlanTotal(r.plan)
  BY <1>2, CopyTotal
<1>5. ASSUME NEW f \in Checks, checks[f].status = "passed", checks[f].plan = r.plan
      PROVE  checks[f].rows = r.rows
  <2>1. Copies(checks[f]) /\ IsRows(checks[f].rows, [address : Addresses, amount : Nat])
    BY <1>5 DEF PlanningInv, ChecksInv, ChecksPayable, Payable, TypeOK, IsCheck
  <2> QED
    BY <1>2, <1>5, <2>1, CopiesEqual
<1> QED
  BY <1>1, <1>3, <1>4, <1>5, Zenon

\* A preview recommends what works.
LEMMA PreviewsAreGood ==
    ASSUME PlanningInv, PlanIsWhole
    PROVE  PreviewsHold
<1> SUFFICES ASSUME NEW p \in Writers, NEW w \in Wallets, NEW o \in Options,
                    Preview(p, w, o).mode # "halt"
             PROVE  LET v == Preview(p, w, o)
                        total == RowTotal(CheckRows(p))
                    IN /\ total + (IF o.override THEN 0 ELSE Reserve(w.trusted, o)) <= w.trusted
                       /\ v.mode = "single" => w.coins # <<>> /\ total <= w.coins[1]
                       /\ w.coins # <<>> => v.size <= w.coins[1]
                       /\ total <= v.chunks * v.size
  BY DEF PreviewsHold
<1> DEFINE limit == SpendLimit(w.trusted, o)
           mode == ExecutionMode(CheckPasses(p, limit), PlanTotal(p), w.coins)
           size == ChunkSize(w.coins)
           R == CheckRows(p)
<1>1. w.trusted \in Nat /\ IsSnapshot(w.coins) /\ o \in Option
  BY RehearsalAssumption DEF IsWallet
<1>2. /\ Preview(p, w, o).mode = mode
      /\ Preview(p, w, o).size = size
      /\ Preview(p, w, o).chunks = EstimatedChunks(R, size)
  BY DEF Preview
<1>3. CheckPasses(p, limit)
  BY <1>2 DEF ExecutionMode
<1>4. status[p] = "approved" /\ DOMAIN rows[p] # {} /\ PlanTotal(p) > 0 /\ PlanTotal(p) <= limit
  BY <1>3 DEF CheckPasses, ApprovedRows
<1>5. Copies(Check("passed", p, NoKey, R))
  BY <1>4, ApprovedIsCopied DEF PlanningInv
<1>6. RowTotal(R) = PlanTotal(p)
  <2>1. PICK r : r = Check("passed", p, NoKey, R)
    OBVIOUS
  <2>2. r.plan = p /\ r.rows = R
    BY <2>1 DEF Check
  <2>3. RowTotal(r.rows) = PlanTotal(r.plan)
    BY <1>5, <2>1, CopyTotal
  <2> HIDE DEF R
  <2> QED
    BY <2>2, <2>3
<1>7. PlanTotal(p) \in Nat
  <2>1. pc[p] = "written"
    BY <1>4, NoRowsTyped DEF PlanningInv, PlannerInv, Stages
  <2>2. PreviewRight(p)
    BY DEF PlanningInv, PlannerInv, PreviewsRight
  <2> QED
    BY <2>2, PlanTotalType DEF PlanningInv
<1>8. PlanTotal(p) + (IF o.override THEN 0 ELSE Reserve(w.trusted, o)) <= w.trusted
  <2> HIDE DEF limit
  <2>1. /\ Reserve(w.trusted, o) \in Nat
        /\ limit \in 0 .. w.trusted
        /\ ~ o.override => limit = 0 \/ limit + Reserve(w.trusted, o) <= w.trusted
    BY <1>1, LimitFacts DEF limit
  <2>2. o.override \in BOOLEAN
    BY <1>1 DEF Option
  <2> QED
    BY <1>1, <1>4, <1>7, <2>1, <2>2
<1>9. mode = "single" => w.coins # <<>> /\ PlanTotal(p) <= w.coins[1]
  <2>1. CheckPasses(p, limit) = TRUE
    BY <1>3, Zenon
  <2> QED
    BY <1>1, <1>7, <2>1, SingleIsOneCoin
<1>10. size \in Nat \ {0} /\ (w.coins # <<>> => size <= w.coins[1])
  BY <1>1, ChunkSizeFacts
<1>11. RowTotal(R) <= EstimatedChunks(R, size) * size
  <2>1. IsFiniteSet(DOMAIN R)
    <3>1. DOMAIN R = DOMAIN Credits[PlanRun(p)]
      <4>1. PICK r : r = Check("passed", p, NoKey, R)
        OBVIOUS
      <4>2. r.plan = p /\ r.rows = R
        BY <4>1 DEF Check
      <4> HIDE DEF R
      <4> QED
        BY <1>5, <4>1, <4>2 DEF Copies
    <3>2. PlanRun(p) \in CreditRuns
      BY ArgsFacts DEF PlanningInv, PlanRun
    <3> QED
      BY <3>1, <3>2, CreditsAssumption
  <2>2. \A n \in DOMAIN R : R[n].amount \in Nat
    BY DEF PlanningInv, TypeOK, CheckRows, ApprovedRows, IsPlanRows, IsRows
  <2> HIDE DEF R, size
  <2> QED
    BY <1>10, <2>1, <2>2, EnoughChunks
<1> QED
  BY <1>2, <1>6, <1>8, <1>9, <1>10, <1>11, Zenon

\* Whatever an operator runs before a payout tells the truth about it, beside any
\* other command and whatever has become of the plan.
THEOREM RehearsalsAreSound == RehearsalSpec => []RehearsalsSound
<1>1. PlanningInv /\ RehearsalInv /\ PlanIsWhole => RehearsalsSound
  BY TrialsAreTrue, PreviewsAreGood
     DEF RehearsalsSound, RehearsalInv, PlanningInv, ChecksInv, ChecksSound,
         ChecksPayable, Payable, Copies, PassedCheckPayable
<1> QED
  BY <1>1, RehearsalInvariant, RehearsalsStutter, PlansAreWhole, PTL
=============================================================================
