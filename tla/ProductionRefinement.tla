------------------------ MODULE ProductionRefinement ------------------------
(***************************************************************************)
(* The single executor implements PaymentOrder: the execution it committed *)
(* for a plan and key is the status of the order, and its broadcasts are   *)
(* the payments.                                                           *)
(***************************************************************************)
EXTENDS ProductionExecution

Orders == Plans \X Keys

OrderOf(r) == <<args[r].plan, args[r].key>>

SingleRunsOf(o) == {r \in Runs : args[r].kind = Single /\ OrderOf(r) = o}

\* UNIQUE (payout_plan_id, idempotency_key): at most one run has an execution.
orderStatus ==
    [o \in Orders |->
        LET inserted == {r \in SingleRunsOf(o) : executions[r].status # "none"}
        IN IF inserted = {} THEN "none"
           ELSE executions[CHOOSE r \in inserted : TRUE].status]

orderPaid ==
    [o \in Orders |-> [n \in RowIds(o[1]) |->
        Cardinality({t \in DOMAIN ledger :
                        ledger[t].run \in SingleRunsOf(o) /\ n \in RowsPaidBy(t)})]]

Order == INSTANCE PaymentOrder WITH
            RowsOf <- [o \in Orders |-> RowIds(o[1])],
            status <- orderStatus,
            paid   <- orderPaid

\* Every behaviour of the executors, crashes and lost answers included, is one
\* of PaymentOrder: duplicate invocations and retries are stuttering.
ImplementsPaymentOrder == Order!Spec
=============================================================================
