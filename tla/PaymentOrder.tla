---------------------------- MODULE PaymentOrder ----------------------------
(***************************************************************************)
(* What the single executor promises for one payment order, that is, one   *)
(* payout plan under one idempotency key, however many processes work on   *)
(* it: the order is accepted once, while it is a draft each of its rows is *)
(* paid at most once, it is completed only when every row has been paid,   *)
(* and a closed order pays nothing more.                                   *)
(***************************************************************************)
EXTENDS Naturals

CONSTANTS Orders, RowsOf        \* orders and the plan rows of each

VARIABLES status, paid          \* status, and how often each row was paid

vars == <<status, paid>>

Init ==
    /\ status = [o \in Orders |-> "none"]
    /\ paid = [o \in Orders |-> [n \in RowsOf[o] |-> 0]]

Move(o, from, to) ==
    /\ status[o] = from
    /\ status' = [status EXCEPT ![o] = to]
    /\ UNCHANGED paid

Accept(o) == Move(o, "none", "draft")

Refuse(o) == Move(o, "none", "refused")

\* Pay some rows that have not been paid, together.
Pay(o) ==
    /\ status[o] = "draft"
    /\ \E S \in (SUBSET RowsOf[o]) \ {{}} :
        /\ \A n \in S : paid[o][n] = 0
        /\ paid' = [paid EXCEPT ![o] = [n \in RowsOf[o] |->
                                          IF n \in S THEN 1 ELSE paid[o][n]]]
    /\ UNCHANGED status

Complete(o) ==
    /\ \A n \in RowsOf[o] : paid[o][n] = 1
    /\ Move(o, "draft", "sent")

Abandon(o) == Move(o, "draft", "refused")

Confirm(o) == Move(o, "sent", "confirmed")

Next ==
    \E o \in Orders : \/ Accept(o) \/ Refuse(o) \/ Pay(o)
                      \/ Complete(o) \/ Abandon(o) \/ Confirm(o)

Spec == Init /\ [][Next]_vars
=============================================================================
