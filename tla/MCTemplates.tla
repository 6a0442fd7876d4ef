----------------------------- MODULE MCTemplates -----------------------------
(* An instance of TemplateProvider for TLC.                                  *)
EXTENDS TemplateProvider

CONSTANTS a, b

\* <<a>> brings the fee threshold over none, <<a, b>> does not over <<a>> and
\* has more transactions than the cap.
ThreeMempools == {<<>>, <<a>>, <<a, b>>}
Fees == [tx \in {a, b} |-> IF tx = b THEN 1 ELSE 2]
Ones == [tx \in {a, b} |-> 1]

\* The one leaves room for two transactions, the other for one sigop.
TwoReserves == {[size |-> 0, sigops |-> 0], [size |-> 0, sigops |-> 1]}
=============================================================================
