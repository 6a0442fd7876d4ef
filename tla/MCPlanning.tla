------------------------------ MODULE MCPlanning ------------------------------
(* Instances of PayoutPlanning for TLC.                                      *)
EXTENDS PayoutPlanning

CONSTANTS w1, w2, c1, c2, n1, n2, x1

\* Two mature credit runs: one pays both nodes, the other only the first.
TwoRuns == [c \in {c1, c2} |-> IF c = c1 THEN [n \in {n1, n2} |-> IF n = n1 THEN 4 ELSE 2]
                               ELSE [n \in {n1} |-> 3]]
OneRun == [c \in {c1} |-> [n \in {n1, n2} |-> IF n = n1 THEN 4 ELSE 2]]

\* A correction that takes the whole second credit of its node, any run.
OneCorrection == [x \in {x1} |-> [node |-> n1, amount |-> 3, run |-> AnyRun]]

\* Both runs, with and without the correction; a cap that only the corrected
\* first run meets.
AllRequests == [run : {c1, c2}, correction : {x1, NoCorrection}, cap : {4}]
PlainRequests == [run : {c1}, correction : {NoCorrection}, cap : {6}]

\* A balance that covers neither, the corrected plan, or every plan.
SomeLimits == {2, 6}
=============================================================================
