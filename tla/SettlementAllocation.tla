------------------------ MODULE SettlementAllocation ------------------------
(***************************************************************************)
(* The arithmetic of the payout application's settlement: how much work a  *)
(* miner did in a window, seen through the samples of a counter that may   *)
(* restart, and how a reward is shared out in whole satoshis.              *)
(*                                                                         *)
(* Users are naturals, in the order of their names.  A user has one        *)
(* channel, whose counter is sampled together with everybody else's; the   *)
(* count of shares, which the code falls back on when no channel reports   *)
(* work, is left out.                                                      *)
(***************************************************************************)
EXTENDS Sums, Sequences

\* The work between two matured edges, for a settlement that runs at "now".
MaturedWindow(now, interval, maturity) ==
    [start |-> now - maturity - interval, end |-> now - maturity]

InWindow(t, w) == w.start <= t /\ t < w.end

\* The samples a window is measured by: those taken in it, and the last one
\* taken before it.  A cycle reads the clock and then polls, so the sample of
\* a cycle that began at t was taken after t and before t + 1.
Measuring(samples, w) ==
    LET before == {t \in samples : t < w.start}
    IN  {t \in samples : InWindow(t, w)} \union (IF before = {} THEN {} ELSE {Max(before)})

\* How much the counter has risen at t since the sample before; a decrease is a
\* restart, which neither adds nor subtracts.
Rise(counter, times, t) ==
    LET before == {s \in times : s < t}
        last   == Max(before)
    IN  IF before = {} \/ counter[t] < counter[last] THEN 0 ELSE counter[t] - counter[last]

CounterDelta(counter, times) ==
    SumOver([t \in times |-> Rise(counter, times, t)], times)

\* The work of every user in window w, from the samples taken at those times.
Contributions(counter, samples, w) ==
    [u \in DOMAIN counter |-> CounterDelta(counter[u], Measuring(samples, w))]

\* Every user's share, rounded down to a satoshi; what the rounding leaves goes
\* to the user with the most work, the last by name among equals.
Allocation(basis, distributable) ==
    LET total == SumOver(basis, DOMAIN basis)
        floor == [u \in DOMAIN basis |-> (distributable * basis[u]) \div total]
        left  == distributable - SumOver(floor, DOMAIN basis)
        top   == CHOOSE u \in DOMAIN basis : \A v \in DOMAIN basis :
                     basis[v] < basis[u] \/ (basis[v] = basis[u] /\ v <= u)
    IN  IF total = 0 \/ distributable = 0
        THEN [u \in DOMAIN basis |-> 0]
        ELSE [floor EXCEPT ![top] = @ + left]
=============================================================================
