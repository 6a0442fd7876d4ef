----------------------------- MODULE MCRehearsal -----------------------------
(* Instances of PayoutRehearsal for TLC.                                     *)
EXTENDS PayoutRehearsal, MCPlanning, TLC

\* Balances of 12 and of 4; coins that pay a plan of 6 alone, two at a time or
\* only in many pieces, and none listed.
SomeWallets ==
    {[trusted |-> 12, coins |-> <<7, 5>>], [trusted |-> 12, coins |-> <<4, 4, 4>>],
     [trusted |-> 4, coins |-> <<2, 1, 1>>], [trusted |-> 12, coins |-> <<>>]}

\* The defaults (one half), a fixed reserve, and an override of both.
Half == [mode |-> "percent", percent |-> 50, amount |-> 0, most |-> 50, override |-> FALSE]
SomeOptions ==
    {Half, [Half EXCEPT !.mode = "amount", !.amount = 6, !.most = 100],
     [Half EXCEPT !.override = TRUE]}

WalletLimits == {SpendLimit(w.trusted, o) : w \in SomeWallets, o \in SomeOptions}

NoCorrections == [x \in {} |-> x]

Symmetry == Permutations(Checks) \cup Permutations(Keys) \cup Permutations(Trials)
=============================================================================
