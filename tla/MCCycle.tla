------------------------------ MODULE MCCycle -------------------------------
(***************************************************************************)
(* Instance of PayoutCycle: three rewards, the last two of one second; the  *)
(* timer, one tick of an operator, one write-draft.                        *)
(***************************************************************************)
EXTENDS PayoutCycle

CONSTANTS r1, r2, r3, timer, tick, writer

MCRewards == {r1, r2, r3}
MCTime == [r \in MCRewards |-> IF r = r1 THEN 2 ELSE 4]
MCAmount == [r \in MCRewards |-> 1]
MCId == [r \in MCRewards |-> IF r = r1 THEN 1 ELSE IF r = r2 THEN 2 ELSE 3]
MCTicks == {timer, tick}
MCWriters == {writer}
MCCasts == {{timer, tick}, {timer, writer}}
MCWindows == {[start |-> 1, end |-> 4], [start |-> 4, end |-> 6]}
MCFirstBalances == {2}

\* Rewards of one second are alike, but for the order of their ids: they mature in
\* that order.
SecondInOrder == r3 \in matured => r2 \in matured

=============================================================================
