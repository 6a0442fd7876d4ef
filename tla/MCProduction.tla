---------------------------- MODULE MCProduction ----------------------------
(***************************************************************************)
(* Instances of ProductionExecution for TLC.                               *)
(*                                                                         *)
(* One plan of 9 units: rows of 4 and 2 for one address around a row of 3  *)
(* for another. The wallet counts in units of 2, so the single executor    *)
(* pays 6 and 2, chunks of 4 pay 4, 2 and 2, and chunks of 3 pay 2 and stop*)
(* at one that rounds down to nothing. Of a balance of 22, what two runs send*)
(* leaves too little for a run that starts after the first has sent 6.     *)
(***************************************************************************)
EXTENDS ProductionRefinement, TLC

CONSTANTS p1, k1, k2, a1, a2, r1, r2

ThreeRows == <<[address |-> a1, amount |-> 4], [address |-> a2, amount |-> 3],
               [address |-> a1, amount |-> 2]>>

MCPlanRows == p1 :> ThreeRows

Invoke(kind, key, size) ==
    [kind |-> kind, plan |-> p1, key |-> key, chunk_amount |-> size,
     allow_multiple_rows |-> TRUE, confirm_phrase_ok |-> TRUE,
     preflight_passed |-> TRUE]

SingleInvocations == {Invoke(Single, k1, 1), Invoke(Single, k2, 1)}

\* Both executors on one key, another key, and a command line that is refused.
MixedInvocations == SingleInvocations \cup
    {Invoke(Chunked, k1, 4), Invoke(Chunked, k2, 3),
     [Invoke(Single, k2, 1) EXCEPT !.allow_multiple_rows = FALSE]}

\* Both executors on one key.
RaceInvocations == {Invoke(Single, k1, 1), Invoke(Chunked, k1, 4)}

ChunkedInvocations == {Invoke(Chunked, k1, 4)}

RunSymmetry == Permutations(Runs)
=============================================================================
