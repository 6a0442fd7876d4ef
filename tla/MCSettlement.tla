---------------------------- MODULE MCSettlement ----------------------------
(***************************************************************************)
(* The settlement cycle with two users and two blocks.  A period is one    *)
(* tick, and blocks mature after one.  The first user's counter restarts;  *)
(* the second's stands still at times, so that windows without work come   *)
(* up.  One block is in the candidate table, the other only in the answers *)
(* of the translator.                                                      *)
(***************************************************************************)
EXTENDS LegacySettlement, TLC

MCUsers      == {1, 2}
MCBlocks     == {"b1", "b2"}
MCCaptured   == {"b2"}
MCFinds      == {("b1" :> 0) @@ ("b2" :> 1)}
MCReward     == ("b1" :> 7) @@ ("b2" :> 4)
MCSampled    == {-2, -1}
MCCounter    == [u \in MCUsers |-> [t \in -2 .. MaxNow |->
                   IF u = 1 THEN <<0, 1, 3, 0, 2, 2, 3>>[t + 3]
                            ELSE <<5, 5, 7, 7, 7, 7, 8>>[t + 3]]]
=============================================================================
