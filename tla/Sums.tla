-------------------------------- MODULE Sums --------------------------------
(***************************************************************************)
(* Sums over a finite set, with the summands given as a function.          *)
(***************************************************************************)
EXTENDS Integers, FiniteSets, FiniteSetsExt

SumOver(f, S) == MapThenSumSet(LAMBDA x : f[x], S)
=============================================================================
