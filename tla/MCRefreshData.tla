--------------------------- MODULE MCRefreshData ---------------------------
(* RefreshData on two positions of ticker T and one of ticker U.           *)
EXTENDS RefreshData, TLC

CONSTANTS p1, p2, p3, T, U

MCTickerOf == (p1 :> T) @@ (p2 :> T) @@ (p3 :> U)
MCCaches == <<"indicator">>

Symmetry == Permutations(Worker)
=============================================================================
