--------------------------- MODULE MCRefreshPage ---------------------------
(* RefreshPage on one position and one refresh.                            *)
EXTENDS RefreshPage, TLC

CONSTANTS p1, T

MCTickerOf == p1 :> T
MCCaches == <<"indicator">>
=============================================================================
