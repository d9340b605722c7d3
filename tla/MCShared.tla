------------------------------ MODULE MCShared ------------------------------
(* The studies of Shared on a small instance: three request threads in two    *)
(* processes, a position to sell and one to hold, two pooled connections with *)
(* a database session each, and two refreshes of which one looks back         *)
(* further.                                                                   *)
EXTENDS Shared, TLC

CONSTANTS a1, a2, b1, pa, pb, hot, cold, c1, c2, s1, s2, small, large

MCHome(t)     == IF t = b1 THEN pb ELSE pa
MCVerdictOf   == hot :> "sell" @@ cold :> "hold"
MCPoolHome(c) == IF c = c1 THEN s1 ELSE s2
MCLookback(r) == IF r = small THEN 1 ELSE 3
=============================================================================
