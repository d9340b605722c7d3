------------------------- MODULE MCRefreshLifecycle -------------------------
(***************************************************************************)
(* Instances of RefreshLifecycle for TLC.  Positions and flows are         *)
(* interchangeable, so safety runs use symmetry.                           *)
(***************************************************************************)
EXTENDS RefreshLifecycle, TLC

Symmetry == Permutations(Pos) \union Permutations(Flow)
=============================================================================
