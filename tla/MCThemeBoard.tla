---------------------------- MODULE MCThemeBoard ----------------------------
(* The board with a position to sell and one to hold. *)
EXTENDS ThemeBoard, TLC

CONSTANTS hot, cold

MCVerdictOf == hot :> "sell" @@ cold :> "hold"
=============================================================================
