---------------------------- MODULE MCDaySessions ----------------------------
(* Small shops for DaySessions. *)
EXTENDS DaySessions, TLC
CONSTANTS a, b
OneEach   == a :> 1 @@ b :> 1
TwoAndOne == a :> 2 @@ b :> 1
=============================================================================
