---------------------------- MODULE MCRetention ----------------------------
(* Two events, one of them a test alert, with a row each.                  *)
EXTENDS Retention, TLC
CONSTANTS e1, e2, r1, r2
MCEventOf == r1 :> e1 @@ r2 :> e2
=============================================================================
