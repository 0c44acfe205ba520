------------------------------ MODULE MCStorm ------------------------------
(* Small instances of storm control; the values are in the configurations. *)
EXTENDS Storm
=============================================================================
