---------------------------- MODULE MCHeartbeat ----------------------------
(* Small instances of the deadman switch; the values are in the            *)
(* configurations.                                                         *)
EXTENDS Heartbeat
=============================================================================
