------------------------------ MODULE MCOutbox ------------------------------
(* Small instances of the outbox.                                          *)
EXTENDS Outbox

(* Every row goes to the same channel.                                     *)
OneChannel == [r \in Rows |-> CHOOSE c \in Channels : TRUE]
=============================================================================
