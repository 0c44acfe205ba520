------------------------------ MODULE MCAlerts ------------------------------
(* Small instances of the life of an alert: a rule of the owning team that *)
(* notifies the chat, escalates to the pager and renotifies, and a rule of *)
(* a team the event is shared with, which reaches the same chat.           *)
EXTENDS Alerts

CONSTANTS own, shared, ownTeam, otherTeam, chat, pager

RuleTeams == [r \in Rules |-> IF r = own THEN ownTeam ELSE otherTeam]
MatchAll == [r \in Rules |-> Events]
FiringOnly == [r \in Rules |-> {"firing"}]
ToChat == [r \in Rules |-> {chat}]
ToBoth == [r \in Rules |-> {chat, pager}]
ToPager == [r \in Rules |-> {pager}]
OwnRenotifies ==
  [r \in Rules |-> [enabled |-> TRUE, escalates |-> TRUE, renotifies |-> r = own]]
OnOrOff == {[enabled |-> on, escalates |-> TRUE, renotifies |-> TRUE] : on \in BOOLEAN}
=============================================================================
