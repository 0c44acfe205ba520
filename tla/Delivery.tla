------------------------------ MODULE Delivery ------------------------------
(***************************************************************************)
(* What the notification outbox promises, without its queue, its workers,  *)
(* its leases and its retries.  Each row is one notification.  It is open  *)
(* from the moment it is staged until it is settled, as delivered or as    *)
(* dead, and a settled row stays settled.  While it is open it may be      *)
(* attempted any number of times, one attempt at a time, and it is settled *)
(* as delivered only after a channel has accepted it: at-least-once        *)
(* delivery, with no attempt on a row that is already settled.             *)
(***************************************************************************)
CONSTANT Rows

VARIABLES
  outcome,    \* "unstaged", "open", "delivered" or "dead", for each row
  attempt,    \* the rows an attempt is under way for
  accepted    \* has some attempt been accepted by the channel?

vars == <<outcome, attempt, accepted>>

Outcomes == {"unstaged", "open", "delivered", "dead"}

TypeOK ==
  /\ outcome \in [Rows -> Outcomes]
  /\ attempt \in SUBSET Rows
  /\ accepted \in [Rows -> BOOLEAN]

Init ==
  /\ outcome = [r \in Rows |-> "unstaged"]
  /\ attempt = {}
  /\ accepted = [r \in Rows |-> FALSE]

Stage(r) ==
  /\ outcome[r] = "unstaged"
  /\ outcome' = [outcome EXCEPT ![r] = "open"]
  /\ UNCHANGED <<attempt, accepted>>

Begin(r) ==
  /\ outcome[r] = "open"
  /\ r \notin attempt
  /\ attempt' = attempt \cup {r}
  /\ UNCHANGED <<outcome, accepted>>

Accept(r) ==
  /\ r \in attempt
  /\ accepted' = [accepted EXCEPT ![r] = TRUE]
  /\ UNCHANGED <<outcome, attempt>>

(* An attempt ends by settling its row or by leaving it open, to be tried  *)
(* again.                                                                  *)
End(r) ==
  /\ r \in attempt
  /\ attempt' = attempt \ {r}
  /\ \/ outcome' = outcome
     \/ outcome' = [outcome EXCEPT ![r] = "dead"]
     \/ accepted[r] /\ outcome' = [outcome EXCEPT ![r] = "delivered"]
  /\ UNCHANGED accepted

Next == \E r \in Rows : Stage(r) \/ Begin(r) \/ Accept(r) \/ End(r)

Spec == Init /\ [][Next]_vars
=============================================================================
