----------------------------- MODULE Heartbeat -----------------------------
(***************************************************************************)
(* The deadman switch of one cluster: the Watchdog alert must keep coming, *)
(* and when it has not come for a while the sweep declares the cluster     *)
(* 'missing' and fires a synthetic alert, an incident, which the next      *)
(* heartbeat resolves (backend/app/worker/heartbeat.py, the heartbeat      *)
(* branch of services/ingest.py, update_cluster of api/clusters.py).       *)
(*                                                                         *)
(* Three kinds of transaction read the cluster's row and later write the   *)
(* attributes they changed, with no lock held in between: a webhook with a *)
(* heartbeat, the sweep, and an administrator's update.  They are short:   *)
(* the clock, which counts in units of about the sweep's interval, does    *)
(* not advance while one is open.                                          *)
(***************************************************************************)
EXTENDS Integers

CONSTANTS
  Beats,      \* webhook requests with a heartbeat, in flight at once
  Timeout,    \* heartbeat_timeout_seconds, in ticks
  MaxFaults,  \* bound: transactions of the sweep that fail
  MaxEdits    \* bound: updates of the cluster

ASSUME HeartbeatAssumption ==
  /\ Timeout \in Nat
  /\ MaxFaults \in Nat
  /\ MaxEdits \in Nat

VARIABLES
  enabled,  \* Cluster.enabled
  tracked,  \* Cluster.heartbeat_enabled
  named,    \* does heartbeat_alertname differ from the name of the synthetic alert?
  state,    \* Cluster.heartbeat_state
  age,      \* time since last_heartbeat_at
  open,     \* the synthetic alerts of the cluster that are firing
  alarms,   \* the incidents since the last heartbeat
  beat,     \* per webhook in flight, the state it has read
  sweep,    \* is the sweep about to declare the cluster missing?
  admin,    \* the update in flight
  faults,
  edits

vars ==
  <<enabled, tracked, named, state, age, open, alarms, beat, sweep, admin, faults, edits>>

States == {"unknown", "ok", "missing"}
Fields == {"enabled", "heartbeat_enabled", "heartbeat_alertname"}
NoUpdate == [field |-> "none"]

TypeOK ==
  /\ enabled \in BOOLEAN
  /\ tracked \in BOOLEAN
  /\ named \in BOOLEAN
  /\ state \in States
  /\ age \in 0..(Timeout + 1)
  /\ open \in Nat
  /\ alarms \in Nat
  /\ beat \in [Beats -> States \cup {"none"}]
  /\ sweep \in BOOLEAN
  /\ admin \in [field : Fields, value : BOOLEAN, resets : BOOLEAN] \cup {NoUpdate}
  /\ faults \in 0..MaxFaults
  /\ edits \in 0..MaxEdits

Init ==
  /\ enabled = TRUE
  /\ tracked = TRUE
  /\ named \in BOOLEAN
  /\ state = "unknown"
  /\ age = 0
  /\ open = 0
  /\ alarms = 0
  /\ beat = [b \in Beats |-> "none"]
  /\ sweep = FALSE
  /\ admin = NoUpdate
  /\ faults = 0
  /\ edits = 0

-----------------------------------------------------------------------------
(* A heartbeat.                                                            *)

(* The token is checked against the enabled clusters, and the hook is only *)
(* there for a cluster whose heartbeats are tracked.                       *)
Receive(b) ==
  /\ beat[b] = "none"
  /\ enabled /\ tracked
  /\ beat' = [beat EXCEPT ![b] = state]
  /\ UNCHANGED <<enabled, tracked, named, state, age, open, alarms, sweep, admin, faults, edits>>

(* Mutant: the incident is counted down, not looked up. *)
CommitBeatDown(b) ==
  /\ beat[b] # "none"
  /\ state' = IF beat[b] = "ok" THEN state ELSE "ok"
  /\ open' = IF beat[b] = "missing" THEN open - 1 ELSE open
  /\ age' = 0
  /\ alarms' = 0
  /\ beat' = [beat EXCEPT ![b] = "none"]
  /\ UNCHANGED <<enabled, tracked, named, sweep, admin, faults, edits>>

(* heartbeat_state is written only when it was not 'ok' as read, and the   *)
(* incidents resolved only when it was 'missing'.                          *)
CommitBeat(b) ==
  /\ beat[b] # "none"
  /\ state' = IF beat[b] = "ok" THEN state ELSE "ok"
  /\ open' = IF beat[b] = "missing" THEN 0 ELSE open
  /\ age' = 0
  /\ alarms' = 0
  /\ beat' = [beat EXCEPT ![b] = "none"]
  /\ UNCHANGED <<enabled, tracked, named, sweep, admin, faults, edits>>

(* The webhook fails; Alertmanager sends the alert again.                  *)
AbortBeat(b) ==
  /\ beat[b] # "none"
  /\ beat' = [beat EXCEPT ![b] = "none"]
  /\ UNCHANGED <<enabled, tracked, named, state, age, open, alarms, sweep, admin, faults, edits>>

-----------------------------------------------------------------------------
(* The sweep.                                                              *)

Overdue == enabled /\ tracked /\ state = "ok" /\ age > Timeout

(* A cluster whose heartbeats have the name of the synthetic alert is      *)
(* passed over: the alert would count as a heartbeat.                      *)
Look ==
  /\ ~sweep
  /\ Overdue
  /\ named
  /\ sweep' = TRUE
  /\ UNCHANGED <<enabled, tracked, named, state, age, open, alarms, beat, admin, faults, edits>>

(* Mutant: once a tick has failed, the later ones commit nothing. *)
DeclareUnlessFailed ==
  /\ sweep
  /\ state' = IF faults = 0 THEN "missing" ELSE state
  /\ open' = IF faults = 0 THEN open + 1 ELSE open
  /\ alarms' = IF faults = 0 THEN alarms + 1 ELSE alarms
  /\ sweep' = FALSE
  /\ UNCHANGED <<enabled, tracked, named, age, beat, admin, faults, edits>>

(* The state and the synthetic alert are committed as one.                 *)
DeclareMissing ==
  /\ sweep
  /\ state' = "missing"
  /\ open' = open + 1
  /\ alarms' = alarms + 1
  /\ sweep' = FALSE
  /\ UNCHANGED <<enabled, tracked, named, age, beat, admin, faults, edits>>

FailSweep ==
  /\ sweep
  /\ faults < MaxFaults
  /\ faults' = faults + 1
  /\ sweep' = FALSE
  /\ UNCHANGED <<enabled, tracked, named, state, age, open, alarms, beat, admin, edits>>

-----------------------------------------------------------------------------
(* The administrator.                                                      *)

(* The update decides on the row as it reads it whether it disables a      *)
(* cluster that is missing.  For the alertname, TRUE is a name of its own. *)
BeginUpdate(field, value) ==
  /\ admin = NoUpdate
  /\ edits < MaxEdits
  /\ edits' = edits + 1
  /\ admin' = [field |-> field, value |-> value,
                resets |-> ~value /\ state = "missing" /\ field # "heartbeat_alertname"]
  /\ UNCHANGED <<enabled, tracked, named, state, age, open, alarms, beat, sweep, faults>>

(* Mutant: the reset counts as a recovery. *)
CommitUpdateOk ==
  /\ admin # NoUpdate
  /\ enabled' = IF admin.field = "enabled" THEN admin.value ELSE enabled
  /\ tracked' = IF admin.field = "heartbeat_enabled" THEN admin.value ELSE tracked
  /\ named' = IF admin.field = "heartbeat_alertname" THEN admin.value ELSE named
  /\ state' = IF admin.resets THEN "ok" ELSE state
  /\ open' = IF admin.resets THEN 0 ELSE open
  /\ admin' = NoUpdate
  /\ UNCHANGED <<age, alarms, beat, sweep, faults, edits>>

(* Mutant: the synthetic alert is left firing. *)
CommitUpdateUnresolved ==
  /\ admin # NoUpdate
  /\ enabled' = IF admin.field = "enabled" THEN admin.value ELSE enabled
  /\ tracked' = IF admin.field = "heartbeat_enabled" THEN admin.value ELSE tracked
  /\ named' = IF admin.field = "heartbeat_alertname" THEN admin.value ELSE named
  /\ state' = IF admin.resets THEN "unknown" ELSE state
  /\ admin' = NoUpdate
  /\ UNCHANGED <<age, open, alarms, beat, sweep, faults, edits>>

CommitUpdate ==
  /\ admin # NoUpdate
  /\ enabled' = IF admin.field = "enabled" THEN admin.value ELSE enabled
  /\ tracked' = IF admin.field = "heartbeat_enabled" THEN admin.value ELSE tracked
  /\ named' = IF admin.field = "heartbeat_alertname" THEN admin.value ELSE named
  /\ state' = IF admin.resets THEN "unknown" ELSE state
  /\ open' = IF admin.resets THEN 0 ELSE open
  /\ admin' = NoUpdate
  /\ UNCHANGED <<age, alarms, beat, sweep, faults, edits>>

-----------------------------------------------------------------------------
Quiescent == (\A b \in Beats : beat[b] = "none") /\ ~sweep /\ admin = NoUpdate

Tick ==
  /\ Quiescent
  /\ age' = IF age > Timeout THEN age ELSE age + 1
  /\ UNCHANGED <<enabled, tracked, named, state, open, alarms, beat, sweep, admin, faults, edits>>

SweepStep == Look \/ DeclareMissing \/ FailSweep

Next ==
  \/ \E b \in Beats : Receive(b) \/ CommitBeat(b) \/ AbortBeat(b)
  \/ SweepStep
  \/ \E f \in Fields, v \in BOOLEAN : BeginUpdate(f, v)
  \/ CommitUpdate
  \/ Tick

Spec == Init /\ [][Next]_vars

(* The sweep keeps its interval, whatever failed the last time; the        *)
(* transactions of webhooks and administrators end.  No heartbeat need     *)
(* ever come.                                                              *)
Fairness ==
  /\ WF_vars(SweepStep)
  /\ WF_vars(CommitUpdate)
  /\ \A b \in Beats : WF_vars(CommitBeat(b) \/ AbortBeat(b))

FairSpec == Spec /\ Fairness

-----------------------------------------------------------------------------
(* Properties.                                                             *)

(* The state and the incident never part: the cluster is missing exactly   *)
(* when its synthetic alert fires, and there is only one of them, however  *)
(* heartbeats, sweep and updates overlap.                                  *)
MissingMeansOneIncident == open = IF state = "missing" THEN 1 ELSE 0

(* "Exactly one notification per incident": between two heartbeats no more *)
(* than one synthetic alert is fired.                                      *)
OneAlarmPerOutage == alarms <= 1

(* A loss is noticed: a cluster that is overdue is declared missing,       *)
(* unless a heartbeat or an administrator comes first.  Not so a cluster   *)
(* whose heartbeats have the name of the synthetic alert.                  *)
LossIsNoticed ==
  Overdue /\ named ~> state = "missing" \/ age <= Timeout \/ ~(enabled /\ tracked /\ named)

(* What the code says of itself, and does not keep.                        *)

(* A cluster that is disabled, or whose heartbeats are not tracked, is not *)
(* stuck 'missing': no heartbeat could ever bring it back.                 *)
NeverStuckMissing == state = "missing" /\ Quiescent => enabled /\ tracked
=============================================================================
