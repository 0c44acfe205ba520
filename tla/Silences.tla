------------------------------ MODULE Silences ------------------------------
(***************************************************************************)
(* Silences live in Alertmanager; the database only says which team one    *)
(* belongs to (backend/app/api/silences.py, services/alertmanager.py,      *)
(* models/silence.py).  A creation is a saga: the silence is created       *)
(* there, then recorded here, and expired again when it cannot be.         *)
(*                                                                         *)
(* Each call of Alertmanager is a step of its own: it may be carried out   *)
(* and its answer lost, for a timeout is an error like any other.          *)
(***************************************************************************)
EXTENDS Naturals

CONSTANTS
  Silences,   \* the ids Alertmanager gives
  Callers,    \* requests that may be open at one time
  MaxCalls    \* bound: requests

ASSUME SilencesAssumption == MaxCalls \in Nat

VARIABLES
  silence,      \* in Alertmanager: "none", "active", "expired"
  attribution,  \* its SilenceAudit row: "none", "team", or "external" without team_id
  saga,         \* the open requests
  told,         \* what the one who asked for the silence was answered
  stray,        \* silences whose request lost an answer, or its process
  teamExists,
  calls

silenceVars == <<silence, attribution, saga, told, stray, teamExists, calls>>

NoSaga == [at |-> "idle", of |-> {}]

SilencesInit ==
  /\ silence = [s \in Silences |-> "none"]
  /\ attribution = [s \in Silences |-> "none"]
  /\ saga = [c \in Callers |-> NoSaga]
  /\ told = [s \in Silences |-> "nothing"]
  /\ stray = {}
  /\ teamExists = TRUE
  /\ calls = 0

-----------------------------------------------------------------------------
(* The creation.                                                           *)

OpenSaga(c, at, of) ==
  /\ saga[c].at = "idle"
  /\ calls < MaxCalls
  /\ calls' = calls + 1
  /\ saga' = [saga EXCEPT ![c] = [at |-> at, of |-> of]]
  /\ UNCHANGED <<silence, attribution, told, stray, teamExists>>

CreateSilence(c) == teamExists /\ OpenSaga(c, "creating", {})

(* Alertmanager creates it, and the request hears of it.                   *)
Created(c, s) ==
  /\ saga[c].at = "creating"
  /\ silence[s] = "none"
  /\ silence' = [silence EXCEPT ![s] = "active"]
  /\ saga' = [saga EXCEPT ![c] = [at |-> "recording", of |-> {s}]]
  /\ UNCHANGED <<attribution, told, stray, teamExists, calls>>

(* A timeout: the request fails, and cannot expire what it has no id of.   *)
CreatedUnheard(c, s) ==
  /\ saga[c].at = "creating"
  /\ silence[s] = "none"
  /\ silence' = [silence EXCEPT ![s] = "active"]
  /\ saga' = [saga EXCEPT ![c] = NoSaga]
  /\ told' = [told EXCEPT ![s] = "failed"]
  /\ stray' = stray \cup {s}
  /\ UNCHANGED <<attribution, teamExists, calls>>

(* It is malformed, or Alertmanager cannot be reached.                     *)
NotCreated(c) ==
  /\ saga[c].at = "creating"
  /\ saga' = [saga EXCEPT ![c] = NoSaga]
  /\ UNCHANGED <<silence, attribution, told, stray, teamExists, calls>>

Recorded(c, s) ==
  /\ saga[c].at = "recording" /\ s \in saga[c].of
  /\ teamExists
  /\ attribution' = [attribution EXCEPT ![s] = "team"]
  /\ told' = [told EXCEPT ![s] = "created"]
  /\ saga' = [saga EXCEPT ![c] = NoSaga]
  /\ UNCHANGED <<silence, stray, teamExists, calls>>

(* Mutant: the handler rolls back and answers, and expires nothing. *)
NotRecordedAndLeft(c, s) ==
  /\ saga[c].at = "recording" /\ s \in saga[c].of
  /\ \E applied \in {FALSE, teamExists} :
       attribution' = IF applied THEN [attribution EXCEPT ![s] = "team"] ELSE attribution
  /\ told' = [told EXCEPT ![s] = "failed"]
  /\ saga' = [saga EXCEPT ![c] = NoSaga]
  /\ UNCHANGED <<silence, stray, teamExists, calls>>

(* The commit fails, because the team is gone or otherwise; it may also    *)
(* have been carried out, and its answer lost.                             *)
NotRecorded(c, s) ==
  /\ saga[c].at = "recording" /\ s \in saga[c].of
  /\ \E applied \in {FALSE, teamExists} :
       attribution' = IF applied THEN [attribution EXCEPT ![s] = "team"] ELSE attribution
  /\ saga' = [saga EXCEPT ![c].at = "compensating"]
  /\ UNCHANGED <<silence, told, stray, teamExists, calls>>

(* The compensating expire; it may fail, and it may have been carried out. *)
Compensate(c, s) ==
  /\ saga[c].at = "compensating" /\ s \in saga[c].of
  /\ \/ silence' = [silence EXCEPT ![s] = "expired"] /\ stray' = stray
     \/ silence' = silence /\ stray' = stray \cup {s}
  /\ told' = [told EXCEPT ![s] = "failed"]
  /\ saga' = [saga EXCEPT ![c] = NoSaga]
  /\ UNCHANGED <<attribution, teamExists, calls>>

-----------------------------------------------------------------------------
(* Everything else.                                                        *)

(* expire_silence: a member may expire those of the team, an administrator *)
(* every one.                                                              *)
ExpireSilence(c, s) ==
  /\ silence[s] # "none"
  /\ OpenSaga(c, "expiring", {s})

(* Done, or already gone, or failed with or without an effect.             *)
Expired(c, s) ==
  /\ saga[c].at = "expiring" /\ s \in saga[c].of
  /\ silence' \in {silence, [silence EXCEPT ![s] = "expired"]}
  /\ saga' = [saga EXCEPT ![c] = NoSaga]
  /\ UNCHANGED <<attribution, told, stray, teamExists, calls>>

(* Its time is over, or it is expired in Alertmanager itself.              *)
Lapse(s) ==
  /\ silence[s] = "active"
  /\ silence' = [silence EXCEPT ![s] = "expired"]
  /\ UNCHANGED <<attribution, saga, told, stray, teamExists, calls>>

(* delete_team: ON DELETE SET NULL.                                        *)
RemoveTeam ==
  /\ teamExists
  /\ teamExists' = FALSE
  /\ attribution' = [s \in Silences |-> IF attribution[s] = "team" THEN "external"
                                        ELSE attribution[s]]
  /\ UNCHANGED <<silence, saga, told, stray, calls>>

Creating(s) == \E c \in Callers : saga[c].at \in {"recording", "compensating"} /\ s \in saga[c].of

(* The process ends, and the open requests with it.                        *)
CrashSagas ==
  /\ saga' = [c \in Callers |-> NoSaga]
  /\ saga' # saga
  /\ stray' = stray \cup {s \in Silences : Creating(s)}
  /\ UNCHANGED <<silence, attribution, told, teamExists, calls>>

SilencesNext ==
  \/ \E c \in Callers :
       \/ CreateSilence(c) \/ NotCreated(c)
       \/ \E s \in Silences :
            \/ Created(c, s) \/ CreatedUnheard(c, s) \/ Recorded(c, s) \/ NotRecorded(c, s)
            \/ Compensate(c, s) \/ ExpireSilence(c, s) \/ Expired(c, s)
  \/ \E s \in Silences : Lapse(s)
  \/ RemoveTeam
  \/ CrashSagas

SilencesSpec == SilencesInit /\ [][SilencesNext]_silenceVars

-----------------------------------------------------------------------------
(* No silence is left to mute alerts with nobody answering for it.  One    *)
(* that is active was reported created to the one who asked for it, or its *)
(* request is still at work on it, or an answer of Alertmanager or the     *)
(* process was lost on the way; and one that was reported created has a    *)
(* row, also when the team was deleted in between, so that the list never  *)
(* shows it as foreign before its team is gone.                            *)
SilencesAreOwned ==
  \A s \in Silences :
    /\ silence[s] = "active" => told[s] = "created" \/ Creating(s) \/ s \in stray
    /\ told[s] = "created" =>
         attribution[s] = (IF teamExists THEN "team" ELSE "external")
=============================================================================
