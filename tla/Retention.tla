----------------------------- MODULE Retention -----------------------------
(***************************************************************************)
(* The purge of alert_events and notification_outbox                       *)
(* (backend/app/services/retention.py), started once a day by the          *)
(* scheduler and on demand by an administrator                             *)
(* (worker/scheduler.py maybe_run_retention_sweep, api/admin_settings.py), *)
(* while webhooks, the outbox worker and digest flushes go on.             *)
(*                                                                         *)
(* A batch selects the ids of expired objects and deletes them by id in    *)
(* later statements of the same transaction; under READ COMMITTED, and     *)
(* with a driver that begins a transaction at its first write, other       *)
(* transactions commit in between.                                         *)
(*                                                                         *)
(* The window of an event is in the set expired; the one of a row is in    *)
(* the choice of the batch.  Left out: audit entries and settled scheduled *)
(* actions, which are deleted alike and which nothing refers to.           *)
(***************************************************************************)
EXTENDS Integers, FiniteSets

CONSTANTS
  Events,      \* alert_events
  TestEvents,  \* those of them with is_test
  Rows,        \* the outbox rows that may be staged for an event
  EventOf,     \* alert_event_id of each row
  Digests,     \* the aggregate rows, which belong to no event
  NoDigest,
  Purges,      \* purges in flight at once
  Sweep,       \* the one of the scheduler; the others are requests
  BatchSize,
  MaxFaults,   \* bound: purges that fail or die
  MaxRequests  \* bound: purges started by an administrator

ASSUME RetentionAssumption ==
  /\ TestEvents \subseteq Events
  /\ EventOf \in [Rows -> Events]
  /\ NoDigest \notin Rows \cup Digests
  /\ Rows \cap Digests = {}
  /\ Sweep \in Purges
  /\ BatchSize \in Nat \ {0}
  /\ MaxFaults \in Nat
  /\ MaxRequests \in Nat

VARIABLES
  status,    \* AlertEvent.status, "absent" when there is no row
  expired,   \* the events whose last_received_at is before their cutoff
  row,       \* the state of each outbox row, aggregates included
  into,      \* digested_into_id of each row of an event
  due,       \* has a day passed since retention.last_purge_at?
  purge,     \* the purges in flight
  faults,
  requests

vars == <<status, expired, row, into, due, purge, faults, requests>>

Statuses == {"absent", "firing", "resolved"}
RowStates == {"absent", "open", "settled", "parked", "purged"}
Stages == {"idle", "selectRows", "deleteRows", "selectEvents", "deleteEvents",
           "commitEvents", "record"}

(* A purge: where it is, the ids of its batch, whether it selected as many *)
(* as a batch may hold, so that another one follows, the rows it has       *)
(* deleted together with the events of the batch and not committed yet,    *)
(* and those of the events that were received again after it selected      *)
(* them.  Of the ids, those that another purge has deleted are left out.   *)
PurgeType ==
  [stage : Stages, ids : SUBSET (Events \cup Rows \cup Digests), full : BOOLEAN,
   rows : SUBSET Rows, again : SUBSET Events]
NoPurge == [stage |-> "idle", ids |-> {}, full |-> FALSE, rows |-> {}, again |-> {}]

TypeOK ==
  /\ status \in [Events -> Statuses]
  /\ expired \subseteq Events
  /\ row \in [Rows \cup Digests -> RowStates]
  /\ into \in [Rows -> Digests \cup {NoDigest}]
  /\ due \in BOOLEAN
  /\ purge \in [Purges -> PurgeType]
  /\ faults \in 0..MaxFaults
  /\ requests \in 0..MaxRequests
  /\ \A r \in Rows : row[r] \in {"open", "settled", "parked"} => status[EventOf[r]] # "absent"

Init ==
  /\ status = [e \in Events |-> "absent"]
  /\ expired = {}
  /\ row = [r \in Rows \cup Digests |-> "absent"]
  /\ into = [r \in Rows |-> NoDigest]
  /\ due = TRUE
  /\ purge = [p \in Purges |-> NoPurge]
  /\ faults = 0
  /\ requests = 0

RowsOf(S) == {r \in Rows : EventOf[r] \in S /\ row[r] \in {"open", "settled", "parked"}}

(* The rows a purge has deleted and not committed are locked.              *)
Locked(r) == \E p \in Purges : r \in purge[p].rows

-----------------------------------------------------------------------------
(* The rest of the system.                                                 *)

(* Rows of an event are inserted, parked or not.                           *)
Staged(e, S) ==
  /\ S \subseteq {r \in Rows : EventOf[r] = e /\ row[r] = "absent"}
  /\ \E f \in [S -> {"open", "parked"}] :
       row' = [r \in Rows \cup Digests |-> IF r \in S THEN f[r] ELSE row[r]]

(* A webhook creates, re-opens, resolves or refreshes an event; only a     *)
(* refresh, or the first news of an event if that is that it is resolved,  *)
(* is never routed.                                                        *)
Receive(e, s, S) ==
  /\ Staged(e, S)
  /\ s = status[e] \/ (status[e] = "absent" /\ s = "resolved") => S = {}
  /\ status' = [status EXCEPT ![e] = s]
  /\ expired' = expired \ {e}
  /\ purge' = [p \in Purges |-> [purge[p] EXCEPT !.again = @ \cup ({e} \cap purge[p].ids)]]
  /\ UNCHANGED <<into, due, faults, requests>>

(* An escalation or a renotify cycle of a firing event.                    *)
Renotify(e, S) ==
  /\ status[e] = "firing"
  /\ S # {}
  /\ Staged(e, S)
  /\ UNCHANGED <<status, expired, into, due, purge, faults, requests>>

Expire(e) ==
  /\ status[e] # "absent"
  /\ expired' = expired \cup {e}
  /\ UNCHANGED <<status, row, into, due, purge, faults, requests>>

(* The outbox worker delivers a row or an aggregate, or gives it up.       *)
SettleRow(r) ==
  /\ row[r] = "open"
  /\ ~Locked(r)
  /\ row' = [row EXCEPT ![r] = "settled"]
  /\ UNCHANGED <<status, expired, into, due, purge, faults, requests>>

Waiting == {r \in Rows : row[r] = "parked" /\ into[r] = NoDigest}

(* A digest flush: a single row is sent after all, several in a digest.    *)
Flush(d) ==
  /\ Waiting # {}
  /\ \A r \in Waiting : ~Locked(r)
  /\ IF Cardinality(Waiting) = 1
     THEN /\ row' = [r \in Rows \cup Digests |-> IF r \in Waiting THEN "open" ELSE row[r]]
          /\ UNCHANGED into
     ELSE /\ row[d] = "absent"
          /\ row' = [row EXCEPT ![d] = "open"]
          /\ into' = [r \in Rows |-> IF r \in Waiting THEN d ELSE into[r]]
  /\ UNCHANGED <<status, expired, due, purge, faults, requests>>

-----------------------------------------------------------------------------
(* The purge.                                                              *)

Begin(p) ==
  /\ purge[p].stage = "idle"
  /\ purge' = [purge EXCEPT ![p].stage = "selectRows"]
  /\ UNCHANGED <<status, expired, row, into, due, faults>>

(* run_loop awaits the end of a sweep.                                     *)
MaybeRunSweep == due /\ Begin(Sweep) /\ UNCHANGED requests

(* An administrator may purge at any time.                                 *)
Request(p) ==
  /\ p # Sweep
  /\ requests < MaxRequests
  /\ Begin(p)
  /\ requests' = requests + 1

(* A batch of the objects of S: up to BatchSize of them.                   *)
Batches(S) ==
  {B \in SUBSET S : Cardinality(B) = IF Cardinality(S) < BatchSize THEN Cardinality(S)
                                                                  ELSE BatchSize}

(* Mutant: a row still waiting for its digest counts as settled. *)
SettledOrParked == {r \in Rows \cup Digests : row[r] \in {"settled", "parked"}}

Settled == {r \in Rows \cup Digests : row[r] = "settled"}

(* Which of the settled rows are past their window is left open.           *)
SelectRows(p) ==
  /\ purge[p].stage = "selectRows"
  /\ \E old \in SUBSET Settled : \E B \in Batches(old) :
       purge' = [purge EXCEPT ![p].stage = IF B = {} THEN "selectEvents" ELSE "deleteRows",
                              ![p].ids = B,
                              ![p].full = Cardinality(B) = BatchSize]
  /\ UNCHANGED <<status, expired, row, into, due, faults, requests>>

(* Mutant: the rows of an aggregate stay when it goes. *)
WithoutChildren(S) == S

(* The rows of S, and the rows the aggregates among them stand for.        *)
WithChildren(S) == S \cup {r \in Rows : row[r] = "parked" /\ into[r] \in S}

(* What a deletion of the rows of S leaves: digested_into_id is ON DELETE  *)
(* SET NULL.                                                               *)
Purged(S) == [r \in Rows \cup Digests |-> IF r \in S THEN "purged" ELSE row[r]]
Unlinked(S) == [r \in Rows |-> IF into[r] \in S \/ r \in S THEN NoDigest ELSE into[r]]

DeleteRows(p) ==
  LET S == {r \in WithChildren(purge[p].ids) : row[r] # "purged"}
  IN
  /\ purge[p].stage = "deleteRows"
  /\ \A r \in S : ~Locked(r)
  /\ row' = Purged(S)
  /\ into' = Unlinked(S)
  /\ purge' = [purge EXCEPT ![p] = [NoPurge EXCEPT !.stage =
       IF purge[p].full THEN "selectRows" ELSE "selectEvents"]]
  /\ UNCHANGED <<status, expired, due, faults, requests>>

(* Mutant: an event is kept for as long as there are rows of it. *)
ExpirableOnceSilent ==
  {e \in expired : (e \in TestEvents \/ status[e] = "resolved") /\ RowsOf({e}) = {}}

(* Mutant: a firing event expires like any other. *)
ExpirableFiring == expired

Expirable == {e \in expired : e \in TestEvents \/ status[e] = "resolved"}

SelectEvents(p) ==
  /\ purge[p].stage = "selectEvents"
  /\ \E B \in Batches(Expirable) :
       purge' = [purge EXCEPT ![p].stage = IF B = {} THEN "record" ELSE "deleteEvents",
                              ![p].ids = B,
                              ![p].full = Cardinality(B) = BatchSize]
  /\ UNCHANGED <<status, expired, row, into, due, faults, requests>>

(* The rows of the batch go first, whatever their age and state.           *)
DeleteRowsOfEvents(p) ==
  LET S == RowsOf(purge[p].ids)
  IN
  /\ purge[p].stage = "deleteEvents"
  /\ \A r \in S : ~Locked(r)
  /\ purge' = [purge EXCEPT ![p].stage = "commitEvents", ![p].rows = S]
  /\ UNCHANGED <<status, expired, row, into, due, faults, requests>>

(* The events go with them.  A new event of the same identity has an id of *)
(* its own: it is not in the batch of another purge.                       *)
RemoveEvents(p) ==
  LET B == purge[p].ids
  IN
  /\ status' = [e \in Events |-> IF e \in B THEN "absent" ELSE status[e]]
  /\ expired' = expired \ B
  /\ row' = Purged(purge[p].rows)
  /\ into' = Unlinked(purge[p].rows)
  /\ purge' = [q \in Purges |->
       IF q = p
       THEN [NoPurge EXCEPT !.stage = IF purge[p].full THEN "selectEvents" ELSE "record"]
       ELSE [purge[q] EXCEPT !.ids = @ \ B, !.again = @ \ B]]
  /\ UNCHANGED <<due, faults, requests>>

(* Mutant: the foreign key of the rows is not enforced. *)
CommitUnchecked(p) == purge[p].stage = "commitEvents" /\ RemoveEvents(p)

(* A row that was staged meanwhile still refers to its event: the deletion *)
(* fails, and the purge with it.                                           *)
CommitEvents(p) ==
  /\ purge[p].stage = "commitEvents"
  /\ \/ RowsOf(purge[p].ids) \subseteq purge[p].rows /\ RemoveEvents(p)
     \/ /\ ~(RowsOf(purge[p].ids) \subseteq purge[p].rows)
        /\ purge' = [purge EXCEPT ![p] = NoPurge]
        /\ UNCHANGED <<status, expired, row, into, due, faults, requests>>

(* retention.last_purge_at is written at the end of a purge only.          *)
Record(p) ==
  /\ purge[p].stage = "record"
  /\ due' = FALSE
  /\ purge' = [purge EXCEPT ![p] = NoPurge]
  /\ UNCHANGED <<status, expired, row, into, faults, requests>>

(* A statement fails or the process dies: committed batches stay deleted.  *)
Fail(p) ==
  /\ purge[p].stage # "idle"
  /\ faults < MaxFaults
  /\ faults' = faults + 1
  /\ purge' = [purge EXCEPT ![p] = NoPurge]
  /\ UNCHANGED <<status, expired, row, into, due, requests>>

DayPasses ==
  /\ ~due
  /\ due' = TRUE
  /\ UNCHANGED <<status, expired, row, into, purge, faults, requests>>

-----------------------------------------------------------------------------
PurgeStep(p) ==
  \/ SelectRows(p) \/ DeleteRows(p)
  \/ SelectEvents(p) \/ DeleteRowsOfEvents(p) \/ CommitEvents(p)
  \/ Record(p) \/ Fail(p)

Next ==
  \/ \E e \in Events, s \in {"firing", "resolved"}, S \in SUBSET Rows : Receive(e, s, S)
  \/ \E e \in Events, S \in SUBSET Rows : Renotify(e, S)
  \/ \E e \in Events : Expire(e)
  \/ \E r \in Rows \cup Digests : SettleRow(r)
  \/ \E d \in Digests : Flush(d)
  \/ MaybeRunSweep
  \/ \E p \in Purges : Request(p) \/ PurgeStep(p)
  \/ DayPasses

Spec == Init /\ [][Next]_vars

(* Days pass, the scheduler asks on every tick whether a sweep is due, and *)
(* a purge that is under way goes on.                                      *)
Fairness ==
  /\ WF_vars(DayPasses)
  /\ WF_vars(MaybeRunSweep)
  /\ \A p \in Purges : WF_vars(PurgeStep(p))

FairSpec == Spec /\ Fairness

-----------------------------------------------------------------------------
(* Properties.                                                             *)

(* A firing event that is no test alert is purged only when it was         *)
(* received again between the selection and the deletion of its batch.     *)
OnlyReopenedFiringGoes ==
  [][\A e \in Events \ TestEvents :
       status[e] = "firing" /\ status'[e] = "absent" => \E p \in Purges : e \in purge[p].again]_vars

(* The docstring of _purge_alert_events as it stands, which the deletion   *)
(* by the ids of an earlier statement does not keep: "A firing (non-test)  *)
(* event is NEVER purged, regardless of age".                              *)
FiringIsNeverPurged ==
  [][\A e \in Events \ TestEvents : status[e] = "firing" => status'[e] # "absent"]_vars

(* A notification that was not sent yet goes only with its event: the age  *)
(* of a row alone never removes it, nor does the age of another row, and a *)
(* digest goes only once it was sent.                                      *)
UnsentGoesWithItsEvent ==
  [][/\ \A r \in Rows :
          (row[r] = "open" \/ r \in Waiting) /\ row'[r] = "purged"
            => status'[EventOf[r]] = "absent"
     /\ \A d \in Digests : row[d] = "open" => row'[d] # "purged"]_vars

(* No row is digested twice: a parked row that is in a digest does not     *)
(* outlive it, to look as if it still waited for a flush.                  *)
NoSecondDigest ==
  [][\A r \in Rows : into[r] # NoDigest => into'[r] = into[r] \/ row'[r] = "purged"]_vars

(* The database does not grow without bound: no event stays resolved and   *)
(* past its window for ever, through purges that overlap, fail or die.     *)
ExpiredEventsGo ==
  \A e \in Events : []<>~(status[e] = "resolved" /\ e \in expired)
=============================================================================
