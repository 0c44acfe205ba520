------------------------------- MODULE Storm -------------------------------
(***************************************************************************)
(* Storm control of one channel: rows are parked when the channel has had  *)
(* too many in the last hour, and a digest_flush action turns the parked   *)
(* rows into one digest (backend/app/services/routing.py stage_outbox_row  *)
(* and its helpers, backend/app/worker/scheduler.py _dispatch_digest_flush *)
(* and the claim, dispatch and recovery around it).                        *)
(*                                                                         *)
(* A row is staged inside a transaction of its caller: it decides whether  *)
(* to park and looks for a pending flush, and commits later.  With         *)
(* Exclusive, the database has a single writer, which such a transaction   *)
(* is from its INSERT on (SQLite); without it, other transactions commit   *)
(* in between (PostgreSQL, READ COMMITTED).                                *)
(*                                                                         *)
(* The senders are webhook requests: their change of the event has made    *)
(* them the single writer before they count.  A row the scheduler stages   *)
(* for an escalation or a re-notification counts before it writes, so it   *)
(* may exceed the limit by one; it is not modelled.                        *)
(*                                                                         *)
(* The delivery of queued rows and of digests is module Outbox.            *)
(***************************************************************************)
EXTENDS Integers, FiniteSets

CONSTANTS
  Rows,          \* the outbox rows that may be staged for the channel
  NoRow,
  Senders,       \* transactions in flight that stage a row
  Flushes,       \* bound: digest_flush actions alive at once
  NoFlush,
  Limit,         \* rate_limit_per_hour
  Exclusive,     \* is the database written by one transaction at a time?
  InitialMode,   \* digest_mode at the start
  MaxFaults,     \* bound: failed dispatches and crashes
  MaxEdits       \* bound: changes of the channel

Modes == {"off", "auto", "always"}

ASSUME StormAssumption ==
  /\ NoRow \notin Rows
  /\ NoFlush \notin Flushes
  /\ Limit \in Nat
  /\ Exclusive \in BOOLEAN
  /\ InitialMode \in Modes
  /\ MaxFaults \in Nat
  /\ MaxEdits \in Nat

VARIABLES
  place,     \* where each row is: "absent", "queued" for a send of its own,
             \* "parked", or "digested" into an aggregate
  digests,   \* the rows of each aggregate row, a set of sets of rows
  recent,    \* the rows created in the last hour (aggregates do not count)
  direct,    \* the rows that were queued at once, not parked
  mode,      \* Channel.digest_mode
  deleted,   \* is Channel.deleted_at set?
  pending,   \* the digest_flush actions that are 'pending'
  claimed,   \* the digest_flush actions that are 'claimed'
  batch,     \* the claimed ones the scheduler has not come to yet
  dispatch,  \* the one it is dispatching, and the parked rows it has read
  sender,    \* the staging transactions in flight
  faults,
  edits

vars == <<place, digests, recent, direct, mode, deleted, pending, claimed, batch,
          dispatch, sender, faults, edits>>
rowVars == <<place, digests, recent, direct>>
timerVars == <<pending, claimed, batch, dispatch>>

NoDispatch == [flush |-> NoFlush]
NoSender == [row |-> NoRow]

Places == {"absent", "queued", "parked", "digested"}

TypeOK ==
  /\ place \in [Rows -> Places]
  /\ digests \subseteq SUBSET Rows
  /\ recent \subseteq Rows
  /\ direct \subseteq Rows
  /\ mode \in Modes
  /\ deleted \in BOOLEAN
  /\ pending \subseteq Flushes
  /\ claimed \subseteq Flushes
  /\ pending \cap claimed = {}
  /\ batch \subseteq claimed
  /\ dispatch \in [flush : Flushes, parked : SUBSET Rows] \cup {NoDispatch}
  /\ dispatch # NoDispatch => dispatch.flush \in claimed \ batch
  /\ sender \in [Senders -> [row : Rows, park : BOOLEAN, arm : BOOLEAN] \cup {NoSender}]
  /\ faults \in 0..MaxFaults
  /\ edits \in 0..MaxEdits

Init ==
  /\ place = [r \in Rows |-> "absent"]
  /\ digests = {} /\ recent = {} /\ direct = {}
  /\ mode = InitialMode
  /\ deleted = FALSE
  /\ pending = {} /\ claimed = {} /\ batch = {}
  /\ dispatch = NoDispatch
  /\ sender = [s \in Senders |-> NoSender]
  /\ faults = 0
  /\ edits = 0

Staging(s) == sender[s] # NoSender

(* May a transaction of somebody else than S write?                        *)
MayWrite(S) == Exclusive => \A s \in Senders \ S : ~Staging(s)

-----------------------------------------------------------------------------
(* Staging a row.                                                          *)

(* Mutant: a row too many before the channel is calmed. *)
NeedsParkingLate ==
  \/ mode = "always"
  \/ mode = "auto" /\ Cardinality(recent) > Limit

NeedsParking ==
  \/ mode = "always"
  \/ mode = "auto" /\ Cardinality(recent) >= Limit

(* Mutant: a flush that is being dispatched counts as scheduled. *)
FlushUnsettled == pending \cup claimed # {}

FlushScheduled == pending # {}

(* scalar_one_or_none raises when two flushes are pending: the staging     *)
(* transaction fails as a whole.                                           *)
LookupRaises == \E f, g \in pending : f # g

(* The row is inserted, parked or not, and a flush looked for.             *)
Stage(s, r) ==
  /\ ~Staging(s)
  /\ MayWrite({s})
  /\ place[r] = "absent"
  /\ \A t \in Senders : sender[t].row # r
  /\ ~deleted
  /\ NeedsParking => ~LookupRaises
  /\ sender' = [sender EXCEPT ![s] =
       [row |-> r, park |-> NeedsParking, arm |-> NeedsParking /\ ~FlushScheduled]]
  /\ UNCHANGED <<rowVars, mode, deleted, timerVars, faults, edits>>

NewFlush == CHOOSE f \in Flushes : f \notin pending \cup claimed

CommitStaged(s) ==
  LET q == sender[s] IN
  /\ Staging(s)
  /\ place' = [place EXCEPT ![q.row] = IF q.park THEN "parked" ELSE "queued"]
  /\ direct' = IF q.park THEN direct ELSE direct \cup {q.row}
  /\ recent' = recent \cup {q.row}
  /\ IF q.arm
     THEN Flushes # pending \cup claimed /\ pending' = pending \cup {NewFlush}
     ELSE UNCHANGED pending
  /\ sender' = [sender EXCEPT ![s] = NoSender]
  /\ UNCHANGED <<digests, mode, deleted, claimed, batch, dispatch, faults, edits>>

(* The transaction the row was staged in is rolled back.                   *)
Rollback(s) ==
  /\ Staging(s)
  /\ sender' = [sender EXCEPT ![s] = NoSender]
  /\ UNCHANGED <<rowVars, mode, deleted, timerVars, faults, edits>>

(* A row leaves the trailing hour.                                         *)
Age(r) ==
  /\ r \in recent
  /\ recent' = recent \ {r}
  /\ UNCHANGED <<place, digests, direct, mode, deleted, timerVars, sender, faults, edits>>

-----------------------------------------------------------------------------
(* The owner of the channel.                                               *)

EditMode(m) ==
  /\ edits < MaxEdits
  /\ MayWrite({})
  /\ mode' = m
  /\ edits' = edits + 1
  /\ UNCHANGED <<rowVars, deleted, timerVars, sender, faults>>

DeleteChannel ==
  /\ edits < MaxEdits
  /\ MayWrite({})
  /\ ~deleted
  /\ deleted' = TRUE
  /\ edits' = edits + 1
  /\ UNCHANGED <<rowVars, mode, timerVars, sender, faults>>

-----------------------------------------------------------------------------
(* The scheduler, in the one process that runs run_loop.                   *)

Idle == batch = {} /\ dispatch = NoDispatch

ClaimDueActions(S) ==
  /\ Idle
  /\ MayWrite({})
  /\ S # {}
  /\ S \subseteq pending
  /\ pending' = pending \ S
  /\ claimed' = claimed \cup S
  /\ batch' = S
  /\ UNCHANGED <<rowVars, mode, deleted, dispatch, sender, faults, edits>>

Parked == {r \in Rows : place[r] = "parked"}

(* The handler reads what is parked; for a deleted channel it stops there. *)
Dispatch(f) ==
  /\ dispatch = NoDispatch
  /\ f \in batch
  /\ batch' = batch \ {f}
  /\ dispatch' = [flush |-> f, parked |-> IF deleted THEN {} ELSE Parked]
  /\ UNCHANGED <<rowVars, mode, deleted, pending, claimed, sender, faults, edits>>

(* Mutant: the rows of a digest are not linked to it. *)
SettleUnlinked ==
  LET S == dispatch.parked IN
  /\ dispatch # NoDispatch
  /\ MayWrite({})
  /\ \/ S = {} /\ UNCHANGED <<place, digests>>
     \/ /\ Cardinality(S) = 1
        /\ place' = [r \in Rows |-> IF r \in S THEN "queued" ELSE place[r]]
        /\ UNCHANGED digests
     \/ /\ Cardinality(S) > 1
        /\ digests' = digests \cup {S}
        /\ UNCHANGED place
  /\ claimed' = claimed \ {dispatch.flush}
  /\ dispatch' = NoDispatch
  /\ UNCHANGED <<recent, direct, mode, deleted, pending, batch, sender, faults, edits>>

(* Nothing was parked; or one row, sent after all; or a digest of them.    *)
Settle ==
  LET S == dispatch.parked IN
  /\ dispatch # NoDispatch
  /\ MayWrite({})
  /\ \/ S = {} /\ UNCHANGED <<place, digests>>
     \/ /\ Cardinality(S) = 1
        /\ place' = [r \in Rows |-> IF r \in S THEN "queued" ELSE place[r]]
        /\ UNCHANGED digests
     \/ /\ Cardinality(S) > 1
        /\ place' = [r \in Rows |-> IF r \in S THEN "digested" ELSE place[r]]
        /\ digests' = digests \cup {S}
  /\ claimed' = claimed \ {dispatch.flush}
  /\ dispatch' = NoDispatch
  /\ UNCHANGED <<recent, direct, mode, deleted, pending, batch, sender, faults, edits>>

(* The handler raised before it wrote anything: to be dispatched again.    *)
Retry ==
  /\ dispatch # NoDispatch
  /\ MayWrite({})
  /\ faults < MaxFaults
  /\ faults' = faults + 1
  /\ pending' = pending \cup {dispatch.flush}
  /\ claimed' = claimed \ {dispatch.flush}
  /\ dispatch' = NoDispatch
  /\ UNCHANGED <<rowVars, mode, deleted, batch, sender, edits>>

(* The commit of the dispatch fails: the action stays 'claimed'.           *)
LoseDispatch ==
  /\ dispatch # NoDispatch
  /\ faults < MaxFaults
  /\ faults' = faults + 1
  /\ dispatch' = NoDispatch
  /\ UNCHANGED <<rowVars, mode, deleted, pending, claimed, batch, sender, edits>>

(* The process dies, and the transactions in flight with it.               *)
Crash ==
  /\ faults < MaxFaults
  /\ faults' = faults + 1
  /\ batch' = {}
  /\ dispatch' = NoDispatch
  /\ sender' = [s \in Senders |-> NoSender]
  /\ UNCHANGED <<rowVars, mode, deleted, pending, claimed, edits>>

(* Mutant: a claim can run out while it is being dispatched. *)
RecoverAnyTime(S) ==
  /\ MayWrite({})
  /\ S # {}
  /\ S \subseteq claimed
  /\ pending' = pending \cup S
  /\ claimed' = claimed \ S
  /\ UNCHANGED <<rowVars, mode, deleted, batch, dispatch, sender, faults, edits>>

RecoverStaleClaims(S) ==
  /\ Idle
  /\ MayWrite({})
  /\ S # {}
  /\ S \subseteq claimed
  /\ pending' = pending \cup S
  /\ claimed' = claimed \ S
  /\ UNCHANGED <<rowVars, mode, deleted, batch, dispatch, sender, faults, edits>>

-----------------------------------------------------------------------------
DispatchStep == Settle \/ Retry \/ LoseDispatch \/ \E f \in Flushes : Dispatch(f)

Next ==
  \/ \E s \in Senders, r \in Rows : Stage(s, r)
  \/ \E s \in Senders : CommitStaged(s) \/ Rollback(s)
  \/ \E r \in Rows : Age(r)
  \/ \E m \in Modes : EditMode(m)
  \/ DeleteChannel
  \/ \E S \in SUBSET Flushes : ClaimDueActions(S) \/ RecoverStaleClaims(S)
  \/ DispatchStep
  \/ Crash

Spec == Init /\ [][Next]_vars

(* Transactions end, the scheduler finishes what it has begun, and no      *)
(* action that is due or stale is passed over for ever.                    *)
Fairness ==
  /\ \A s \in Senders : WF_vars(CommitStaged(s) \/ Rollback(s))
  /\ SF_vars(DispatchStep)
  /\ \A f \in Flushes :
       SF_vars(\E S \in SUBSET Flushes :
                 f \in S /\ (ClaimDueActions(S) \/ RecoverStaleClaims(S)))

FairSpec == Spec /\ Fairness

-----------------------------------------------------------------------------
(* Properties.                                                             *)

(* No parked row is forgotten: "that existing timer will flush every row   *)
(* parked since it was scheduled, this one included".  For every parked    *)
(* row of a live channel there is a flush that has yet to read what is     *)
(* parked, or that has read the row.                                       *)
NoRowForgotten ==
  \A r \in Rows : place[r] = "parked" /\ ~deleted =>
    \/ pending # {}
    \/ \E f \in claimed : dispatch.flush = f => r \in dispatch.parked

(* A digested row is in one digest, and only one: a failed, retried or     *)
(* recovered flush neither repeats a notification nor loses one.           *)
DigestedOnce ==
  /\ \A r \in Rows : place[r] = "digested" <=> \E D \in digests : r \in D
  /\ \A D, E \in digests : D # E => D \cap E = {}

(* Storm control works: in 'auto' mode, with one writer, no more than the  *)
(* limit of the rows of an hour went out without being parked.             *)
StormIsCalmed == edits = 0 /\ mode = "auto" => Cardinality(recent \cap direct) <= Limit

(* A parked row is sent in the end, alone or in a digest, unless its       *)
(* channel is deleted.                                                     *)
EveryParkedRowLeaves ==
  \A r \in Rows : place[r] = "parked" ~> place[r] \in {"queued", "digested"} \/ deleted
=============================================================================
