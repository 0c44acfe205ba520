------------------------------- MODULE Outbox -------------------------------
(***************************************************************************)
(* The notification outbox and the worker loop that drains it              *)
(* (backend/app/worker/outbox.py, backend/app/models/outbox.py).           *)
(*                                                                         *)
(* A row is staged as 'pending' by a transaction of the API or of the      *)
(* scheduler.  A worker claims a batch of due rows in one statement, then  *)
(* delivers them one by one, each in a session of its own: it loads the    *)
(* row and its channel, sends, and commits the result.  Nothing is locked  *)
(* between the claim and that commit: the loaded copy is all the worker    *)
(* knows, and the commit writes the attributes it changed.  A worker that  *)
(* dies leaves its rows 'in_progress' until their lease is recovered.      *)
(*                                                                         *)
(* Time is a Tick that ages the timers: `age` is the time since locked_at, *)
(* `wait` the time to next_attempt_at, `elapsed` the time a delivery has   *)
(* taken.  locked_by is left out: it is written with locked_at and read by *)
(* nothing.  The order within a batch is left out: the rows of one batch   *)
(* are delivered in any order (on PostgreSQL the claim re-reads them with  *)
(* no ORDER BY).                                                           *)
(***************************************************************************)
EXTENDS Integers, FiniteSets

CONSTANTS
  Rows,             \* the outbox rows that may be staged
  Channels,         \* the channels they are addressed to
  ChannelOf,        \* the channel of each row
  Workers,          \* the processes that run run_loop
  BatchLimit,       \* claim_batch's limit
  MaxAttempts,      \* MAX_ATTEMPTS
  BaseBackoff,      \* BASE_BACKOFF_SECONDS, in ticks
  MaxBackoff,       \* MAX_BACKOFF_SECONDS, in ticks
  LeaseTimeout,     \* DEFAULT_LEASE_TIMEOUT, in ticks
  NoRow,            \* the row of a worker that delivers nothing
  DeliveryTimeout,  \* DELIVERY_TIMEOUT_SECONDS, in ticks
  MaxFaults,        \* bound: crashes and lost commits
  MaxEdits          \* bound: changes of the channels by their owners

ASSUME OutboxAssumption ==
  /\ ChannelOf \in [Rows -> Channels]
  /\ NoRow \notin Rows
  /\ BatchLimit \in Nat \ {0}
  /\ MaxAttempts \in Nat \ {0}
  /\ BaseBackoff \in Nat \ {0}
  /\ MaxBackoff \in Nat \ {0}
  /\ LeaseTimeout \in Nat
  /\ DeliveryTimeout \in Nat \ {0}
  /\ MaxFaults \in Nat
  /\ MaxEdits \in Nat

VARIABLES
  status,     \* NotificationOutbox.status, "absent" before the row exists
  attempts,   \* NotificationOutbox.attempts
  age,        \* time since locked_at, NoLock when it is NULL
  wait,       \* time to next_attempt_at
  channel,    \* what deliver() finds when it loads the channel
  todo,       \* the claimed rows the worker has not come to yet
  job,        \* the delivery the worker is in, NoJob between deliveries
  accepted,   \* has the channel accepted a message for the row?
  faults,     \* crashes and lost commits so far
  edits       \* channel changes so far

vars == <<status, attempts, age, wait, channel, todo, job, accepted, faults, edits>>
rowVars == <<status, attempts, age, wait>>

NoLock == -1
NoJob == [row |-> NoRow]

Statuses == {"absent", "pending", "in_progress", "delivered", "dead"}
Settled == {"delivered", "dead"}

(* "invalid" is an enabled channel of an unregistered type, or one whose   *)
(* stored configuration no longer parses or validates.                     *)
ChannelStates == {"enabled", "disabled", "deleted", "invalid"}

(* A delivery: the row, the copy of it and of its channel's state that     *)
(* deliver() loaded, whether the channel has accepted this attempt's       *)
(* message, and the time taken so far.                                     *)
Jobs == [row : Rows, status : Statuses, attempts : Nat, locked : BOOLEAN,
         channel : ChannelStates, sent : BOOLEAN, elapsed : 0..DeliveryTimeout]

TypeOK ==
  /\ status \in [Rows -> Statuses]
  /\ attempts \in [Rows -> Nat]
  /\ age \in [Rows -> -1..(LeaseTimeout + 1)]
  /\ wait \in [Rows -> 0..(MaxBackoff + 1)]
  /\ channel \in [Channels -> ChannelStates]
  /\ todo \in [Workers -> SUBSET Rows]
  /\ job \in [Workers -> Jobs \cup {NoJob}]
  /\ accepted \in [Rows -> BOOLEAN]
  /\ faults \in 0..MaxFaults
  /\ edits \in 0..MaxEdits

Init ==
  /\ status = [r \in Rows |-> "absent"]
  /\ attempts = [r \in Rows |-> 0]
  /\ age = [r \in Rows |-> NoLock]
  /\ wait = [r \in Rows |-> 0]
  /\ channel = [c \in Channels |-> "enabled"]
  /\ todo = [w \in Workers |-> {}]
  /\ job = [w \in Workers |-> NoJob]
  /\ accepted = [r \in Rows |-> FALSE]
  /\ faults = 0
  /\ edits = 0

-----------------------------------------------------------------------------
(* Staging, and the owners of the channels.                                *)

(* A transaction that stages the row commits.                              *)
Stage(r) ==
  /\ status[r] = "absent"
  /\ status' = [status EXCEPT ![r] = "pending"]
  /\ UNCHANGED <<attempts, age, wait, channel, todo, job, accepted, faults, edits>>

(* update_channel and delete_channel; a deleted channel stays deleted.     *)
EditChannel(c, s) ==
  /\ edits < MaxEdits
  /\ channel[c] \notin {"deleted", s}
  /\ channel' = [channel EXCEPT ![c] = s]
  /\ edits' = edits + 1
  /\ UNCHANGED <<rowVars, todo, job, accepted, faults>>

-----------------------------------------------------------------------------
(* The worker loop.                                                        *)

Delivering(w) == job[w].row # NoRow
Idle(w) == todo[w] = {} /\ ~Delivering(w)

Due(r) == status[r] = "pending" /\ wait[r] = 0

(* As many due rows as the limit allows.                                   *)
ClaimBatch(w) ==
  /\ Idle(w)
  /\ \E S \in SUBSET {r \in Rows : Due(r)} :
       /\ S # {}
       /\ Cardinality(S) <= BatchLimit
       /\ Cardinality(S) = BatchLimit \/ S = {r \in Rows : Due(r)}
       /\ status' = [r \in Rows |-> IF r \in S THEN "in_progress" ELSE status[r]]
       /\ age' = [r \in Rows |-> IF r \in S THEN 0 ELSE age[r]]
       /\ todo' = [todo EXCEPT ![w] = S]
  /\ UNCHANGED <<attempts, wait, channel, job, accepted, faults, edits>>

(* Mutant: the row stays on the list of the batch. *)
LoadAndKeep(w, r) ==
  /\ ~Delivering(w)
  /\ r \in todo[w]
  /\ job' = [job EXCEPT ![w] =
       [row |-> r, status |-> status[r], attempts |-> attempts[r],
        locked |-> age[r] # NoLock, channel |-> channel[ChannelOf[r]],
        sent |-> FALSE, elapsed |-> 0]]
  /\ UNCHANGED <<rowVars, channel, todo, accepted, faults, edits>>

(* run_tick opens a session for the next row of the batch, and deliver()   *)
(* reads the row's channel.  The status of the row is not looked at.       *)
Load(w, r) ==
  /\ ~Delivering(w)
  /\ r \in todo[w]
  /\ todo' = [todo EXCEPT ![w] = @ \ {r}]
  /\ job' = [job EXCEPT ![w] =
       [row |-> r, status |-> status[r], attempts |-> attempts[r],
        locked |-> age[r] # NoLock, channel |-> channel[ChannelOf[r]],
        sent |-> FALSE, elapsed |-> 0]]
  /\ UNCHANGED <<rowVars, channel, accepted, faults, edits>>

(* The channel accepts the message; the worker has not heard of it yet.    *)
Accept(w) ==
  /\ Delivering(w)
  /\ job[w].channel = "enabled"
  /\ ~job[w].sent
  /\ job' = [job EXCEPT ![w].sent = TRUE]
  /\ accepted' = [accepted EXCEPT ![job[w].row] = TRUE]
  /\ UNCHANGED <<rowVars, channel, todo, faults, edits>>

(* The commit that ends the delivery: status s, and the lock released.     *)
(* The session writes only the attributes whose value is not the one it    *)
(* loaded; the others keep what the database holds by now.                 *)
Commit(w, s) ==
  LET j == job[w] IN
  /\ status' = [status EXCEPT ![j.row] = IF s = j.status THEN @ ELSE s]
  /\ age' = [age EXCEPT ![j.row] = IF j.locked THEN NoLock ELSE @]
  /\ job' = [job EXCEPT ![w] = NoJob]

(* Mutant: the row is marked before the send has returned. *)
DeliverUnsent(w) ==
  /\ Delivering(w)
  /\ job[w].channel = "enabled"
  /\ Commit(w, "delivered")
  /\ UNCHANGED <<attempts, wait, channel, todo, accepted, faults, edits>>

Deliver(w) ==
  /\ Delivering(w)
  /\ job[w].sent
  /\ Commit(w, "delivered")
  /\ UNCHANGED <<attempts, wait, channel, todo, accepted, faults, edits>>

(* The channel is gone, disabled or unusable: no attempt is made.          *)
MarkDead(w) ==
  /\ Delivering(w)
  /\ job[w].channel # "enabled"
  /\ Commit(w, "dead")
  /\ UNCHANGED <<attempts, wait, channel, todo, accepted, faults, edits>>

(* Mutant: the cap is forgotten. *)
UncappedBackoff(n) == BaseBackoff * 2^n

(* After n failures: doubled n times, capped, and up to a tick of jitter.  *)
Backoff(n) == LET b == BaseBackoff * 2^n
              IN  IF b \in 0..MaxBackoff THEN b ELSE MaxBackoff

(* Mutant: one attempt too few. *)
ExhaustedEarly(n) == n + 1 >= MaxAttempts

Exhausted(n) == n >= MaxAttempts

(* The send raised or timed out.  It may have been accepted all the same.  *)
MarkDeliveryFailure(w) ==
  LET j == job[w] IN
  /\ Delivering(w)
  /\ j.channel = "enabled"
  /\ attempts' = [attempts EXCEPT ![j.row] = j.attempts + 1]
  /\ IF Exhausted(j.attempts + 1)
     THEN Commit(w, "dead") /\ UNCHANGED wait
     ELSE /\ Commit(w, "pending")
          /\ \E jitter \in 0..1 :
               wait' = [wait EXCEPT ![j.row] = Backoff(j.attempts + 1) + jitter]
  /\ UNCHANGED <<channel, todo, accepted, faults, edits>>

(* Something broke outside deliver()'s own handlers, the commit included:  *)
(* the session is discarded, the row stays as it is in the database, and   *)
(* the worker goes on with the rest of its batch.                          *)
LoseCommit(w) ==
  /\ Delivering(w)
  /\ faults < MaxFaults
  /\ faults' = faults + 1
  /\ job' = [job EXCEPT ![w] = NoJob]
  /\ UNCHANGED <<rowVars, channel, todo, accepted, edits>>

(* The process dies and is started again, with no memory of its batch.     *)
Crash(w) ==
  /\ ~Idle(w)
  /\ faults < MaxFaults
  /\ faults' = faults + 1
  /\ todo' = [todo EXCEPT ![w] = {}]
  /\ job' = [job EXCEPT ![w] = NoJob]
  /\ UNCHANGED <<rowVars, channel, accepted, edits>>

(* Mutant: the recovery looks among the wrong rows. *)
StalePending(r) == status[r] = "pending" /\ age[r] > LeaseTimeout

Stale(r) == status[r] = "in_progress" /\ age[r] > LeaseTimeout

(* Between two of its batches a worker takes back every expired lease.     *)
RecoverStaleLeases(w) ==
  /\ Idle(w)
  /\ \E r \in Rows : Stale(r)
  /\ status' = [r \in Rows |-> IF Stale(r) THEN "pending" ELSE status[r]]
  /\ age' = [r \in Rows |-> IF Stale(r) THEN NoLock ELSE age[r]]
  /\ UNCHANGED <<attempts, wait, channel, todo, job, accepted, faults, edits>>

(* Time passes.  On this scale only sends take time, each at most          *)
(* DeliveryTimeout: a worker with claimed rows left loads the next one     *)
(* before any time passes.                                                 *)
Tick ==
  /\ \A w \in Workers :
       IF Delivering(w) THEN job[w].elapsed < DeliveryTimeout ELSE todo[w] = {}
  /\ age' = [r \in Rows |->
               IF age[r] \in 0..LeaseTimeout THEN age[r] + 1 ELSE age[r]]
  /\ wait' = [r \in Rows |-> IF wait[r] > 0 THEN wait[r] - 1 ELSE 0]
  /\ job' = [w \in Workers |->
               IF Delivering(w) THEN [job[w] EXCEPT !.elapsed = @ + 1] ELSE job[w]]
  /\ UNCHANGED <<status, attempts, channel, todo, accepted, faults, edits>>

WorkerStep(w) ==
  \/ ClaimBatch(w)
  \/ \E r \in Rows : Load(w, r)
  \/ Accept(w)
  \/ Deliver(w)
  \/ MarkDead(w)
  \/ MarkDeliveryFailure(w)
  \/ RecoverStaleLeases(w)

Next ==
  \/ \E r \in Rows : Stage(r)
  \/ \E c \in Channels, s \in ChannelStates : EditChannel(c, s)
  \/ \E w \in Workers : WorkerStep(w) \/ LoseCommit(w) \/ Crash(w)
  \/ Tick

Spec == Init /\ [][Next]_vars

(* run_loop never stops for long: a worker that has something to do does   *)
(* it, every send ends within its timeout, and time passes.  Channel       *)
(* edits, faults and staging need never happen.                            *)
Fairness == WF_vars(Tick) /\ \A w \in Workers : WF_vars(WorkerStep(w))

FairSpec == Spec /\ Fairness

-----------------------------------------------------------------------------
(* Properties.                                                             *)

(* No attempt is under way for a row that is already delivered or dead:    *)
(* deliver() does not look at the status of the row it loads, so nothing   *)
(* but the claim and the lease stands between a settled row and a second   *)
(* message.                                                                *)
NoAttemptOnSettledRow ==
  \A w \in Workers : Delivering(w) => status[job[w].row] \notin Settled

(* At-least-once: a row reads 'delivered' only when the channel has        *)
(* accepted a message for it, whatever was lost, retried or recovered on   *)
(* the way.                                                                *)
DeliveredWasAccepted ==
  \A r \in Rows : status[r] = "delivered" => accepted[r]

(* A notification is given up early only because its channel's owner       *)
(* changed the channel: as long as nobody has, a dead row has had all of   *)
(* its MAX_ATTEMPTS attempts, and a row that is not dead has some left.    *)
NeverGivesUpEarly ==
  \A r \in Rows :
    /\ status[r] = "dead" /\ edits = 0 => attempts[r] = MaxAttempts
    /\ status[r] \in {"absent", "pending", "in_progress"} => attempts[r] < MaxAttempts

(* Every staged notification is delivered or declared dead in the end,     *)
(* whatever crashes or lost commits happened meanwhile.                    *)
EveryRowSettles ==
  \A r \in Rows : status[r] # "absent" ~> status[r] \in Settled

-----------------------------------------------------------------------------
(* The worker loop keeps the outbox's promise.                             *)

Promise == INSTANCE Delivery WITH
  outcome <- [r \in Rows |-> IF status[r] = "absent" THEN "unstaged"
                              ELSE IF status[r] \in Settled THEN status[r]
                              ELSE "open"],
  attempt <- {job[w].row : w \in {v \in Workers : Delivering(v)}}

(* The outbox with its claims, leases, retries and crashes implements the  *)
(* delivery promise of module Delivery.                                    *)
KeepsPromise == Promise!Spec
=============================================================================
