------------------------------- MODULE Alerts -------------------------------
(***************************************************************************)
(* One occurrence of an alert, from its first webhook to its last timer    *)
(* (backend/app/services/ingest.py, services/routing.py,                   *)
(* services/scheduled_actions.py, worker/scheduler.py, and the ack         *)
(* endpoints of api/alerts.py).                                            *)
(*                                                                         *)
(* A webhook request reads the event, decides on what it read, routes the  *)
(* transition and commits everything at once.  From the moment it has      *)
(* flushed its change of the event until it commits, it holds the lock of  *)
(* that row: requests about one event are serialised there, but each goes  *)
(* on deciding with the status it read before.  The scheduler, in the one  *)
(* process that runs run_loop, claims due actions, then for each reads     *)
(* event and rule in a session of its own and commits the outcome; other   *)
(* transactions commit in between.                                         *)
(*                                                                         *)
(* The conditions of the rules, include_shared and the matchers of the     *)
(* shares are in the constants Rules and Matches.                          *)
(*                                                                         *)
(* Left out here: requests that carry several alerts (each is a request of *)
(* its own); due_at, so a pending action may be claimed at any time;       *)
(* storm control; the rows of the renotify cycles, whose triggers are all  *)
(* different and which nothing reads; the delivery of a row, which is one  *)
(* step here and module Outbox in full.                                    *)
(***************************************************************************)
EXTENDS Integers, FiniteSets

CONSTANTS
  Events,         \* alert_events identities: (cluster, fingerprint, starts_at)
  NoEvent,        \* the event of a request slot that is not in use
  Channels,
  Rules,          \* routing rules, of every team
  Teams,          \* the teams an event is routed for
  Owner,          \* the team that owns the events; it shares them with the others
  TeamOf,         \* the team of each rule
  Suppressors,    \* the rules whose action is 'suppress'
  Matches,        \* the events each rule's conditions match
  NotifiesOn,     \* notify_on_firing and notify_on_resolved of each rule
  ChannelsOf,     \* the channels of each rule
  EscalationsOf,  \* the escalation channels of each rule
  InitialSettings,\* the settings of the rules at the start
  Choices,        \* the settings the owners choose from
  Requests,       \* webhook requests in flight at once
  Ids,            \* bound: scheduled actions alive at once per kind, event, rule
  MaxFaults,      \* bound: failed dispatches and crashes
  MaxEdits        \* bound: changes of the rules by their owners

Settings == [enabled : BOOLEAN, escalates : BOOLEAN, renotifies : BOOLEAN]

ASSUME AlertsAssumption ==
  /\ NoEvent \notin Events
  /\ Owner \in Teams
  /\ TeamOf \in [Rules -> Teams]
  /\ Suppressors \subseteq Rules
  /\ Matches \in [Rules -> SUBSET Events]
  /\ NotifiesOn \in [Rules -> SUBSET {"firing", "resolved"}]
  /\ ChannelsOf \in [Rules -> SUBSET Channels]
  /\ EscalationsOf \in [Rules -> SUBSET Channels]
  /\ InitialSettings \in [Rules -> Settings]
  /\ Choices \subseteq Settings
  /\ MaxFaults \in Nat
  /\ MaxEdits \in Nat

VARIABLES
  status,     \* AlertEvent.status, "absent" before the row exists
  acked,      \* the events whose acknowledged_at is set
  rule,       \* the settings of the routing rules
  rows,       \* the outbox rows staged so far
  delivered,  \* those of them the worker has delivered
  dead,       \* those it has given up
  pending,    \* the scheduled actions that are 'pending'
  claimed,    \* the scheduled actions that are 'claimed'
  batch,      \* the claimed actions the scheduler has not come to yet
  dispatch,   \* the action it is dispatching, NoDispatch between two
  request,    \* the webhook requests in flight
  past,       \* has the event ever been resolved, acknowledged?
  faults,
  edits

vars == <<status, acked, rule, rows, delivered, dead, pending, claimed, batch,
          dispatch, request, past, faults, edits>>
outboxVars == <<rows, delivered, dead>>
timerVars == <<pending, claimed, batch, dispatch>>

Statuses == {"absent", "firing", "resolved"}
Alerts == {"firing", "resolved"}
Rows == [event : Events, channel : Channels,
         trigger : {"firing", "resolved", "escalation"}, rule : Rules]
Timers == [kind : {"escalation", "renotify"}, event : Events, rule : Rules, id : Ids]

(* A request: its alert, the status of the event as it read it, and, once  *)
(* routed, what it will commit: the rows it stages and the rules whose     *)
(* escalation it schedules.                                                *)
NoRequest == [event |-> NoEvent]
RequestType == [event : Events, alert : Alerts, seen : Statuses,
                stage : {"read", "routed"}, rows : SUBSET Rows, arms : SUBSET Rules]

(* A dispatch: the rows it stages, whether it schedules the next cycle,    *)
(* and whether it fails and is to be retried.                              *)
NoDispatch == [timer |-> NoEvent]
DispatchType == [timer : Timers, rows : SUBSET Rows, renew : BOOLEAN, retry : BOOLEAN]

TypeOK ==
  /\ status \in [Events -> Statuses]
  /\ acked \subseteq Events
  /\ rule \in [Rules -> Settings]
  /\ rows \subseteq Rows
  /\ delivered \subseteq rows
  /\ dead \subseteq rows
  /\ pending \subseteq Timers
  /\ claimed \subseteq Timers
  /\ pending \cap claimed = {}
  /\ batch \subseteq claimed
  /\ dispatch \in DispatchType \cup {NoDispatch}
  /\ dispatch # NoDispatch => dispatch.timer \in claimed \ batch
  /\ request \in [Requests -> RequestType \cup {NoRequest}]
  /\ past \in [Events -> SUBSET {"resolved", "acked"}]
  /\ faults \in 0..MaxFaults
  /\ edits \in 0..MaxEdits

Init ==
  /\ status = [e \in Events |-> "absent"]
  /\ acked = {}
  /\ rule = InitialSettings
  /\ rows = {} /\ delivered = {} /\ dead = {}
  /\ pending = {} /\ claimed = {} /\ batch = {}
  /\ dispatch = NoDispatch
  /\ request = [h \in Requests |-> NoRequest]
  /\ past = [e \in Events |-> {}]
  /\ faults = 0
  /\ edits = 0

-----------------------------------------------------------------------------
(* Routing rules.                                                          *)

Reacts(r, e) == rule[r].enabled /\ e \in Matches[r]

(* A team's suppress rule silences that team, and no other.                *)
Suppressed(t, e) == \E r \in Suppressors : TeamOf[r] = t /\ Reacts(r, e)

Notifying(e, trigger) ==
  {r \in Rules \ Suppressors :
     Reacts(r, e) /\ trigger \in NotifiesOn[r] /\ ~Suppressed(TeamOf[r], e)}

Reached(e, trigger) == UNION {ChannelsOf[r] : r \in Notifying(e, trigger)}

Reaching(c, e, trigger) == {r \in Notifying(e, trigger) : c \in ChannelsOf[r]}

(* The rules a row for channel c can be attributed to.  The owning team    *)
(* stages first, so its rules go before those of the teams the event is    *)
(* shared with; among the rules of a team it is the first one the database *)
(* happens to return.                                                      *)
Attributed(c, e, trigger) ==
  LET owned == {r \in Reaching(c, e, trigger) : TeamOf[r] = Owner}
  IN  IF owned = {} THEN Reaching(c, e, trigger) ELSE owned

(* One row for each channel reached.                                       *)
Stagings(e, trigger) ==
  {{[event |-> e, channel |-> c, trigger |-> trigger, rule |-> via[c]] :
      c \in Reached(e, trigger)} :
     via \in {f \in [Reached(e, trigger) -> Notifying(e, trigger)] :
                \A c \in Reached(e, trigger) : f[c] \in Attributed(c, e, trigger)}}

SameKey(x, y) == x.event = y.event /\ x.channel = y.channel /\ x.trigger = y.trigger

(* The rows of S the unique key (event, channel, trigger) lets in.         *)
Fresh(S) == {x \in S : \A y \in rows : ~SameKey(x, y)}

-----------------------------------------------------------------------------
(* Scheduled actions.                                                      *)

(* Mutant: an action that is being dispatched counts as scheduled. *)
LookupUnsettled(k, e, r) ==
  {t \in pending \cup claimed : t.kind = k /\ t.event = e /\ t.rule = r}

(* "Is one already pending?", as each scheduling asks before it inserts.   *)
Lookup(k, e, r) == {t \in pending : t.kind = k /\ t.event = e /\ t.rule = r}

(* scalar_one_or_none raises when the lookup finds two.                    *)
Raises(k, e, r) == \E s, t \in Lookup(k, e, r) : s # t

Unused(k, e, r) ==
  {t \in Timers : t.kind = k /\ t.event = e /\ t.rule = r /\ t \notin pending \cup claimed}

NewTimer(k, e, r) == CHOOSE t \in Unused(k, e, r) : TRUE

OfEvent(e) == {t \in pending : t.event = e}

-----------------------------------------------------------------------------
(* Webhook requests.                                                       *)

Receive(h, e, alert) ==
  /\ request[h] = NoRequest
  /\ request' = [request EXCEPT ![h] =
       [event |-> e, alert |-> alert, seen |-> status[e], stage |-> "read",
        rows |-> {}, arms |-> {}]]
  /\ UNCHANGED <<status, acked, rule, outboxVars, timerVars, past, faults, edits>>

Routed(h, e) == request[h].event = e /\ request[h].stage = "routed"
Locked(e) == \E h \in Requests : Routed(h, e)

(* Mutant: a re-opened event is not routed. *)
TransitionsOnce(q) ==
  \/ q.seen = "absent" /\ q.alert = "firing"
  \/ q.seen = "firing" /\ q.alert = "resolved"

(* on_event_transition is called: the event is new, resolved or re-opened, *)
(* and not one that was first heard of as resolved.                        *)
Transitions(q) == q.seen # q.alert /\ (q.seen = "absent" => q.alert = "firing")

Escalating(e) == {r \in Notifying(e, "firing") : TeamOf[r] = Owner /\ rule[r].escalates}

(* The request flushes its change, which waits for the lock of the event,  *)
(* then routes the transition.  One that found no event and loses the race *)
(* to insert it reads the event again.                                     *)
Route(h) ==
  LET e == request[h].event
      q == [request[h] EXCEPT !.stage = "routed",
                              !.seen = IF @ = "absent" THEN status[e] ELSE @]
  IN
  /\ e \in Events
  /\ request[h].stage = "read"
  /\ ~Locked(e)
  /\ \/ /\ ~Transitions(q)
        /\ request' = [request EXCEPT ![h] = q]
     \/ /\ Transitions(q)
        /\ q.alert = "firing" => \A r \in Escalating(e) : ~Raises("escalation", e, r)
        /\ \E S \in Stagings(e, q.alert) :
             request' = [request EXCEPT ![h] = [q EXCEPT
               !.rows = S,
               !.arms = {r \in Escalating(e) :
                           q.alert = "firing" /\ Lookup("escalation", e, r) = {}}]]
  /\ UNCHANGED <<status, acked, rule, outboxVars, timerVars, past, faults, edits>>

(* A resolved transition also cancels what is pending for the event.       *)
Commit(h) ==
  LET q == request[h]
      e == q.event
      resolves == Transitions(q) /\ q.alert = "resolved"
  IN
  /\ e \in Events
  /\ q.stage = "routed"
  /\ \A r \in q.arms : Unused("escalation", e, r) # {}
  /\ status' = [status EXCEPT ![e] = IF q.seen = q.alert THEN @ ELSE q.alert]
  /\ rows' = rows \cup Fresh(q.rows)
  /\ pending' = (pending \ (IF resolves THEN OfEvent(e) ELSE {}))
                  \cup {NewTimer("escalation", e, r) : r \in q.arms}
  /\ past' = [past EXCEPT ![e] = IF resolves THEN @ \cup {"resolved"} ELSE @]
  /\ request' = [request EXCEPT ![h] = NoRequest]
  /\ UNCHANGED <<acked, rule, delivered, dead, claimed, batch, dispatch, faults, edits>>

(* The request fails and is rolled back; Alertmanager will send it again.  *)
Abort(h) ==
  /\ request[h] # NoRequest
  /\ request' = [request EXCEPT ![h] = NoRequest]
  /\ UNCHANGED <<status, acked, rule, outboxVars, timerVars, past, faults, edits>>

-----------------------------------------------------------------------------
(* The users.                                                              *)

Ack(e) ==
  /\ status[e] # "absent"
  /\ e \notin acked
  /\ ~Locked(e)
  /\ acked' = acked \cup {e}
  /\ pending' = pending \ OfEvent(e)
  /\ past' = [past EXCEPT ![e] = @ \cup {"acked"}]
  /\ UNCHANGED <<status, rule, outboxVars, claimed, batch, dispatch, request, faults, edits>>

Unack(e) ==
  /\ e \in acked
  /\ ~Locked(e)
  /\ acked' = acked \ {e}
  /\ UNCHANGED <<status, rule, outboxVars, timerVars, request, past, faults, edits>>

EditRule(r, s) ==
  /\ edits < MaxEdits
  /\ s # rule[r]
  /\ rule' = [rule EXCEPT ![r] = s]
  /\ edits' = edits + 1
  /\ UNCHANGED <<status, acked, outboxVars, timerVars, request, past, faults>>

-----------------------------------------------------------------------------
(* The worker: outbox and scheduler ticks alternate in one loop.           *)

Idle == batch = {} /\ dispatch = NoDispatch

(* A firing row delivered for a rule that renotifies starts its cycle.     *)
Deliver(x) ==
  LET starts == x.trigger = "firing" /\ rule[x.rule].renotifies
  IN
  /\ Idle
  /\ x \in rows \ (delivered \cup dead)
  /\ delivered' = delivered \cup {x}
  /\ IF starts /\ Lookup("renotify", x.event, x.rule) = {}
     THEN /\ Unused("renotify", x.event, x.rule) # {}
          /\ pending' = pending \cup {NewTimer("renotify", x.event, x.rule)}
     ELSE /\ starts => ~Raises("renotify", x.event, x.rule)
          /\ UNCHANGED pending
  /\ UNCHANGED <<status, acked, rule, rows, dead, claimed, batch, dispatch, request,
                 past, faults, edits>>

GiveUp(x) ==
  /\ Idle
  /\ x \in rows \ (delivered \cup dead)
  /\ dead' = dead \cup {x}
  /\ UNCHANGED <<status, acked, rule, rows, delivered, timerVars, request, past, faults,
                 edits>>

(* Actions a committing resolve is about to cancel are locked, and skipped *)
(* by the claim.                                                           *)
Claimable(t) ==
  /\ t \in pending
  /\ \A h \in Requests : Routed(h, t.event) /\ request[h].alert = "resolved" =>
                           ~Transitions(request[h])

ClaimDueActions(S) ==
  /\ Idle
  /\ S # {}
  /\ \A t \in S : Claimable(t)
  /\ pending' = pending \ S
  /\ claimed' = claimed \cup S
  /\ batch' = S
  /\ UNCHANGED <<status, acked, rule, outboxVars, dispatch, request, past, faults, edits>>

Live(e) == status[e] = "firing" /\ e \notin acked

(* The rows an escalation stages; none when there is nothing left to do.   *)
EscalationRows(t) ==
  {x \in [event : {t.event}, channel : EscalationsOf[t.rule],
          trigger : {"escalation"}, rule : {t.rule}] :
     Live(t.event) /\ rule[t.rule].enabled /\ rule[t.rule].escalates}

(* Mutant: the dispatch does not ask whether the rule is still enabled. *)
RenewsAnyway(t) == Live(t.event) /\ rule[t.rule].renotifies

(* The renotify cycle goes on.                                             *)
Renews(t) == Live(t.event) /\ rule[t.rule].enabled /\ rule[t.rule].renotifies

(* What the handler reads, and what it will commit.                        *)
Dispatch(t) ==
  LET renotifies == t.kind = "renotify" /\ Renews(t)
  IN
  /\ dispatch = NoDispatch
  /\ t \in batch
  /\ batch' = batch \ {t}
  /\ dispatch' =
       [timer |-> t,
        rows |-> IF t.kind = "escalation" THEN EscalationRows(t) ELSE {},
        renew |-> renotifies /\ Lookup("renotify", t.event, t.rule) = {},
        retry |-> renotifies /\ Raises("renotify", t.event, t.rule)]
  /\ UNCHANGED <<status, acked, rule, outboxVars, pending, claimed, request, past, faults,
                 edits>>

(* The action is settled, as done or as cancelled.                         *)
Settle ==
  LET t == dispatch.timer
  IN
  /\ dispatch # NoDispatch
  /\ ~dispatch.retry
  /\ rows' = rows \cup Fresh(dispatch.rows)
  /\ claimed' = claimed \ {t}
  /\ IF dispatch.renew
     THEN /\ Unused("renotify", t.event, t.rule) # {}
          /\ pending' = pending \cup {NewTimer("renotify", t.event, t.rule)}
     ELSE UNCHANGED pending
  /\ dispatch' = NoDispatch
  /\ UNCHANGED <<status, acked, rule, delivered, dead, batch, request, past, faults, edits>>

(* Mutant: the failed action is never put back. *)
RetryAndForget ==
  /\ dispatch # NoDispatch
  /\ \/ dispatch.retry /\ UNCHANGED faults
     \/ faults < MaxFaults /\ faults' = faults + 1
  /\ rows' \in {rows \cup Fresh(S) : S \in SUBSET dispatch.rows}
  /\ claimed' = claimed \ {dispatch.timer}
  /\ dispatch' = NoDispatch
  /\ UNCHANGED <<status, acked, rule, delivered, dead, pending, batch, request, past, edits>>

(* The handler raised: the action is put back for a later retry, in one    *)
(* commit with whatever the handler had staged by then.                    *)
Retry ==
  /\ dispatch # NoDispatch
  /\ \/ dispatch.retry /\ UNCHANGED faults
     \/ faults < MaxFaults /\ faults' = faults + 1
  /\ rows' \in {rows \cup Fresh(S) : S \in SUBSET dispatch.rows}
  /\ pending' = pending \cup {dispatch.timer}
  /\ claimed' = claimed \ {dispatch.timer}
  /\ dispatch' = NoDispatch
  /\ UNCHANGED <<status, acked, rule, delivered, dead, batch, request, past, edits>>

(* The commit of the dispatch fails: the action stays 'claimed'.           *)
LoseDispatch ==
  /\ dispatch # NoDispatch
  /\ faults < MaxFaults
  /\ faults' = faults + 1
  /\ dispatch' = NoDispatch
  /\ UNCHANGED <<status, acked, rule, outboxVars, pending, claimed, batch, request, past,
                 edits>>

(* The process dies, and its requests with it.                             *)
Crash ==
  /\ faults < MaxFaults
  /\ faults' = faults + 1
  /\ batch' = {}
  /\ dispatch' = NoDispatch
  /\ request' = [h \in Requests |-> NoRequest]
  /\ UNCHANGED <<status, acked, rule, outboxVars, pending, claimed, past, edits>>

(* Mutant: a claim can run out while it is being dispatched. *)
RecoverAnyTime(S) ==
  /\ S # {}
  /\ S \subseteq claimed
  /\ pending' = pending \cup S
  /\ claimed' = claimed \ S
  /\ UNCHANGED <<status, acked, rule, outboxVars, batch, dispatch, request, past, faults,
                 edits>>

(* Claims whose lease has run out are given back.                          *)
RecoverStaleClaims(S) ==
  /\ Idle
  /\ S # {}
  /\ S \subseteq claimed
  /\ pending' = pending \cup S
  /\ claimed' = claimed \ S
  /\ UNCHANGED <<status, acked, rule, outboxVars, batch, dispatch, request, past, faults,
                 edits>>

-----------------------------------------------------------------------------
WebhookStep(h) == Route(h) \/ Commit(h) \/ Abort(h)

DispatchStep == Settle \/ Retry \/ LoseDispatch \/ \E t \in batch : Dispatch(t)

Next ==
  \/ \E h \in Requests, e \in Events, alert \in Alerts : Receive(h, e, alert)
  \/ \E h \in Requests : WebhookStep(h)
  \/ \E e \in Events : Ack(e) \/ Unack(e)
  \/ \E r \in Rules, s \in Choices : EditRule(r, s)
  \/ \E x \in rows : Deliver(x) \/ GiveUp(x)
  \/ \E S \in SUBSET pending : ClaimDueActions(S)
  \/ \E S \in SUBSET claimed : RecoverStaleClaims(S)
  \/ DispatchStep
  \/ Crash

Spec == Init /\ [][Next]_vars

(* Requests end and the scheduler finishes what it has begun.  It claims   *)
(* the actions that are due longest first, and takes back every stale      *)
(* claim, so no action is passed over for ever.                            *)
Fairness ==
  /\ \A h \in Requests : WF_vars(WebhookStep(h))
  /\ WF_vars(DispatchStep)
  /\ \A t \in Timers :
       SF_vars(\E S \in SUBSET Timers :
                 t \in S /\ (ClaimDueActions(S) \/ RecoverStaleClaims(S)))

FairSpec == Spec /\ Fairness

-----------------------------------------------------------------------------
(* Properties.                                                             *)

Notified(e, c, trigger) ==
  \E x \in rows : x.event = e /\ x.channel = c /\ x.trigger = trigger

Escalated(e, r) == \A c \in EscalationsOf[r] : Notified(e, c, "escalation")

Scheduled(k, e, r) ==
  \E t \in pending \cup claimed : t.kind = k /\ t.event = e /\ t.rule = r

(* No alert fires unheard: while the rules stay as they were, a firing     *)
(* event has been notified to every channel that the notify rules reach    *)
(* (of the owner and of the teams it is shared with), whatever the order   *)
(* and the races of the webhooks that brought it there.                    *)
FiringIsNotified ==
  \A e \in Events :
    status[e] = "firing" /\ edits = 0 => \A c \in Reached(e, "firing") : Notified(e, c, "firing")

(* The escalation of a firing event that was never acknowledged is not     *)
(* lost, through resolves, re-opens and dispatches that overlap them: it   *)
(* has been sent or an action for it is alive.                             *)
EscalationArmed ==
  \A e \in Events : \A r \in Escalating(e) :
    status[e] = "firing" /\ "acked" \notin past[e] /\ edits = 0 /\ faults = 0
      => Escalated(e, r) \/ Scheduled("escalation", e, r)

(* The renotify cycle is not lost either, crashes and failed dispatches    *)
(* included: once a firing row was delivered for a rule that renotifies,   *)
(* there is a next cycle for as long as nobody resolves or acknowledges    *)
(* the event.                                                              *)
RenotifyArmed ==
  \A x \in delivered :
    x.trigger = "firing" /\ rule[x.rule].renotifies /\ past[x.event] = {} /\ edits = 0
      => Scheduled("renotify", x.event, x.rule)

(* An event nobody attends to is escalated in the end, whatever failed or  *)
(* crashed on the way.                                                     *)
UnattendedEscalates ==
  \A e \in Events, r \in Rules :
    status[e] = "firing" /\ past[e] = {} /\ edits = 0 /\ r \in Escalating(e)
      ~> Escalated(e, r) \/ past[e] # {} \/ edits > 0

(* An event that stays resolved or acknowledged falls silent, and so does  *)
(* a rule that stays disabled: the timers run out, renotify cycles that    *)
(* start late included, and none comes back.                               *)
SettledFallsSilent ==
  \A e \in Events, r \in Rules, s \in Alerts :
    <>[](status[e] = s /\ (Live(e) => ~rule[r].enabled))
      => <>[](~Scheduled("escalation", e, r) /\ ~Scheduled("renotify", e, r))

(* What the code says of itself, and does not keep.                        *)

(* "Firing wins: re-open the row so Phase 9 notifies on it": after a       *)
(* re-open there is a firing notification of the event to be delivered.    *)
ReopenIsNotified ==
  [][\A e \in Events :
       status[e] = "resolved" /\ status'[e] = "firing" =>
         \E x \in rows' \ (delivered \cup dead) : x.event = e /\ x.trigger = "firing"]_vars
=============================================================================
