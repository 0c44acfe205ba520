---------------------------- MODULE AlertsProofs ----------------------------
(***************************************************************************)
(* Proofs about the life of an alert, for any number of events, channels,  *)
(* teams, rules, requests in flight and scheduled actions, and whatever    *)
(* the rules match, notify and escalate to.                                *)
(***************************************************************************)
EXTENDS Alerts, TLAPS

-----------------------------------------------------------------------------
(* What the operators of the model return.                                 *)

(* A staging has one row at least for each channel that is reached, on     *)
(* behalf of a rule that notifies.                                         *)
LEMMA StagingsAre ==
  ASSUME NEW e \in Events, NEW trigger \in Alerts, NEW S \in Stagings(e, trigger)
  PROVE  /\ S \subseteq Rows
         /\ \A x \in S : x.event = e /\ x.trigger = trigger /\ x.rule \in Notifying(e, trigger)
         /\ \A c \in Reached(e, trigger) : \E x \in S : x.channel = c
<1>1. PICK via \in [Reached(e, trigger) -> Notifying(e, trigger)] :
        S = {[event |-> e, channel |-> c, trigger |-> trigger, rule |-> via[c]] :
               c \in Reached(e, trigger)}
      BY DEF Stagings
<1>2. /\ Notifying(e, trigger) \subseteq Rules
      /\ Reached(e, trigger) \subseteq Channels
      /\ trigger \in {"firing", "resolved", "escalation"}
      BY AlertsAssumption DEF Reached, Notifying, Alerts
<1>3. \A c \in Reached(e, trigger) : via[c] \in Notifying(e, trigger)
      BY <1>1
<1>4. ASSUME NEW x \in S
      PROVE  /\ x \in Rows
             /\ x.event = e /\ x.trigger = trigger /\ x.rule \in Notifying(e, trigger)
  <2>1. PICK c \in Reached(e, trigger) :
          x = [event |-> e, channel |-> c, trigger |-> trigger, rule |-> via[c]]
        BY <1>1
  <2> QED
      BY <1>2, <1>3, <2>1 DEF Rows
<1>5. ASSUME NEW c \in Reached(e, trigger)
      PROVE  \E x \in S : x.channel = c
  <2>1. [event |-> e, channel |-> c, trigger |-> trigger, rule |-> via[c]] \in S
        BY <1>1
  <2> QED
      BY <2>1
<1> QED
    BY <1>4, <1>5

(* What a row wanted to say is said once it is staged, by itself or by the *)
(* row that has its key.                                                   *)
LEMMA FreshCovers ==
  ASSUME NEW S, NEW x \in S
  PROVE  \E y \in rows \cup Fresh(S) : SameKey(x, y)
<1>1. CASE \E y \in rows : SameKey(x, y)
      BY <1>1
<1>2. CASE \A y \in rows : ~SameKey(x, y)
      BY <1>2 DEF Fresh, SameKey
<1> QED
    BY <1>1, <1>2

LEMMA NewTimerIsNew ==
  ASSUME NEW k, NEW e, NEW r, Unused(k, e, r) # {}
  PROVE  /\ NewTimer(k, e, r) \in Timers
         /\ NewTimer(k, e, r) \notin pending \cup claimed
         /\ NewTimer(k, e, r).kind = k
         /\ NewTimer(k, e, r).event = e
         /\ NewTimer(k, e, r).rule = r
<1>1. PICK t \in Unused(k, e, r) : TRUE
      OBVIOUS
<1>2. NewTimer(k, e, r) \in Unused(k, e, r)
      BY <1>1 DEF NewTimer
<1> QED
    BY <1>2 DEF Unused

LEMMA EscalationRowsAre ==
  ASSUME NEW t \in Timers
  PROVE  /\ EscalationRows(t) \subseteq Rows
         /\ \A x \in EscalationRows(t) : x.event = t.event /\ x.trigger = "escalation"
<1>1. EscalationsOf[t.rule] \subseteq Channels /\ t.event \in Events /\ t.rule \in Rules
      BY AlertsAssumption DEF Timers
<1> QED
    BY <1>1 DEF EscalationRows, Rows

-----------------------------------------------------------------------------
(* Types.                                                                  *)

LEMMA TypeInit == Init => TypeOK
<1> SUFFICES ASSUME Init PROVE TypeOK
    OBVIOUS
<1> USE AlertsAssumption DEF Init
<1>1. faults \in 0..MaxFaults /\ edits \in 0..MaxEdits
      OBVIOUS
<1>2. status \in [Events -> Statuses] /\ past \in [Events -> SUBSET {"resolved", "acked"}]
      BY DEF Statuses
<1>3. request \in [Requests -> RequestType \cup {NoRequest}]
      OBVIOUS
<1> QED
    BY <1>1, <1>2, <1>3, Zenon DEF TypeOK

LEMMA RequestIs ==
  ASSUME TypeOK, NEW h \in Requests, request[h].event \in Events
  PROVE  request[h] \in RequestType
BY AlertsAssumption DEF TypeOK, NoRequest

LEMMA TypeNext == TypeOK /\ [Next]_vars => TypeOK'
<1> SUFFICES ASSUME TypeOK, [Next]_vars PROVE TypeOK'
    OBVIOUS
<1> USE AlertsAssumption DEF TypeOK, outboxVars, timerVars
<1>1. ASSUME NEW h \in Requests, NEW e \in Events, NEW alert \in Alerts, Receive(h, e, alert)
      PROVE  TypeOK'
  <2>1. [event |-> e, alert |-> alert, seen |-> status[e], stage |-> "read",
         rows |-> {}, arms |-> {}] \in RequestType
        BY DEF RequestType
  <2> QED
      BY <1>1, <2>1, Zenon DEF Receive
<1>2. ASSUME NEW h \in Requests, Route(h) PROVE TypeOK'
  <2> DEFINE e == request[h].event
             q == [request[h] EXCEPT !.stage = "routed",
                                     !.seen = IF @ = "absent" THEN status[e] ELSE @]
  <2>1. e \in Events /\ request[h] \in RequestType
        BY <1>2, RequestIs DEF Route
  <2>2. q \in RequestType
        BY <2>1 DEF RequestType
  <2>3. CASE request' = [request EXCEPT ![h] = q]
    <3> HIDE DEF q
    <3>1. request' \in [Requests -> RequestType \cup {NoRequest}]
          BY <2>2, <2>3, Zenon
    <3> QED
        BY <1>2, <3>1, Zenon DEF Route
  <2>4. ASSUME NEW S \in Stagings(e, q.alert), NEW A \in SUBSET Rules,
               request' = [request EXCEPT ![h] = [q EXCEPT !.rows = S, !.arms = A]]
        PROVE  TypeOK'
    <3>1. q.alert \in Alerts /\ S \subseteq Rows
          BY <2>1, <2>2, StagingsAre DEF RequestType
    <3>2. [q EXCEPT !.rows = S, !.arms = A] \in RequestType
          BY <2>2, <3>1 DEF RequestType
    <3> HIDE DEF q
    <3>3. request' \in [Requests -> RequestType \cup {NoRequest}]
          BY <2>4, <3>2, Zenon
    <3> QED
        BY <1>2, <3>3, Zenon DEF Route
  <2>5. Escalating(e) \subseteq Rules
        BY DEF Escalating, Notifying
  <2>6. \/ request' = [request EXCEPT ![h] = q]
        \/ \E S \in Stagings(e, q.alert), A \in SUBSET Rules :
             request' = [request EXCEPT ![h] = [q EXCEPT !.rows = S, !.arms = A]]
    <3> DEFINE A == {r \in Escalating(e) :
                       q.alert = "firing" /\ Lookup("escalation", e, r) = {}}
    <3>1. A \in SUBSET Rules
          BY <2>5
    <3>2. \/ request' = [request EXCEPT ![h] = q]
          \/ \E S \in Stagings(e, q.alert) :
               request' = [request EXCEPT ![h] = [q EXCEPT !.rows = S, !.arms = A]]
          BY <1>2, Zenon DEF Route
    <3> QED
        BY <3>1, <3>2, Zenon
  <2> QED
      BY <2>3, <2>4, <2>6, Zenon
<1>3. ASSUME NEW h \in Requests, Commit(h) PROVE TypeOK'
  <2> DEFINE e == request[h].event
  <2>1. e \in Events /\ request[h] \in RequestType
        BY <1>3, RequestIs DEF Commit
  <2>2. status' \in [Events -> Statuses] /\ past' \in [Events -> SUBSET {"resolved", "acked"}]
        BY <1>3, <2>1 DEF Commit, RequestType, Statuses, Alerts
  <2>3. rows \subseteq rows' /\ rows' \subseteq Rows
        BY <1>3, <2>1 DEF Commit, RequestType, Fresh
  <2>4. \A r \in request[h].arms : /\ NewTimer("escalation", e, r) \in Timers
                                   /\ NewTimer("escalation", e, r) \notin pending \cup claimed
        BY <1>3, NewTimerIsNew DEF Commit
  <2>5. pending' \subseteq Timers /\ pending' \cap claimed' = {}
        BY <1>3, <2>4 DEF Commit, OfEvent
  <2>6. request' \in [Requests -> RequestType \cup {NoRequest}]
        BY <1>3 DEF Commit
  <2> QED
      BY <1>3, <2>2, <2>3, <2>5, <2>6, Zenon DEF Commit
<1>4. ASSUME NEW h \in Requests, Abort(h) PROVE TypeOK'
      BY <1>4, Zenon DEF Abort
<1>5. ASSUME NEW e \in Events, Ack(e) PROVE TypeOK'
  <2>1. past' \in [Events -> SUBSET {"resolved", "acked"}]
        BY <1>5 DEF Ack
  <2> QED
      BY <1>5, <2>1, Zenon DEF Ack, OfEvent
<1>6. ASSUME NEW e \in Events, Unack(e) PROVE TypeOK'
      BY <1>6, Zenon DEF Unack
<1>7. ASSUME NEW r \in Rules, NEW s \in Choices, EditRule(r, s) PROVE TypeOK'
  <2>1. edits' \in 0..MaxEdits
        BY <1>7 DEF EditRule
  <2>2. s \in Settings
        OBVIOUS
  <2>3. rule' \in [Rules -> Settings]
        BY <1>7, <2>2, Zenon DEF EditRule
  <2> QED
      BY <1>7, <2>1, <2>3, Zenon DEF EditRule
<1>8. ASSUME NEW x \in rows, Deliver(x) PROVE TypeOK'
  <2>1. pending' \subseteq Timers /\ pending' \cap claimed' = {} /\ claimed' = claimed
        BY <1>8, NewTimerIsNew DEF Deliver
  <2> QED
      BY <1>8, <2>1, Zenon DEF Deliver
<1>9. ASSUME NEW x \in rows, GiveUp(x) PROVE TypeOK'
      BY <1>9, Zenon DEF GiveUp
<1>10. ASSUME NEW S \in SUBSET pending, ClaimDueActions(S) PROVE TypeOK'
      BY <1>10, Zenon DEF ClaimDueActions, Idle
<1>11. ASSUME NEW S \in SUBSET claimed, RecoverStaleClaims(S) PROVE TypeOK'
      BY <1>11, Zenon DEF RecoverStaleClaims, Idle
<1>12. ASSUME NEW t \in batch, Dispatch(t) PROVE TypeOK'
  <2>1. t \in Timers
        OBVIOUS
  <2> DEFINE renotifies == t.kind = "renotify" /\ Renews(t)
  <2>2. /\ (renotifies /\ Lookup("renotify", t.event, t.rule) = {}) \in BOOLEAN
        /\ (renotifies /\ Raises("renotify", t.event, t.rule)) \in BOOLEAN
        BY Zenon DEF Raises
  <2>3. dispatch' \in DispatchType
    <3>1. (IF t.kind = "escalation" THEN EscalationRows(t) ELSE {}) \in SUBSET Rows
          BY <2>1, EscalationRowsAre
    <3> QED
        BY <1>12, <2>1, <2>2, <3>1, Zenon DEF Dispatch, DispatchType
  <2>4. dispatch'.timer \in claimed' \ batch'
        BY <1>12 DEF Dispatch
  <2> QED
      BY <1>12, <2>3, <2>4, Zenon DEF Dispatch
<1>13. CASE Settle
  <2>1. dispatch \in DispatchType
        BY <1>13, Zenon DEF Settle
  <2>2. rows \subseteq rows' /\ rows' \subseteq Rows
        BY <1>13, <2>1 DEF Settle, DispatchType, Fresh
  <2>3. pending' \subseteq Timers /\ pending' \cap claimed' = {}
        BY <1>13, NewTimerIsNew DEF Settle
  <2>4. claimed' \subseteq Timers /\ batch' \subseteq claimed'
        BY <1>13 DEF Settle
  <2> QED
      BY <1>13, <2>2, <2>3, <2>4, Zenon DEF Settle
<1>14. CASE Retry
  <2>1. dispatch \in DispatchType
        BY <1>14, Zenon DEF Retry
  <2>2. rows \subseteq rows' /\ rows' \subseteq Rows
        BY <1>14, <2>1 DEF Retry, DispatchType, Fresh
  <2>3. faults' \in 0..MaxFaults
        BY <1>14 DEF Retry
  <2>4. pending' \subseteq Timers /\ pending' \cap claimed' = {}
        BY <1>14 DEF Retry
  <2>5. claimed' \subseteq Timers /\ batch' \subseteq claimed'
        BY <1>14 DEF Retry
  <2> QED
      BY <1>14, <2>2, <2>3, <2>4, <2>5, Zenon DEF Retry
<1>15. CASE LoseDispatch
  <2>1. faults' \in 0..MaxFaults
        BY <1>15 DEF LoseDispatch
  <2> QED
      BY <1>15, <2>1, Zenon DEF LoseDispatch
<1>16. CASE Crash
  <2>1. faults' \in 0..MaxFaults /\ request' \in [Requests -> RequestType \cup {NoRequest}]
        BY <1>16 DEF Crash
  <2> QED
      BY <1>16, <2>1, Zenon DEF Crash
<1>17. CASE UNCHANGED vars
      BY <1>17, Zenon DEF vars
<1> QED
    BY <1>1, <1>2, <1>3, <1>4, <1>5, <1>6, <1>7, <1>8, <1>9, <1>10, <1>11, <1>12, <1>13,
       <1>14, <1>15, <1>16, <1>17 DEF Next, WebhookStep, DispatchStep

(* Every reachable state is well typed: in particular what the scheduler   *)
(* dispatches, and what is left of its batch, is always still claimed, and *)
(* never pending as well.                                                  *)
THEOREM TypeCorrect == Spec => []TypeOK
BY TypeInit, TypeNext, PTL DEF Spec

-----------------------------------------------------------------------------
(* Notification.                                                           *)

(* What a request carries to its commit: nothing before it is routed or    *)
(* when it is no transition; rows of its event and alert otherwise, and    *)
(* for a firing alert one for every channel reached.                       *)
Well(h) ==
  LET q == request[h] IN
  /\ (q.stage = "read" \/ ~Transitions(q)) => q.rows = {}
  /\ \A x \in q.rows : x.event = q.event /\ x.trigger = q.alert
  /\ edits = 0 => \A x \in q.rows : rule[x.rule].enabled
  /\ (edits = 0 /\ q.stage = "routed" /\ Transitions(q) /\ q.alert = "firing") =>
       \A c \in Reached(q.event, "firing") : \E x \in q.rows : x.channel = c

RequestsAreWell == \A h \in Requests : request[h].event \in Events => Well(h)

NotifyInv == RequestsAreWell /\ FiringIsNotified

LEMMA NotifyInit == Init => NotifyInv
BY AlertsAssumption DEF Init, NotifyInv, RequestsAreWell, FiringIsNotified, NoRequest

(* Without a change of the rules, what they say does not change.           *)
LEMMA SameRules ==
  ASSUME rule' = rule, NEW e, NEW trigger
  PROVE  /\ Reached(e, trigger)' = Reached(e, trigger)
         /\ Notifying(e, trigger)' = Notifying(e, trigger)
         /\ Escalating(e)' = Escalating(e)
BY DEF Reached, Notifying, Escalating, Suppressed, Reacts

LEMMA NotifiedStays ==
  ASSUME rule' = rule, edits' = edits, status' = status, rows \subseteq rows',
         FiringIsNotified
  PROVE  FiringIsNotified'
<1>1. \A e \in Events : Reached(e, "firing")' = Reached(e, "firing")
      BY SameRules
<1> QED
    BY <1>1 DEF FiringIsNotified, Notified

LEMMA WellStays ==
  ASSUME rule' = rule, edits' = edits, RequestsAreWell,
         NEW h \in Requests, request'[h] \in {request[h], NoRequest}
  PROVE  (request[h].event \in Events => Well(h))'
<1> SUFFICES ASSUME request'[h].event \in Events
             PROVE  Well(h)'
    OBVIOUS
<1> DEFINE q == request[h]
<1>1. request'[h] = q
      BY AlertsAssumption DEF NoRequest
<1>2. Well(h)
      BY <1>1 DEF RequestsAreWell
<1>3. Transitions(q)' <=> Transitions(q)
      BY <1>1 DEF Transitions
<1>4. Reached(q.event, "firing")' = Reached(q.event, "firing")
      BY <1>1 DEF Reached, Notifying, Suppressed, Reacts
<1> QED
    BY <1>1, <1>2, <1>3, <1>4 DEF Well

LEMMA RoutedIsWell ==
  ASSUME TypeOK, RequestsAreWell, NEW h \in Requests, Route(h)
  PROVE  Well(h)'
<1> DEFINE e == request[h].event
           q == [request[h] EXCEPT !.stage = "routed",
                                   !.seen = IF @ = "absent" THEN status[e] ELSE @]
<1>1. e \in Events /\ request[h] \in RequestType /\ request[h].rows = {}
      BY RequestIs DEF Route, RequestsAreWell, Well
<1>2. /\ q.event = e /\ q.alert = request[h].alert /\ q.rows = {} /\ q.stage = "routed"
      /\ q.alert \in Alerts
      BY <1>1 DEF RequestType
<1>3. rule' = rule /\ edits' = edits
      BY DEF Route
<1>4. CASE ~Transitions(q) /\ request' = [request EXCEPT ![h] = q]
  <2>1. request'[h] = q
        BY <1>4 DEF TypeOK
  <2>2. Transitions(request[h])' <=> Transitions(q)
        BY <2>1 DEF Transitions
  <2> HIDE DEF q
  <2> QED
      BY <1>2, <1>4, <2>1, <2>2 DEF Well
<1>5. ASSUME Transitions(q), NEW S \in Stagings(e, q.alert), NEW A,
             request' = [request EXCEPT ![h] = [q EXCEPT !.rows = S, !.arms = A]]
      PROVE  Well(h)'
  <2>1. request'[h] = [q EXCEPT !.rows = S, !.arms = A]
        BY <1>5 DEF TypeOK
  <2>2. /\ request'[h].event = e /\ request'[h].alert = q.alert /\ request'[h].rows = S
        /\ request'[h].stage = "routed" /\ request'[h].seen = q.seen
        BY <1>1, <1>2, <2>1 DEF RequestType
  <2>3. Transitions(request[h])'
        BY <1>5, <2>2 DEF Transitions
  <2>4. /\ \A x \in S : x.event = e /\ x.trigger = q.alert /\ x.rule \in Notifying(e, q.alert)
        /\ \A c \in Reached(e, q.alert) : \E x \in S : x.channel = c
        BY <1>1, <1>2, StagingsAre
  <2>5. Reached(e, "firing")' = Reached(e, "firing")
        BY <1>3, <2>2 DEF Reached, Notifying, Suppressed, Reacts
  <2>6. \A x \in S : rule'[x.rule].enabled
        BY <1>3, <2>4 DEF Notifying, Reacts
  <2> HIDE DEF q
  <2> QED
      BY <2>2, <2>3, <2>4, <2>5, <2>6 DEF Well
<1>6. \/ ~Transitions(q) /\ request' = [request EXCEPT ![h] = q]
      \/ /\ Transitions(q)
         /\ \E S \in Stagings(e, q.alert) : \E A :
              request' = [request EXCEPT ![h] = [q EXCEPT !.rows = S, !.arms = A]]
      BY Zenon DEF Route
<1> QED
    BY <1>4, <1>5, <1>6, Zenon

LEMMA CommitNotifies ==
  ASSUME TypeOK, NotifyInv, NEW h \in Requests, Commit(h)
  PROVE  FiringIsNotified'
<1> DEFINE q == request[h]
<1>1. q.event \in Events /\ q \in RequestType /\ q.stage = "routed" /\ Well(h)
      BY RequestIs DEF Commit, NotifyInv, RequestsAreWell
<1>2. rule' = rule /\ edits' = edits /\ rows \subseteq rows'
      BY DEF Commit
<1> SUFFICES ASSUME NEW e \in Events, status'[e] = "firing", edits' = 0,
                    NEW c \in Reached(e, "firing")'
             PROVE  Notified(e, c, "firing")'
    BY DEF FiringIsNotified
<1>3. c \in Reached(e, "firing")
      BY <1>2, SameRules
<1>4. CASE status[e] = "firing"
      BY <1>2, <1>3, <1>4 DEF NotifyInv, FiringIsNotified, Notified
<1>5. CASE status[e] # "firing"
  <2>1. e = q.event /\ q.alert = "firing" /\ q.seen # "firing"
        BY <1>1, <1>5 DEF Commit, TypeOK
  <2>2. PICK x \in q.rows : x.event = e /\ x.channel = c /\ x.trigger = "firing"
        BY <1>1, <1>2, <1>3, <2>1 DEF Well, Transitions
  <2>3. PICK y \in rows \cup Fresh(q.rows) : SameKey(x, y)
        BY FreshCovers
  <2>4. y \in rows'
        BY <2>3 DEF Commit
  <2> QED
      BY <2>2, <2>3, <2>4 DEF SameKey, Notified
<1> QED
    BY <1>4, <1>5

LEMMA NotifyNext == TypeOK /\ NotifyInv /\ [Next]_vars => NotifyInv'
<1> SUFFICES ASSUME TypeOK, NotifyInv, [Next]_vars PROVE NotifyInv'
    OBVIOUS
<1> USE DEF NotifyInv, outboxVars, timerVars
<1>a. ASSUME rule' = rule, edits' = edits,
             \A h \in Requests : request'[h] \in {request[h], NoRequest}
      PROVE  RequestsAreWell'
      BY <1>a, WellStays DEF RequestsAreWell
<1>1. ASSUME NEW h \in Requests, NEW e \in Events, NEW alert \in Alerts, Receive(h, e, alert)
      PROVE  NotifyInv'
  <2>1. rule' = rule /\ edits' = edits /\ status' = status /\ rows' = rows
        BY <1>1 DEF Receive
  <2>2. /\ request'[h].rows = {} /\ request'[h].stage = "read"
        /\ \A g \in Requests : g # h => request'[g] = request[g]
        BY <1>1 DEF Receive, TypeOK
  <2>3. Well(h)'
        BY <2>2 DEF Well
  <2>4. RequestsAreWell'
        BY <2>1, <2>2, <2>3, WellStays DEF RequestsAreWell
  <2> QED
      BY <2>1, <2>4, NotifiedStays
<1>2. ASSUME NEW h \in Requests, Route(h) PROVE NotifyInv'
  <2>1. rule' = rule /\ edits' = edits /\ status' = status /\ rows' = rows
        BY <1>2 DEF Route
  <2>2. \A g \in Requests : g # h => request'[g] = request[g]
        BY <1>2 DEF Route, TypeOK
  <2>3. Well(h)'
        BY <1>2, RoutedIsWell
  <2>4. RequestsAreWell'
        BY <2>1, <2>2, <2>3, WellStays DEF RequestsAreWell
  <2> QED
      BY <2>1, <2>4, NotifiedStays
<1>3. ASSUME NEW h \in Requests, Commit(h) PROVE NotifyInv'
  <2>1. RequestsAreWell'
        BY <1>3, <1>a DEF Commit, TypeOK
  <2> QED
      BY <1>3, <2>1, CommitNotifies
<1>4. ASSUME NEW h \in Requests, Abort(h) PROVE NotifyInv'
  <2>1. RequestsAreWell'
        BY <1>4, <1>a DEF Abort, TypeOK
  <2> QED
      BY <1>4, <2>1, NotifiedStays DEF Abort
<1>5. ASSUME NEW e \in Events, Ack(e) PROVE NotifyInv'
      BY <1>5, <1>a, NotifiedStays DEF Ack
<1>6. ASSUME NEW e \in Events, Unack(e) PROVE NotifyInv'
      BY <1>6, <1>a, NotifiedStays DEF Unack
<1>7. ASSUME NEW r \in Rules, NEW s \in Choices, EditRule(r, s) PROVE NotifyInv'
  <2>1. edits' # 0
        BY <1>7, AlertsAssumption DEF EditRule, TypeOK
  <2>2. FiringIsNotified'
        BY <2>1 DEF FiringIsNotified
  <2>3. request' = request
        BY <1>7 DEF EditRule
  <2>4. ASSUME NEW h \in Requests, request'[h].event \in Events
        PROVE  Well(h)'
        BY <2>1, <2>3, <2>4 DEF RequestsAreWell, Well, Transitions
  <2> QED
      BY <2>2, <2>4 DEF RequestsAreWell
<1>8. ASSUME NEW x \in rows, Deliver(x) PROVE NotifyInv'
      BY <1>8, <1>a, NotifiedStays DEF Deliver
<1>9. ASSUME NEW x \in rows, GiveUp(x) PROVE NotifyInv'
      BY <1>9, <1>a, NotifiedStays DEF GiveUp
<1>10. ASSUME NEW S \in SUBSET pending, ClaimDueActions(S) PROVE NotifyInv'
      BY <1>10, <1>a, NotifiedStays DEF ClaimDueActions
<1>11. ASSUME NEW S \in SUBSET claimed, RecoverStaleClaims(S) PROVE NotifyInv'
      BY <1>11, <1>a, NotifiedStays DEF RecoverStaleClaims
<1>12. ASSUME NEW t \in batch, Dispatch(t) PROVE NotifyInv'
      BY <1>12, <1>a, NotifiedStays DEF Dispatch
<1>13. CASE Settle
      BY <1>13, <1>a, NotifiedStays DEF Settle
<1>14. CASE Retry
      BY <1>14, <1>a, NotifiedStays DEF Retry
<1>15. CASE LoseDispatch
      BY <1>15, <1>a, NotifiedStays DEF LoseDispatch
<1>16. CASE Crash
      BY <1>16, <1>a, NotifiedStays DEF Crash
<1>17. CASE UNCHANGED vars
      BY <1>17, <1>a, NotifiedStays DEF vars
<1> QED
    BY <1>1, <1>2, <1>3, <1>4, <1>5, <1>6, <1>7, <1>8, <1>9, <1>10, <1>11, <1>12, <1>13,
       <1>14, <1>15, <1>16, <1>17 DEF Next, WebhookStep, DispatchStep

(* No alert fires unheard.  As long as the rules stay as they were, a      *)
(* firing event has a firing row for every channel that the notify rules   *)
(* of its owner and of the teams it is shared with reach, whatever order   *)
(* the webhooks came in and wherever the process crashed.                  *)
THEOREM NoAlertUnheard == Spec => []FiringIsNotified
<1>1. Init => TypeOK /\ NotifyInv
      BY TypeInit, NotifyInit
<1>2. (TypeOK /\ NotifyInv) /\ [Next]_vars => (TypeOK /\ NotifyInv)'
      BY TypeNext, NotifyNext
<1>3. NotifyInv => FiringIsNotified
      BY DEF NotifyInv
<1> QED
    BY <1>1, <1>2, <1>3, PTL DEF Spec

-----------------------------------------------------------------------------
(* The timers: what the steps do to them.                                  *)

(* Which steps change what.                                                *)
LEMMA Steps ==
  ASSUME TypeOK, [Next]_vars
  PROVE  /\ \/ \E h \in Requests : Commit(h)
            \/ \E e \in Events : Ack(e)
            \/ status' = status /\ past' = past
         /\ \/ \E e \in Events : Ack(e) \/ Unack(e)
            \/ acked' = acked
         /\ \/ \E h \in Requests : Commit(h)
            \/ Settle
            \/ Retry
            \/ rows' = rows
         /\ \/ \E h \in Requests, e \in Events, alert \in Alerts : Receive(h, e, alert)
            \/ \E h \in Requests : WebhookStep(h)
            \/ Crash
            \/ request' = request
         /\ \/ \E t \in batch : Dispatch(t)
            \/ Settle \/ Retry \/ LoseDispatch \/ Crash
            \/ dispatch' = dispatch
         /\ \/ \E h \in Requests : Commit(h)
            \/ \E e \in Events : Ack(e)
            \/ \E x \in rows : Deliver(x)
            \/ \E S \in SUBSET pending : ClaimDueActions(S)
            \/ \E S \in SUBSET claimed : RecoverStaleClaims(S)
            \/ Settle \/ Retry
            \/ pending' = pending /\ claimed' = claimed
         /\ \/ \E S \in SUBSET pending : ClaimDueActions(S)
            \/ \E t \in batch : Dispatch(t)
            \/ Crash
            \/ batch' = batch
         /\ \/ \E x \in rows : Deliver(x)
            \/ delivered' = delivered
         /\ (rule' = rule /\ edits' = edits) \/ edits' # 0
         /\ faults' = faults \/ (faults' # 0 /\ faults' # faults)
         /\ (LoseDispatch \/ Crash => faults' # 0)
<1> USE DEF outboxVars, timerVars
<1>f. faults \in Nat /\ AlertsAssumption
  BY AlertsAssumption DEF TypeOK
<1>0. /\ faults' = faults \/ (faults' # 0 /\ faults' # faults)
      /\ (LoseDispatch \/ Crash => faults' # 0)
  <2>1. faults' = faults \/ faults' = faults + 1
    BY Zenon DEF Next, vars, Receive, WebhookStep, Route, Commit, Abort, Ack, Unack, EditRule,
             Deliver, GiveUp, ClaimDueActions, RecoverStaleClaims, DispatchStep, Settle, Retry,
             LoseDispatch, Dispatch, Crash
  <2>2. LoseDispatch \/ Crash => faults' = faults + 1
    BY Zenon DEF LoseDispatch, Crash
  <2> QED
    BY <1>f, <2>1, <2>2
<1> HIDE DEF TypeOK
<1>1. CASE UNCHANGED vars
  BY <1>0, <1>1 DEF vars
<1>2. CASE \E h \in Requests, e \in Events, alert \in Alerts : Receive(h, e, alert)
  BY <1>0, <1>2, Zenon DEF Receive
<1>3. CASE \E h \in Requests : WebhookStep(h)
  BY <1>0, <1>3, Zenon DEF WebhookStep, Route, Commit, Abort
<1>4. CASE \E e \in Events : Ack(e) \/ Unack(e)
  BY <1>0, <1>4, Zenon DEF Ack, Unack
<1>5. CASE \E r \in Rules, s \in Choices : EditRule(r, s)
  <2>1. edits' # 0
    BY <1>5, AlertsAssumption DEF EditRule, TypeOK
  <2> QED
    BY <1>0, <1>5, <2>1, Zenon DEF EditRule
<1>6. CASE \E x \in rows : Deliver(x) \/ GiveUp(x)
  BY <1>0, <1>6, Zenon DEF Deliver, GiveUp
<1>7. CASE \E S \in SUBSET pending : ClaimDueActions(S)
  BY <1>0, <1>7, Zenon DEF ClaimDueActions
<1>8. CASE \E S \in SUBSET claimed : RecoverStaleClaims(S)
  BY <1>0, <1>8, Zenon DEF RecoverStaleClaims
<1>9. CASE DispatchStep
  BY <1>0, <1>9, Zenon DEF DispatchStep, Settle, Retry, LoseDispatch, Dispatch
<1>10. CASE Crash
  BY <1>0, <1>10, Zenon DEF Crash
<1> QED
  BY <1>1, <1>2, <1>3, <1>4, <1>5, <1>6, <1>7, <1>8, <1>9, <1>10, Zenon DEF Next

Timed(k, e, r, t) == t.kind = k /\ t.event = e /\ t.rule = r

Resolves(h) == Transitions(request[h]) /\ request[h].alert = "resolved"

(* Where a timer comes from.                                               *)
LEMMA TimerSource ==
  ASSUME TypeOK, [Next]_vars, NEW t \in (pending \cup claimed)', t \notin pending \cup claimed
  PROVE  \/ \E h \in Requests : /\ Commit(h) /\ t.rule \in request[h].arms
                                /\ t.kind = "escalation" /\ t.event = request[h].event
         \/ \E x \in rows : Deliver(x) /\ Timed("renotify", x.event, x.rule, t)
         \/ /\ Settle /\ dispatch.renew
            /\ Timed("renotify", dispatch.timer.event, dispatch.timer.rule, t)
<1>1. ASSUME NEW h \in Requests, Commit(h)
      PROVE  /\ t.rule \in request[h].arms
             /\ t.kind = "escalation" /\ t.event = request[h].event
  <2>1. PICK r \in request[h].arms : t = NewTimer("escalation", request[h].event, r)
    BY <1>1 DEF Commit
  <2>2. Unused("escalation", request[h].event, r) # {}
    BY <1>1 DEF Commit
  <2> QED
    BY <2>1, <2>2, NewTimerIsNew
<1>2. ASSUME NEW x \in rows, Deliver(x)
      PROVE  Timed("renotify", x.event, x.rule, t)
  <2>1. t = NewTimer("renotify", x.event, x.rule) /\ Unused("renotify", x.event, x.rule) # {}
    BY <1>2 DEF Deliver
  <2> QED
    BY <2>1, NewTimerIsNew DEF Timed
<1>3. CASE Settle
  <2>1. /\ dispatch.renew
        /\ t = NewTimer("renotify", dispatch.timer.event, dispatch.timer.rule)
        /\ Unused("renotify", dispatch.timer.event, dispatch.timer.rule) # {}
    BY <1>3 DEF Settle
  <2> QED
    BY <1>3, <2>1, NewTimerIsNew DEF Timed
<1>4. CASE Retry
  BY <1>4 DEF Retry, TypeOK
<1>5. CASE \E S \in SUBSET pending : ClaimDueActions(S)
  BY <1>5 DEF ClaimDueActions
<1>6. CASE \E S \in SUBSET claimed : RecoverStaleClaims(S)
  BY <1>6 DEF RecoverStaleClaims
<1>7. CASE \E e \in Events : Ack(e)
  BY <1>7 DEF Ack, timerVars
<1> QED
  BY <1>1, <1>2, <1>3, <1>4, <1>5, <1>6, <1>7, Steps, Zenon

(* Where a timer goes.                                                     *)
LEMMA TimerStays ==
  ASSUME TypeOK, [Next]_vars, NEW t \in pending \cup claimed, t \notin (pending \cup claimed)'
  PROVE  \/ Settle /\ t = dispatch.timer
         \/ Ack(t.event) /\ t.event \in Events
         \/ \E h \in Requests : Commit(h) /\ Resolves(h) /\ t.event = request[h].event
<1>0. t.event \in Events
  BY DEF TypeOK, Timers
<1>1. ASSUME NEW h \in Requests, Commit(h)
      PROVE  Resolves(h) /\ t.event = request[h].event
  <2>1. t \in pending /\ t \notin pending'
    BY <1>1 DEF Commit
  <2>2. pending \ (IF Resolves(h) THEN OfEvent(request[h].event) ELSE {}) \subseteq pending'
    BY <1>1, Zenon DEF Commit, Resolves
  <2>3. t \in (IF Resolves(h) THEN OfEvent(request[h].event) ELSE {})
    BY <2>1, <2>2
  <2> QED
    BY <2>3 DEF OfEvent
<1>2. ASSUME NEW e \in Events, Ack(e)
      PROVE  t.event = e
  BY <1>2 DEF Ack, OfEvent
<1>3. CASE Settle
  BY <1>3 DEF Settle
<1>4. CASE Retry
  BY <1>4 DEF Retry
<1>5. CASE \E S \in SUBSET pending : ClaimDueActions(S)
  BY <1>5 DEF ClaimDueActions
<1>6. CASE \E S \in SUBSET claimed : RecoverStaleClaims(S)
  BY <1>6 DEF RecoverStaleClaims
<1>7. CASE \E x \in rows : Deliver(x)
  BY <1>7 DEF Deliver
<1> QED
  BY <1>0, <1>1, <1>2, <1>3, <1>4, <1>5, <1>6, <1>7, Steps, Zenon

(* Rows are never removed, and neither is what an event has gone through.  *)
LEMMA Grows ==
  ASSUME TypeOK, [Next]_vars
  PROVE  /\ rows \subseteq rows'
         /\ \A e \in Events : /\ past[e] \subseteq past'[e]
                              /\ status[e] # "absent" => status'[e] # "absent"
         /\ delivered \subseteq delivered'
<1>1. rows \subseteq rows'
  <2>1. ASSUME NEW h \in Requests, Commit(h) PROVE rows \subseteq rows'
    BY <2>1 DEF Commit
  <2>2. CASE Settle
    BY <2>2 DEF Settle
  <2>3. CASE Retry
    BY <2>3 DEF Retry
  <2> QED
    BY <2>1, <2>2, <2>3, Steps, Zenon
<1>2. \A e \in Events : past[e] \subseteq past'[e]
  <2>1. ASSUME NEW h \in Requests, Commit(h), NEW e \in Events PROVE past[e] \subseteq past'[e]
    BY <2>1 DEF Commit, TypeOK
  <2>2. ASSUME NEW g \in Events, Ack(g), NEW e \in Events PROVE past[e] \subseteq past'[e]
    BY <2>2 DEF Ack, TypeOK
  <2> QED
    BY <2>1, <2>2, Steps, Zenon
<1>3. \A e \in Events : status[e] # "absent" => status'[e] # "absent"
  <2>1. ASSUME NEW h \in Requests, Commit(h), NEW e \in Events, status[e] # "absent"
        PROVE  status'[e] # "absent"
    <3>1. request[h] \in RequestType
      BY <2>1, RequestIs DEF Commit
    <3> QED
      BY <2>1, <3>1 DEF Commit, TypeOK, RequestType, Alerts
  <2>2. ASSUME NEW e \in Events, Ack(e) PROVE status' = status
    BY <2>2 DEF Ack
  <2> QED
    BY <2>1, <2>2, Steps
<1>4. delivered \subseteq delivered'
  <2>1. ASSUME NEW x \in rows, Deliver(x) PROVE delivered \subseteq delivered'
    BY <2>1 DEF Deliver
  <2> QED
    BY <2>1, Steps, Zenon
<1> QED
  BY <1>1, <1>2, <1>3, <1>4

-----------------------------------------------------------------------------
(* What the requests carry.                                                *)

(* An acknowledgement is part of what an event has gone through.           *)
AckedIsPast == \A e \in acked : "acked" \in past[e]

(* No two requests hold the lock of one event.                             *)
OneRouted ==
  \A e \in Events : \A g, h \in Requests : Routed(g, e) /\ Routed(h, e) => g = h

(* Only a firing transition arms escalations, and a routed request that    *)
(* found no event creates it.                                              *)
UpToDate ==
  \A h \in Requests : request[h].event \in Events =>
    LET q == request[h] IN
    /\ q.stage = "read" \/ ~Transitions(q) \/ q.alert = "resolved" => q.arms = {}
    /\ q.stage = "routed" /\ q.seen = "absent" => status[q.event] = "absent"

(* A dispatch stages escalations of its own event, and only renotify       *)
(* cycles are renewed.                                                     *)
DispatchIsWell ==
  dispatch # NoDispatch =>
    /\ \A x \in dispatch.rows : x.event = dispatch.timer.event /\ x.trigger = "escalation"
    /\ dispatch.retry => dispatch.timer.kind = "renotify"
    /\ dispatch.renew => dispatch.timer.kind = "renotify"

(* Without a fault, every claimed action is being attended to.             *)
NoStrayClaim ==
  faults = 0 =>
    \A t \in claimed : t \in batch \/ (dispatch # NoDispatch /\ t = dispatch.timer)

(* What routing a request makes of it.                                     *)
LEMMA RouteDoes ==
  ASSUME TypeOK, UpToDate, NEW h \in Requests, Route(h)
  PROVE  LET q == request[h]
             p == request'[h]
         IN  /\ q \in RequestType /\ q.stage = "read"
             /\ p \in RequestType
             /\ p.stage = "routed" /\ p.event = q.event /\ p.alert = q.alert
             /\ p.seen = IF q.seen = "absent" THEN status[q.event] ELSE q.seen
             /\ ~Transitions(p) \/ p.alert = "resolved" => p.arms = {}
             /\ Transitions(p) /\ p.alert = "firing" =>
                  p.arms = {r \in Escalating(q.event) : Lookup("escalation", q.event, r) = {}}
             /\ \A g \in Requests : g # h => request'[g] = request[g]
             /\ ~Locked(q.event)
<1> DEFINE e == request[h].event
           q == [request[h] EXCEPT !.stage = "routed",
                                   !.seen = IF @ = "absent" THEN status[e] ELSE @]
<1>1. e \in Events /\ request[h] \in RequestType /\ request[h].stage = "read"
      /\ request[h].arms = {} /\ ~Locked(e)
  BY RequestIs DEF Route, UpToDate
<1>2. /\ q.event = e /\ q.alert = request[h].alert /\ q.arms = {} /\ q.stage = "routed"
      /\ q.seen = IF request[h].seen = "absent" THEN status[e] ELSE request[h].seen
      /\ q.alert \in Alerts /\ q \in RequestType
  BY <1>1 DEF RequestType, TypeOK
<1>3. \A g \in Requests : g # h => request'[g] = request[g]
  BY DEF Route, TypeOK
<1>4. ASSUME request'[h].event = e PROVE request'[h] \in RequestType
  <2>1. TypeOK'
    BY TypeNext DEF Next, WebhookStep
  <2> QED
    BY <1>1, <1>4, <2>1, AlertsAssumption DEF TypeOK, NoRequest
<1> DEFINE p == request'[h]
           Does == /\ p.stage = "routed" /\ p.event = e /\ p.alert = q.alert /\ p.seen = q.seen
                   /\ ~Transitions(p) \/ p.alert = "resolved" => p.arms = {}
                   /\ Transitions(p) /\ p.alert = "firing" =>
                        p.arms = {r \in Escalating(e) : Lookup("escalation", e, r) = {}}
<1>5. ASSUME ~Transitions(q), request' = [request EXCEPT ![h] = q]
      PROVE  Does
  <2>1. p = q
    BY <1>5 DEF TypeOK
  <2> HIDE DEF q
  <2> QED
    BY <1>2, <1>5, <2>1
<1>6. ASSUME Transitions(q), NEW S, NEW A,
             A = {r \in Escalating(e) : q.alert = "firing" /\ Lookup("escalation", e, r) = {}},
             request' = [request EXCEPT ![h] = [q EXCEPT !.rows = S, !.arms = A]]
      PROVE  Does
  <2>1. p = [q EXCEPT !.rows = S, !.arms = A]
    BY <1>6 DEF TypeOK
  <2>2. /\ p.event = e /\ p.alert = q.alert /\ p.arms = A /\ p.stage = "routed" /\ p.seen = q.seen
    BY <1>1, <1>2, <2>1 DEF RequestType
  <2>3. Transitions(p)
    BY <1>6, <2>2 DEF Transitions
  <2> HIDE DEF p, q
  <2> QED
    BY <1>2, <1>6, <2>2, <2>3
<1>7. \/ ~Transitions(q) /\ request' = [request EXCEPT ![h] = q]
      \/ /\ Transitions(q)
         /\ \E S, A :
              /\ A = {r \in Escalating(e) : q.alert = "firing" /\ Lookup("escalation", e, r) = {}}
              /\ request' = [request EXCEPT ![h] = [q EXCEPT !.rows = S, !.arms = A]]
  BY Zenon DEF Route
<1>8. Does
  <2> HIDE DEF Does
  <2> QED
    BY <1>5, <1>6, <1>7, Zenon
<1> HIDE DEF q
<1> QED
  BY <1>1, <1>2, <1>3, <1>4, <1>8

(* Where a request comes from.                                             *)
LEMMA RequestSource ==
  ASSUME TypeOK, [Next]_vars, NEW h \in Requests, request'[h].event \in Events
  PROVE  \/ request'[h] = request[h] /\ ~Commit(h)
         \/ request'[h].stage = "read" /\ request'[h].arms = {}
         \/ Route(h)
<1>1. ASSUME NEW g \in Requests, NEW e \in Events, NEW alert \in Alerts, Receive(g, e, alert)
      PROVE  request'[h] = request[h] \/ (request'[h].stage = "read" /\ request'[h].arms = {})
  BY <1>1 DEF Receive, TypeOK
<1>2. ASSUME NEW g \in Requests, WebhookStep(g)
      PROVE  request'[h] = request[h] \/ Route(h)
  <2>1. CASE g # h
    BY <1>2, <2>1 DEF WebhookStep, Route, Commit, Abort, TypeOK
  <2>2. CASE g = h
    BY <1>2, <2>2, AlertsAssumption DEF WebhookStep, Commit, Abort, TypeOK, NoRequest
  <2> QED
    BY <2>1, <2>2
<1>3. ~Crash
  BY AlertsAssumption DEF Crash, NoRequest
<1>4. ~Commit(h)
  BY AlertsAssumption DEF Commit, NoRequest, TypeOK
<1> QED
  BY <1>1, <1>2, <1>3, <1>4, Steps, Zenon

LEMMA AckedIsPastNext == TypeOK /\ AckedIsPast /\ [Next]_vars => AckedIsPast'
<1> SUFFICES ASSUME TypeOK, AckedIsPast, [Next]_vars, NEW e \in acked'
             PROVE  "acked" \in past'[e]
  BY DEF AckedIsPast
<1>1. CASE e \in acked
  BY <1>1, Grows DEF AckedIsPast, TypeOK
<1>2. ASSUME NEW g \in Events, Ack(g), e \notin acked PROVE "acked" \in past'[e]
  BY <1>2 DEF Ack, TypeOK
<1>3. ASSUME NEW g \in Events, Unack(g) PROVE e \in acked
  BY <1>3 DEF Unack
<1> QED
  BY <1>1, <1>2, <1>3, Steps, Zenon

LEMMA OneRoutedNext == TypeOK /\ UpToDate /\ OneRouted /\ [Next]_vars => OneRouted'
<1> SUFFICES ASSUME TypeOK, UpToDate, OneRouted, [Next]_vars,
                    NEW e \in Events, NEW g \in Requests, NEW h \in Requests, g # h,
                    Routed(g, e)', Routed(h, e)'
             PROVE  FALSE
  BY Zenon DEF OneRouted
<1>1. ASSUME NEW a \in Requests, Routed(a, e)'
      PROVE  Routed(a, e) \/ Route(a)
  BY <1>1, RequestSource DEF Routed
<1>2. ASSUME NEW a \in Requests, NEW b \in Requests, a # b, Route(a), Routed(a, e)'
      PROVE  ~Routed(b, e)'
  BY <1>2, RouteDoes DEF Routed, Locked
<1> QED
  BY <1>1, <1>2 DEF OneRouted

LEMMA UpToDateNext == TypeOK /\ UpToDate /\ OneRouted /\ [Next]_vars => UpToDate'
<1> SUFFICES ASSUME TypeOK, UpToDate, OneRouted, [Next]_vars,
                    NEW h \in Requests, request'[h].event \in Events
             PROVE  LET q == request'[h] IN
                    /\ q.stage = "read" \/ ~Transitions(q) \/ q.alert = "resolved" => q.arms = {}
                    /\ q.stage = "routed" /\ q.seen = "absent" => status'[q.event] = "absent"
  BY DEF UpToDate, Transitions
<1>1. CASE request'[h] = request[h] /\ ~Commit(h)
  <2>1. ASSUME request[h].stage = "routed", status'[request[h].event] # status[request[h].event]
        PROVE  FALSE
    <3>1. PICK g \in Requests : Commit(g)
      BY <2>1, Steps DEF Ack
    <3>2. request[g].event = request[h].event
      BY <1>1, <2>1, <3>1 DEF Commit, TypeOK
    <3>3. g = h
      BY <1>1, <2>1, <3>1, <3>2 DEF OneRouted, Routed, Commit
    <3> QED
      BY <1>1, <3>1, <3>3
  <2> QED
    BY <1>1, <2>1 DEF UpToDate
<1>2. CASE request'[h].stage = "read" /\ request'[h].arms = {}
  BY <1>2
<1>3. CASE Route(h)
  <2>1. status' = status
    BY <1>3 DEF Route
  <2> QED
    BY <1>3, <2>1, RouteDoes
<1> QED
  BY <1>1, <1>2, <1>3, RequestSource

LEMMA DispatchIsWellNext == TypeOK /\ DispatchIsWell /\ [Next]_vars => DispatchIsWell'
<1> SUFFICES ASSUME TypeOK, DispatchIsWell, [Next]_vars, dispatch' # NoDispatch
             PROVE  /\ \A x \in dispatch'.rows : /\ x.event = dispatch'.timer.event
                                                 /\ x.trigger = "escalation"
                    /\ dispatch'.retry => dispatch'.timer.kind = "renotify"
                    /\ dispatch'.renew => dispatch'.timer.kind = "renotify"
  BY DEF DispatchIsWell
<1>1. CASE dispatch' = dispatch
  BY <1>1 DEF DispatchIsWell
<1>2. ASSUME NEW t \in batch, Dispatch(t)
      PROVE  /\ \A x \in dispatch'.rows : /\ x.event = dispatch'.timer.event
                                          /\ x.trigger = "escalation"
             /\ dispatch'.retry => dispatch'.timer.kind = "renotify"
             /\ dispatch'.renew => dispatch'.timer.kind = "renotify"
  <2>1. t \in Timers
    BY DEF TypeOK
  <2>2. /\ dispatch'.timer = t
        /\ dispatch'.rows = IF t.kind = "escalation" THEN EscalationRows(t) ELSE {}
        /\ dispatch'.renew => t.kind = "renotify"
        /\ dispatch'.retry => t.kind = "renotify"
    BY <1>2 DEF Dispatch
  <2> QED
    BY <2>1, <2>2, EscalationRowsAre
<1>3. ~(Settle \/ Retry \/ LoseDispatch \/ Crash)
  BY DEF Settle, Retry, LoseDispatch, Crash
<1> QED
  BY <1>1, <1>2, <1>3, Steps, Zenon

LEMMA NoStrayClaimNext == TypeOK /\ NoStrayClaim /\ [Next]_vars => NoStrayClaim'
<1> SUFFICES ASSUME TypeOK, NoStrayClaim, [Next]_vars, faults' = 0, NEW t \in claimed'
             PROVE  t \in batch' \/ (dispatch' # NoDispatch /\ t = dispatch'.timer)
  BY DEF NoStrayClaim
<1>1. faults = 0 /\ ~LoseDispatch /\ ~Crash
  BY Steps
<1>2. ASSUME t \in claimed, batch' = batch, dispatch' = dispatch
      PROVE  t \in batch' \/ (dispatch' # NoDispatch /\ t = dispatch'.timer)
  BY <1>1, <1>2 DEF NoStrayClaim
<1>3. ASSUME NEW S \in SUBSET pending, ClaimDueActions(S) PROVE t \in batch'
  BY <1>1, <1>3 DEF ClaimDueActions, NoStrayClaim, Idle
<1>4. ASSUME NEW u \in batch, Dispatch(u)
      PROVE  t \in batch' \/ (dispatch' # NoDispatch /\ t = dispatch'.timer)
  <2>1. t \in claimed /\ batch' = batch \ {u} /\ dispatch = NoDispatch /\ dispatch'.timer = u
    BY <1>4 DEF Dispatch
  <2>3. dispatch' # NoDispatch
    BY <1>4, AlertsAssumption DEF Dispatch, NoDispatch, TypeOK
  <2> QED
    BY <1>1, <2>1, <2>3 DEF NoStrayClaim
<1>5. CASE Settle \/ Retry
  BY <1>1, <1>5 DEF Settle, Retry, NoStrayClaim
<1>6. ASSUME NEW S \in SUBSET claimed, RecoverStaleClaims(S) PROVE FALSE
  BY <1>1, <1>6 DEF RecoverStaleClaims, NoStrayClaim, Idle
<1>7. t \in claimed \/ \E S \in SUBSET pending : ClaimDueActions(S)
  BY Steps, Zenon DEF Commit, Ack, Deliver, RecoverStaleClaims, Settle, Retry
<1> QED
  BY <1>1, <1>2, <1>3, <1>4, <1>5, <1>6, <1>7, Steps, Zenon

-----------------------------------------------------------------------------
(* What a commit leaves behind.                                            *)

(* A row of a firing alert was staged by an enabled rule, for an event     *)
(* that fires unless it has been resolved or acknowledged.                 *)
RowsAreWell ==
  \A x \in rows : x.trigger = "firing" =>
    /\ edits = 0 => rule[x.rule].enabled
    /\ past[x.event] = {} => status[x.event] = "firing"

(* Without faults, an escalation pends for firing events only.             *)
NothingLeft ==
  faults = 0 => \A t \in pending : t.kind = "escalation" => status[t.event] = "firing"

Transitioning(h, alert) ==
  LET q == request[h] IN
  q.event \in Events /\ q.stage = "routed" /\ Transitions(q) /\ q.alert = alert

(* A request that makes an event fire arms what escalates, unless the      *)
(* event fires already.                                                    *)
ArmsSuffice ==
  edits = 0 /\ faults = 0 =>
    \A h \in Requests : Transitioning(h, "firing") =>
      \A r \in Escalating(request[h].event) :
        r \in request[h].arms \/ status[request[h].event] = "firing"

LEMMA CommitDoes ==
  ASSUME TypeOK, UpToDate, NEW h \in Requests, Commit(h)
  PROVE  LET q == request[h]
             e == q.event
         IN  /\ e \in Events /\ q \in RequestType /\ q.stage = "routed"
             /\ status'[e] = IF q.seen = q.alert THEN status[e] ELSE q.alert
             /\ past'[e] = IF Resolves(h) THEN past[e] \cup {"resolved"} ELSE past[e]
             /\ \A d \in Events : d # e => status'[d] = status[d] /\ past'[d] = past[d]
             /\ q.arms # {} => status'[e] = "firing" /\ q.alert = "firing" /\ Transitions(q)
             /\ status'[e] # "firing" /\ status[e] = "firing" => Resolves(h)
             /\ rule' = rule /\ edits' = edits /\ claimed' = claimed /\ dispatch' = dispatch
             /\ delivered' = delivered /\ faults' = faults /\ acked' = acked
             /\ \A g \in Requests : g # h => request'[g] = request[g]
<1> DEFINE q == request[h]
           e == q.event
<1>1. e \in Events /\ q \in RequestType /\ q.stage = "routed"
  BY RequestIs DEF Commit
<1>2. /\ status' = [status EXCEPT ![e] = IF q.seen = q.alert THEN @ ELSE q.alert]
      /\ past' = [past EXCEPT ![e] = IF Resolves(h) THEN @ \cup {"resolved"} ELSE @]
      /\ rule' = rule /\ edits' = edits /\ claimed' = claimed /\ dispatch' = dispatch
      /\ delivered' = delivered /\ faults' = faults /\ acked' = acked
      /\ request' = [request EXCEPT ![h] = NoRequest]
  BY DEF Commit, Resolves
<1>3. /\ status'[e] = IF q.seen = q.alert THEN status[e] ELSE q.alert
      /\ past'[e] = IF Resolves(h) THEN past[e] \cup {"resolved"} ELSE past[e]
      /\ \A d \in Events : d # e => status'[d] = status[d] /\ past'[d] = past[d]
      /\ \A g \in Requests : g # h => request'[g] = request[g]
  BY <1>1, <1>2 DEF TypeOK
<1>4. q.alert \in Alerts /\ q.seen \in Statuses
  BY <1>1 DEF RequestType
<1>5. q.arms # {} => status'[e] = "firing" /\ q.alert = "firing" /\ Transitions(q)
  BY <1>1, <1>3, <1>4 DEF UpToDate, Transitions, Alerts
<1>6. ASSUME status'[e] # "firing", status[e] = "firing"
      PROVE  Resolves(h)
  <2>1. q.alert = "resolved" /\ q.seen # q.alert /\ q.seen # "absent"
    BY <1>1, <1>3, <1>4, <1>6 DEF UpToDate, Alerts
  <2> QED
    BY <2>1 DEF Resolves, Transitions
<1> QED
  BY <1>1, <1>2, <1>3, <1>5, <1>6

(* Where a row comes from.                                                 *)
LEMMA RowSource ==
  ASSUME TypeOK, RequestsAreWell, DispatchIsWell, [Next]_vars, NEW x \in rows', x \notin rows
  PROVE  \/ \E h \in Requests : /\ Commit(h) /\ x \in request[h].rows
                                /\ Transitions(request[h])
                                /\ x.event = request[h].event /\ x.trigger = request[h].alert
         \/ /\ dispatch # NoDispatch /\ x \in dispatch.rows
            /\ x.event = dispatch.timer.event /\ x.trigger = "escalation"
<1>1. ASSUME NEW h \in Requests, Commit(h)
      PROVE  /\ x \in request[h].rows /\ Transitions(request[h])
             /\ x.event = request[h].event /\ x.trigger = request[h].alert
  <2>1. x \in request[h].rows /\ Well(h)
    BY <1>1 DEF Commit, Fresh, RequestsAreWell
  <2> QED
    BY <1>1, <2>1 DEF Well, Commit
<1>2. CASE Settle
  BY <1>2 DEF Settle, Fresh, DispatchIsWell
<1>3. CASE Retry
  BY <1>3 DEF Retry, Fresh, DispatchIsWell
<1> QED
  BY <1>1, <1>2, <1>3, Steps, Zenon

(* What a step can do to the status of an event that fires.                *)
LEMMA StaysFiring ==
  ASSUME TypeOK, UpToDate, [Next]_vars, NEW e \in Events,
         status[e] = "firing", status'[e] # "firing"
  PROVE  /\ past'[e] # {}
         /\ \E h \in Requests : Commit(h) /\ Resolves(h) /\ request[h].event = e
<1>1. PICK h \in Requests : Commit(h)
  BY Steps DEF Ack
<1>2. request[h].event = e /\ Resolves(h)
  BY <1>1, CommitDoes
<1> QED
  BY <1>1, <1>2, CommitDoes

LEMMA RowsAreWellNext ==
  /\ TypeOK /\ RequestsAreWell /\ UpToDate /\ DispatchIsWell /\ RowsAreWell /\ [Next]_vars
  => RowsAreWell'
<1> SUFFICES ASSUME TypeOK, RequestsAreWell, UpToDate, DispatchIsWell, RowsAreWell,
                    [Next]_vars, NEW x \in rows', x.trigger = "firing"
             PROVE  /\ edits' = 0 => rule'[x.rule].enabled
                    /\ past'[x.event] = {} => status'[x.event] = "firing"
  BY DEF RowsAreWell
<1>1. edits' = 0 => rule' = rule /\ edits = 0
  BY Steps
<1>2. CASE x \in rows
  <2>1. x.event \in Events
    BY <1>2 DEF TypeOK, Rows
  <2>2. past'[x.event] = {} => past[x.event] = {}
    BY <2>1, Grows
  <2> QED
    BY <1>1, <1>2, <2>1, <2>2, StaysFiring DEF RowsAreWell
<1>3. ASSUME NEW h \in Requests, Commit(h), x \in request[h].rows, Transitions(request[h]),
             x.event = request[h].event, x.trigger = request[h].alert
      PROVE  /\ edits' = 0 => rule'[x.rule].enabled
             /\ past'[x.event] = {} => status'[x.event] = "firing"
  <2>1. Well(h)
    BY <1>3, CommitDoes DEF RequestsAreWell
  <2>2. status'[x.event] = "firing"
    BY <1>3, CommitDoes DEF Transitions
  <2> QED
    BY <1>1, <1>3, <2>1, <2>2 DEF Well
<1> QED
  BY <1>2, <1>3, RowSource

LEMMA NothingLeftNext ==
  /\ TypeOK /\ UpToDate /\ DispatchIsWell /\ NoStrayClaim /\ NothingLeft /\ [Next]_vars
  => NothingLeft'
<1> SUFFICES ASSUME TypeOK, UpToDate, DispatchIsWell, NoStrayClaim, NothingLeft, [Next]_vars,
                    faults' = 0, NEW t \in pending', t.kind = "escalation"
             PROVE  status'[t.event] = "firing"
  BY DEF NothingLeft
<1>1. faults = 0
  BY Steps
<1>2. CASE t \in pending
  <2>1. t.event \in Events /\ status[t.event] = "firing"
    BY <1>1, <1>2 DEF NothingLeft, TypeOK, Timers
  <2>2. ASSUME NEW h \in Requests, Commit(h), Resolves(h), request[h].event = t.event
        PROVE  FALSE
    <3>1. t \notin pending \ OfEvent(t.event)
      BY DEF OfEvent
    <3>2. PICK r \in request[h].arms : t = NewTimer("escalation", t.event, r)
      BY <2>2, <3>1 DEF Commit, Resolves
    <3> QED
      BY <2>2, <3>2, CommitDoes DEF Resolves
  <2> QED
    BY <2>1, <2>2, StaysFiring
<1>3. CASE t \notin pending /\ t \in claimed
  <2>1. CASE Retry
    <3>1. t = dispatch.timer /\ dispatch # NoDispatch /\ dispatch.retry
      BY <1>1, <1>3, <2>1, Steps DEF Retry
    <3> QED
      BY <3>1 DEF DispatchIsWell
  <2>2. ASSUME NEW S \in SUBSET claimed, RecoverStaleClaims(S)
        PROVE  FALSE
    BY <1>1, <1>3, <2>2 DEF RecoverStaleClaims, NoStrayClaim, Idle
  <2>3. ASSUME NEW S \in SUBSET pending, ClaimDueActions(S)
        PROVE  FALSE
    BY <1>3, <2>3 DEF ClaimDueActions
  <2>4. ASSUME NEW h \in Requests, Commit(h)
        PROVE  FALSE
    <3>1. PICK r \in request[h].arms : t = NewTimer("escalation", request[h].event, r)
      BY <1>3, <2>4 DEF Commit
    <3>2. Unused("escalation", request[h].event, r) # {}
      BY <2>4 DEF Commit
    <3> QED
      BY <1>3, <3>1, <3>2, NewTimerIsNew
  <2>5. ASSUME NEW x \in rows, Deliver(x)
        PROVE  FALSE
    BY <1>3, <2>5, NewTimerIsNew DEF Deliver
  <2>6. CASE Settle
    BY <1>3, <2>6, NewTimerIsNew DEF Settle
  <2>7. ASSUME NEW e \in Events, Ack(e)
        PROVE  FALSE
    BY <1>3, <2>7 DEF Ack
  <2> QED
    BY <1>3, <2>1, <2>2, <2>3, <2>4, <2>5, <2>6, <2>7, Steps, Zenon
<1>4. CASE t \notin pending /\ t \notin claimed
  <2>1. PICK h \in Requests : Commit(h) /\ t.rule \in request[h].arms /\ t.event = request[h].event
    BY <1>4, TimerSource DEF Timed
  <2> QED
    BY <2>1, CommitDoes
<1> QED
  BY <1>2, <1>3, <1>4

LEMMA ArmsSufficeNext ==
  /\ TypeOK /\ UpToDate /\ OneRouted /\ NothingLeft /\ ArmsSuffice /\ [Next]_vars
  => ArmsSuffice'
<1> SUFFICES ASSUME TypeOK, UpToDate, OneRouted, NothingLeft, ArmsSuffice, [Next]_vars,
                    edits' = 0, faults' = 0,
                    NEW h \in Requests, Transitioning(h, "firing")',
                    NEW r \in Escalating(request[h].event)'
             PROVE  r \in request'[h].arms \/ status'[request'[h].event] = "firing"
  BY DEF ArmsSuffice
<1> DEFINE e == request'[h].event
<1>1. edits = 0 /\ faults = 0 /\ rule' = rule
  BY Steps
<1>2. /\ e \in Events /\ request'[h].stage = "routed" /\ Transitions(request'[h])
      /\ request'[h].alert = "firing"
  BY DEF Transitioning, Transitions
<1>3. r \in Escalating(e)
  BY <1>1 DEF Escalating, Notifying, Suppressed, Reacts
<1>4. CASE request'[h] = request[h] /\ ~Commit(h)
  <2>1. r \in request[h].arms \/ status[e] = "firing"
    BY <1>1, <1>2, <1>3, <1>4 DEF ArmsSuffice, Transitioning
  <2>2. ASSUME NEW g \in Requests, Commit(g), request[g].event = e
        PROVE  FALSE
    BY <1>2, <1>4, <2>2, CommitDoes DEF OneRouted, Routed
  <2> QED
    BY <1>2, <1>4, <2>1, <2>2, StaysFiring
<1>5. CASE Route(h)
  <2>1. /\ request[h].event = e /\ status' = status
        /\ request'[h].arms = {s \in Escalating(e) : Lookup("escalation", e, s) = {}}
    BY <1>2, <1>5, RouteDoes DEF Route
  <2>2. CASE Lookup("escalation", e, r) = {}
    BY <1>3, <2>1, <2>2
  <2>3. ASSUME NEW t \in Lookup("escalation", e, r)
        PROVE  status[e] = "firing"
    BY <1>1, <2>3 DEF Lookup, NothingLeft
  <2> QED
    BY <2>1, <2>2, <2>3
<1> QED
  BY <1>2, <1>4, <1>5, RequestSource

-----------------------------------------------------------------------------
(* Escalations.                                                            *)

Unheeded(e) == status[e] = "firing" /\ "acked" \notin past[e] /\ edits = 0 /\ faults = 0

(* Another action than the one being dispatched is alive.                  *)
OthersScheduled(k, e, r) ==
  \E t \in pending \cup claimed : t # dispatch.timer /\ Timed(k, e, r, t)

(* The dispatch of an escalation that is still due stages it, unless it    *)
(* was sent before or another one is alive: the event may have been        *)
(* re-opened since the dispatch looked at it.                              *)
EscalationIsSent ==
  LET t == dispatch.timer IN
  /\ dispatch # NoDispatch /\ t.kind = "escalation"
  /\ Unheeded(t.event) /\ t.rule \in Escalating(t.event)
  => \/ \A c \in EscalationsOf[t.rule] : \E x \in dispatch.rows : x.channel = c
     \/ Escalated(t.event, t.rule)
     \/ OthersScheduled("escalation", t.event, t.rule)

(* A timer survives every step that leaves its event unheeded, but the end *)
(* of its own dispatch.                                                    *)
LEMMA UnheededStays ==
  ASSUME TypeOK, UpToDate, [Next]_vars, NEW t \in pending \cup claimed,
         "acked" \notin past'[t.event], status'[t.event] = "firing" \/ past'[t.event] = {}
  PROVE  t \in (pending \cup claimed)' \/ (Settle /\ t = dispatch.timer)
<1>0. t.event \in Events
  BY DEF TypeOK, Timers
<1>1. ~Ack(t.event)
  BY <1>0 DEF Ack, TypeOK
<1>2. ASSUME NEW h \in Requests, Commit(h), Resolves(h), t.event = request[h].event
      PROVE  FALSE
  BY <1>2, CommitDoes DEF Resolves, Transitions
<1> QED
  BY <1>1, <1>2, TimerStays

(* An event that begins to fire has its escalations armed.                 *)
LEMMA BecomesFiring ==
  ASSUME TypeOK, UpToDate, ArmsSuffice, [Next]_vars, NEW e \in Events,
         status[e] # "firing", status'[e] = "firing", edits = 0, faults = 0,
         NEW r \in Escalating(e)
  PROVE  \E t \in pending' : t \notin pending \cup claimed /\ Timed("escalation", e, r, t)
<1>1. PICK h \in Requests : Commit(h)
  BY Steps DEF Ack
<1>2. /\ request[h].event = e /\ request[h].alert = "firing" /\ request[h].stage = "routed"
      /\ Transitions(request[h])
  BY <1>1, CommitDoes DEF Transitions
<1>3. r \in request[h].arms
  BY <1>2 DEF ArmsSuffice, Transitioning
<1>4. NewTimer("escalation", e, r) \in pending' /\ Unused("escalation", e, r) # {}
  BY <1>1, <1>2, <1>3 DEF Commit
<1> QED
  BY <1>4, NewTimerIsNew DEF Timed

LEMMA EscalatedStays ==
  ASSUME NEW e, NEW r, Escalated(e, r), rows \subseteq rows'
  PROVE  Escalated(e, r)'
BY DEF Escalated, Notified

LEMMA EscalationIsSentNext ==
  /\ TypeOK /\ AckedIsPast /\ UpToDate /\ ArmsSuffice /\ EscalationIsSent /\ [Next]_vars
  => EscalationIsSent'
<1> DEFINE t == dispatch'.timer
<1> SUFFICES ASSUME TypeOK, AckedIsPast, UpToDate, ArmsSuffice, EscalationIsSent, [Next]_vars,
                    dispatch' # NoDispatch, t.kind = "escalation", Unheeded(dispatch.timer.event)',
                    (dispatch.timer.rule \in Escalating(dispatch.timer.event))'
             PROVE  \/ \A c \in EscalationsOf[t.rule] : \E x \in dispatch'.rows : x.channel = c
                    \/ Escalated(dispatch.timer.event, dispatch.timer.rule)'
                    \/ OthersScheduled("escalation", dispatch.timer.event, dispatch.timer.rule)'
  BY DEF EscalationIsSent
<1>1. /\ status'[t.event] = "firing" /\ "acked" \notin past'[t.event]
      /\ edits = 0 /\ faults = 0 /\ rule' = rule
  BY Steps DEF Unheeded
<1>2. t.rule \in Escalating(t.event)
  BY <1>1 DEF Escalating, Notifying, Suppressed, Reacts
<1>3. ASSUME NEW u \in batch, Dispatch(u)
      PROVE  \A c \in EscalationsOf[t.rule] : \E x \in dispatch'.rows : x.channel = c
  <2>1. t = u /\ dispatch'.rows = EscalationRows(u) /\ status' = status /\ past' = past
    BY <1>3 DEF Dispatch
  <2>2. Live(u.event)
    BY <1>1, <2>1 DEF Live, AckedIsPast
  <2>3. rule[u.rule].enabled /\ rule[u.rule].escalates
    BY <1>2, <2>1 DEF Escalating, Notifying, Reacts
  <2>4. ASSUME NEW c \in EscalationsOf[t.rule]
        PROVE  \E x \in dispatch'.rows : x.channel = c
    <3>1. [event |-> u.event, channel |-> c, trigger |-> "escalation", rule |-> u.rule]
            \in EscalationRows(u)
      BY <2>1, <2>2, <2>3 DEF EscalationRows
    <3> QED
      BY <2>1, <3>1
  <2> QED
    BY <2>4
<1>4. ~(Settle \/ Retry \/ LoseDispatch \/ Crash)
  BY DEF Settle, Retry, LoseDispatch, Crash
<1>5. CASE dispatch' = dispatch
  <2>1. t \in claimed /\ t.event \in Events /\ rows \subseteq rows'
    BY <1>5, Grows DEF TypeOK, Timers
  <2>2. CASE status[t.event] = "firing"
    <3>1. "acked" \notin past[t.event]
      BY <1>1, <2>1, Grows
    <3>2. \/ \A c \in EscalationsOf[t.rule] : \E x \in dispatch.rows : x.channel = c
          \/ Escalated(t.event, t.rule)
          \/ OthersScheduled("escalation", t.event, t.rule)
      BY <1>1, <1>2, <1>5, <2>2, <3>1 DEF EscalationIsSent, Unheeded
    <3>3. CASE Escalated(t.event, t.rule)
      BY <1>5, <2>1, <3>3, EscalatedStays
    <3>4. CASE OthersScheduled("escalation", t.event, t.rule)
      <4>1. PICK u \in pending \cup claimed : u # t /\ Timed("escalation", t.event, t.rule, u)
        BY <1>5, <3>4 DEF OthersScheduled
      <4>2. u \in (pending \cup claimed)'
        BY <1>1, <1>4, <4>1, UnheededStays DEF Timed
      <4> QED
        BY <4>1, <4>2 DEF OthersScheduled, Timed
    <3> QED
      BY <1>5, <3>2, <3>3, <3>4
  <2>3. CASE status[t.event] # "firing"
    <3>1. PICK u \in pending' : /\ u \notin pending \cup claimed
                               /\ Timed("escalation", t.event, t.rule, u)
      BY <1>1, <1>2, <2>1, <2>3, BecomesFiring
    <3> QED
      BY <2>1, <3>1 DEF OthersScheduled, Timed
  <2> QED
    BY <2>2, <2>3
<1> QED
  BY <1>3, <1>4, <1>5, Steps, Zenon

LEMMA EscalationArmedNext ==
  /\ TypeOK /\ UpToDate /\ DispatchIsWell /\ ArmsSuffice /\ EscalationIsSent /\ EscalationArmed
  /\ [Next]_vars
  => EscalationArmed'
<1> SUFFICES ASSUME TypeOK, UpToDate, DispatchIsWell, ArmsSuffice, EscalationIsSent,
                    EscalationArmed, [Next]_vars,
                    NEW e \in Events, NEW r \in Escalating(e)',
                    status'[e] = "firing", "acked" \notin past'[e], edits' = 0, faults' = 0
             PROVE  Escalated(e, r)' \/ Scheduled("escalation", e, r)'
  BY DEF EscalationArmed
<1>1. edits = 0 /\ faults = 0 /\ rule' = rule /\ rows \subseteq rows' /\ "acked" \notin past[e]
  BY Steps, Grows
<1>2. r \in Escalating(e)
  BY <1>1 DEF Escalating, Notifying, Suppressed, Reacts
<1>3. CASE status[e] # "firing"
  <2>1. PICK t \in pending' : Timed("escalation", e, r, t)
    BY <1>1, <1>2, <1>3, BecomesFiring
  <2> QED
    BY <2>1 DEF Scheduled, Timed
<1>4. CASE Escalated(e, r)
  BY <1>1, <1>4, EscalatedStays
<1>5. ASSUME status[e] = "firing", NEW t \in pending \cup claimed, Timed("escalation", e, r, t),
             t \notin (pending \cup claimed)'
      PROVE  Escalated(e, r)' \/ Scheduled("escalation", e, r)'
  <2>1. Settle /\ t = dispatch.timer /\ dispatch # NoDispatch
    BY <1>5, UnheededStays DEF Timed, Settle
  <2>2. \/ \A c \in EscalationsOf[r] : \E x \in dispatch.rows : x.channel = c
        \/ OthersScheduled("escalation", e, r)
        \/ Escalated(e, r)
    BY <1>1, <1>2, <1>5, <2>1 DEF EscalationIsSent, Unheeded, Timed
  <2>3. CASE \A c \in EscalationsOf[r] : \E x \in dispatch.rows : x.channel = c
    <3>1. ASSUME NEW c \in EscalationsOf[r] PROVE Notified(e, c, "escalation")'
      <4>1. PICK x \in dispatch.rows : x.channel = c
        BY <2>3
      <4>2. x.event = e /\ x.trigger = "escalation"
        BY <1>5, <2>1 DEF DispatchIsWell, Timed
      <4>3. PICK y \in rows \cup Fresh(dispatch.rows) : SameKey(x, y)
        BY FreshCovers
      <4>4. y \in rows'
        BY <2>1, <4>3 DEF Settle
      <4> QED
        BY <4>1, <4>2, <4>3, <4>4 DEF Notified, SameKey
    <3> QED
      BY <3>1 DEF Escalated
  <2>4. CASE OthersScheduled("escalation", e, r)
    <3>1. PICK u \in pending \cup claimed : u # dispatch.timer /\ Timed("escalation", e, r, u)
      BY <2>4 DEF OthersScheduled
    <3>2. u \in (pending \cup claimed)'
      BY <3>1, UnheededStays DEF Timed
    <3> QED
      BY <3>1, <3>2 DEF Scheduled, Timed
  <2> QED
    BY <1>4, <2>2, <2>3, <2>4
<1>6. status[e] = "firing" => Escalated(e, r) \/ Scheduled("escalation", e, r)
  BY <1>1, <1>2 DEF EscalationArmed
<1> QED
  BY <1>3, <1>4, <1>5, <1>6 DEF Scheduled, Timed

-----------------------------------------------------------------------------
(* Renotify cycles.                                                        *)

(* A dispatch that does not renew the cycle of a delivered row leaves it   *)
(* to another action, for as long as nobody attends to the event.          *)
CycleGoesOn ==
  LET t == dispatch.timer IN
  /\ dispatch # NoDispatch /\ t.kind = "renotify" /\ ~dispatch.retry /\ ~dispatch.renew
  /\ past[t.event] = {} /\ edits = 0 /\ rule[t.rule].renotifies
  /\ \E x \in delivered : x.trigger = "firing" /\ x.event = t.event /\ x.rule = t.rule
  => OthersScheduled("renotify", t.event, t.rule)

LEMMA CycleGoesOnNext ==
  /\ TypeOK /\ AckedIsPast /\ UpToDate /\ RowsAreWell /\ CycleGoesOn /\ [Next]_vars
  => CycleGoesOn'
<1> DEFINE t == dispatch'.timer
<1> SUFFICES ASSUME TypeOK, AckedIsPast, UpToDate, RowsAreWell, CycleGoesOn, [Next]_vars,
                    dispatch' # NoDispatch, t.kind = "renotify",
                    ~dispatch'.retry, ~dispatch'.renew,
                    past'[t.event] = {}, edits' = 0, rule'[t.rule].renotifies,
                    NEW x \in delivered', x.trigger = "firing", x.event = t.event, x.rule = t.rule
             PROVE  OthersScheduled("renotify", dispatch.timer.event, dispatch.timer.rule)'
  BY DEF CycleGoesOn
<1>1. edits = 0 /\ rule' = rule
  BY Steps
<1>2. ASSUME NEW y \in rows, Deliver(y) PROVE FALSE
  BY <1>2 DEF Deliver, Idle
<1>3. x \in delivered
  BY <1>2, Steps
<1>4. x \in rows /\ x.event \in Events /\ past[x.event] = {}
  BY <1>3, Grows DEF TypeOK, Rows
<1>5. ~(Settle \/ Retry \/ LoseDispatch \/ Crash)
  BY DEF Settle, Retry, LoseDispatch, Crash
<1>6. CASE dispatch' = dispatch
  <2>1. OthersScheduled("renotify", t.event, t.rule)
    BY <1>1, <1>3, <1>4, <1>6 DEF CycleGoesOn
  <2>2. PICK u \in pending \cup claimed : u # t /\ Timed("renotify", t.event, t.rule, u)
    BY <1>6, <2>1 DEF OthersScheduled
  <2>3. u \in (pending \cup claimed)'
    BY <1>5, <2>2, UnheededStays DEF Timed
  <2> QED
    BY <2>2, <2>3 DEF OthersScheduled, Timed
<1>7. ASSUME NEW u \in batch, Dispatch(u)
      PROVE  OthersScheduled("renotify", dispatch.timer.event, dispatch.timer.rule)'
  <2>1. /\ t = u /\ pending' = pending
        /\ dispatch'.renew <=> /\ u.kind = "renotify" /\ Renews(u)
                               /\ Lookup("renotify", u.event, u.rule) = {}
    BY <1>7 DEF Dispatch
  <2>2. Renews(u)
    BY <1>1, <1>4, <2>1 DEF Renews, Live, RowsAreWell, AckedIsPast
  <2>3. PICK v \in pending : Timed("renotify", u.event, u.rule, v)
    BY <2>1, <2>2 DEF Lookup, Timed
  <2>4. v # u
    BY <1>7 DEF TypeOK
  <2> QED
    BY <2>1, <2>3, <2>4 DEF OthersScheduled, Timed
<1> QED
  BY <1>5, <1>6, <1>7, Steps, Zenon

LEMMA RenotifyArmedNext ==
  /\ TypeOK /\ UpToDate /\ CycleGoesOn /\ RenotifyArmed /\ [Next]_vars => RenotifyArmed'
<1> SUFFICES ASSUME TypeOK, UpToDate, CycleGoesOn, RenotifyArmed, [Next]_vars,
                    NEW x \in delivered', x.trigger = "firing", rule'[x.rule].renotifies,
                    past'[x.event] = {}, edits' = 0
             PROVE  Scheduled("renotify", x.event, x.rule)'
  BY DEF RenotifyArmed
<1>1. edits = 0 /\ rule' = rule
  BY Steps
<1>2. CASE x \in delivered
  <2>1. x.event \in Events /\ past[x.event] = {}
    BY <1>2, Grows DEF TypeOK, Rows
  <2>2. PICK t \in pending \cup claimed : Timed("renotify", x.event, x.rule, t)
    BY <1>1, <1>2, <2>1 DEF RenotifyArmed, Scheduled, Timed
  <2>3. CASE t \in (pending \cup claimed)'
    BY <2>2, <2>3 DEF Scheduled, Timed
  <2>4. CASE Settle /\ t = dispatch.timer /\ dispatch.renew
    BY <2>2, <2>4, NewTimerIsNew DEF Settle, Scheduled, Timed
  <2>5. CASE Settle /\ t = dispatch.timer /\ ~dispatch.renew
    <3>1. OthersScheduled("renotify", x.event, x.rule)
      BY <1>1, <1>2, <2>1, <2>2, <2>5 DEF CycleGoesOn, Settle, Timed
    <3>2. PICK u \in pending \cup claimed : u # t /\ Timed("renotify", x.event, x.rule, u)
      BY <2>5, <3>1 DEF OthersScheduled
    <3>3. u \in (pending \cup claimed)'
      BY <2>5, <3>2, UnheededStays DEF Timed
    <3> QED
      BY <3>2, <3>3 DEF Scheduled, Timed
  <2> QED
    BY <2>2, <2>3, <2>4, <2>5, UnheededStays DEF Timed
<1>3. CASE x \notin delivered
  <2>1. Deliver(x)
    BY <1>3, Steps DEF Deliver
  <2>2. CASE Lookup("renotify", x.event, x.rule) = {}
    BY <1>1, <2>1, <2>2, NewTimerIsNew DEF Deliver, Scheduled
  <2>3. CASE Lookup("renotify", x.event, x.rule) # {}
    <3>1. pending' = pending
      BY <2>1, <2>3 DEF Deliver
    <3> QED
      BY <2>3, <3>1 DEF Lookup, Scheduled
  <2> QED
    BY <2>2, <2>3
<1> QED
  BY <1>2, <1>3

-----------------------------------------------------------------------------
(* Together.                                                               *)

TimersInv ==
  /\ AckedIsPast /\ OneRouted /\ UpToDate /\ DispatchIsWell /\ NoStrayClaim
  /\ RowsAreWell /\ NothingLeft /\ ArmsSuffice
  /\ EscalationIsSent /\ EscalationArmed
  /\ CycleGoesOn /\ RenotifyArmed

LEMMA TimersInit == Init => TimersInv
<1> SUFFICES ASSUME Init PROVE TimersInv
  OBVIOUS
<1>1. \A h \in Requests : request[h].event \notin Events
  BY AlertsAssumption DEF Init, NoRequest
<1>2. OneRouted /\ UpToDate /\ ArmsSuffice
  BY <1>1 DEF OneRouted, UpToDate, ArmsSuffice, Routed, Transitioning
<1>3. AckedIsPast /\ DispatchIsWell /\ NoStrayClaim /\ RowsAreWell /\ NothingLeft
  BY DEF Init, AckedIsPast, DispatchIsWell, NoStrayClaim, RowsAreWell, NothingLeft
<1>4. EscalationIsSent /\ EscalationArmed /\ CycleGoesOn /\ RenotifyArmed
  BY DEF Init, EscalationIsSent, EscalationArmed, CycleGoesOn, RenotifyArmed
<1> QED
  BY <1>2, <1>3, <1>4 DEF TimersInv

LEMMA TimersNext ==
  TypeOK /\ NotifyInv /\ TimersInv /\ [Next]_vars => TimersInv'
BY AckedIsPastNext, OneRoutedNext, UpToDateNext, DispatchIsWellNext, NoStrayClaimNext,
   RowsAreWellNext, NothingLeftNext, ArmsSufficeNext, EscalationIsSentNext,
   EscalationArmedNext, CycleGoesOnNext, RenotifyArmedNext, Zenon DEF TimersInv, NotifyInv

LEMMA TimersCorrect == Spec => [](TypeOK /\ NotifyInv /\ TimersInv)
<1>1. Init => TypeOK /\ NotifyInv /\ TimersInv
  BY TypeInit, NotifyInit, TimersInit
<1>2. (TypeOK /\ NotifyInv /\ TimersInv) /\ [Next]_vars => (TypeOK /\ NotifyInv /\ TimersInv)'
  BY TypeNext, NotifyNext, TimersNext
<1> QED
  BY <1>1, <1>2, PTL DEF Spec

(* The escalation of a firing event that nobody acknowledged is not lost,  *)
(* through resolves, re-opens and dispatches that overlap them.            *)
THEOREM EscalationIsNotLost == Spec => []EscalationArmed
<1>1. TimersInv => EscalationArmed
  BY DEF TimersInv
<1> QED
  BY <1>1, TimersCorrect, PTL

(* The renotify cycle of a delivered firing row goes on for as long as     *)
(* nobody resolves or acknowledges the event, crashes and failed           *)
(* dispatches included.                                                    *)
THEOREM RenotifyIsNotLost == Spec => []RenotifyArmed
<1>1. TimersInv => RenotifyArmed
  BY DEF TimersInv
<1> QED
  BY <1>1, TimersCorrect, PTL
=============================================================================
