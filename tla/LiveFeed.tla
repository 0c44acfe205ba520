------------------------------ MODULE LiveFeed ------------------------------
(***************************************************************************)
(* The live feed: requests publish what they have committed to an          *)
(* in-process hub, the hub puts it in the bounded queue of every           *)
(* subscriber whose scope covers it, and a browser that is told of a       *)
(* change fetches its lists again (backend/app/services/events_hub.py,     *)
(* api/events.py, the publishing requests of api/alerts.py and             *)
(* api/webhook.py, frontend/src/api/useAlertStream.ts).                    *)
(*                                                                         *)
(* A topic is a team, or the alerts that have none.  Its alerts are a      *)
(* number, counted up by each change that is committed: a view is up to    *)
(* date when it shows that number.  An event of the hub is its topic, for  *)
(* the lists are fetched whole, whatever the event tells.                  *)
(***************************************************************************)
EXTENDS Integers, Sequences

CONSTANTS
  Topics,      \* the teams, and the alerts that have none
  Clients,     \* browsers
  Scopes,      \* the sets of topics a user may be allowed to see
  QueueSize,   \* QUEUE_MAXSIZE
  MaxChanges,  \* bound: requests that change alerts
  MaxMishaps   \* bound: disconnections, failures, changes of membership

ASSUME LiveFeedAssumption ==
  /\ Scopes \subseteq SUBSET Topics
  /\ QueueSize \in Nat \ {0}
  /\ MaxChanges \in Nat
  /\ MaxMishaps \in Nat

VARIABLES
  committed,    \* the changes of a topic that are in the database
  staged,       \* requests that have a change of the topic, not committed yet
  unpublished,  \* requests that have committed one and are about to publish it
  belongs,      \* the topics the user of a client may see
  scope,        \* the subscription of a client: what it belonged to when it connected
  connected,    \* is the client subscribed?
  queue,        \* the queue of its subscription
  timer,        \* is the debounced refetch of the client due?
  fetch,        \* its refetch: "idle", "sent", or "answered" by the server
  answer,       \* what the server answered
  view,         \* what the client shows
  missed,       \* topics with a change that no event has told the client of
  changes,
  mishaps

hubVars == <<committed, staged, unpublished>>
clientVars == <<timer, fetch, answer, view>>
feedVars == <<hubVars, belongs, scope, connected, queue, clientVars, missed, changes, mishaps>>

FeedTypeOK ==
  /\ committed \in [Topics -> Nat]
  /\ staged \in [Topics -> Nat]
  /\ unpublished \in [Topics -> Nat]
  /\ belongs \in [Clients -> SUBSET Topics]
  /\ scope \in [Clients -> SUBSET Topics]
  /\ connected \in [Clients -> BOOLEAN]
  /\ queue \in [Clients -> Seq(Topics)]
  /\ timer \in [Clients -> BOOLEAN]
  /\ fetch \in [Clients -> {"idle", "sent", "answered"}]
  /\ answer \in [Clients -> [Topics -> Nat]]
  /\ view \in [Clients -> [Topics -> Nat]]
  /\ missed \in [Clients -> SUBSET Topics]
  /\ changes \in Nat
  /\ mishaps \in Nat

FeedInit ==
  /\ committed = [t \in Topics |-> 0]
  /\ staged = [t \in Topics |-> 0]
  /\ unpublished = [t \in Topics |-> 0]
  /\ belongs = [c \in Clients |-> {}]
  /\ scope = [c \in Clients |-> {}]
  /\ connected = [c \in Clients |-> FALSE]
  /\ queue = [c \in Clients |-> <<>>]
  /\ timer = [c \in Clients |-> FALSE]
  /\ fetch = [c \in Clients |-> "idle"]
  /\ answer = [c \in Clients |-> [t \in Topics |-> 0]]
  /\ view = [c \in Clients |-> [t \in Topics |-> 0]]
  /\ missed = [c \in Clients |-> {}]
  /\ changes = 0
  /\ mishaps = 0

-----------------------------------------------------------------------------
(* The requests that change alerts.                                        *)

(* _deliver: a full queue loses its oldest event.                          *)
Delivered(q, t) == Append(IF Len(q) = QueueSize THEN Tail(q) ELSE q, t)

(* The clients whose subscription has the topic.                          *)
Subscribers(t) == {c \in Clients : connected[c] /\ t \in scope[c]}

(* No event tells the other clients of a change of the topic.              *)
Miss(t, told) == missed' = [c \in Clients |-> IF c \in told THEN missed[c] ELSE missed[c] \cup {t}]

(* A request has staged its change: a webhook, an acknowledgement, a       *)
(* comment, a test alert, an update of a cluster, a sweep.                 *)
Stage(t) ==
  /\ changes < MaxChanges
  /\ changes' = changes + 1
  /\ staged' = [staged EXCEPT ![t] = @ + 1]
  /\ UNCHANGED <<committed, unpublished, belongs, scope, connected, queue, clientVars, missed,
                 mishaps>>

CommitChange(t) ==
  /\ staged[t] > 0
  /\ staged' = [staged EXCEPT ![t] = @ - 1]
  /\ committed' = [committed EXCEPT ![t] = @ + 1]
  /\ unpublished' = [unpublished EXCEPT ![t] = @ + 1]
  /\ UNCHANGED <<belongs, scope, connected, queue, clientVars, missed, changes, mishaps>>

(* The request fails before its commit: nothing is published.              *)
Rollback(t) ==
  /\ staged[t] > 0
  /\ staged' = [staged EXCEPT ![t] = @ - 1]
  /\ UNCHANGED <<committed, unpublished, belongs, scope, connected, queue, clientVars, missed,
                 changes, mishaps>>

(* A change that is published by nobody: an assignee, a purge, or a sweep  *)
(* in a worker process of its own, which has no hub.                       *)
CommitSilently(t) ==
  /\ staged[t] > 0
  /\ mishaps < MaxMishaps
  /\ mishaps' = mishaps + 1
  /\ staged' = [staged EXCEPT ![t] = @ - 1]
  /\ committed' = [committed EXCEPT ![t] = @ + 1]
  /\ Miss(t, {})
  /\ UNCHANGED <<unpublished, belongs, scope, connected, queue, clientVars, changes>>

(* Mutant: the request may publish before it commits. *)
PublishFirst(t) ==
  /\ unpublished[t] + staged[t] > 0
  /\ unpublished' = [unpublished EXCEPT ![t] = @ - 1]
  /\ queue' = [c \in Clients |->
                 IF c \in Subscribers(t) THEN Delivered(queue[c], t) ELSE queue[c]]
  /\ Miss(t, Subscribers(t))
  /\ UNCHANGED <<committed, staged, belongs, scope, connected, clientVars, changes, mishaps>>

(* Hub.publish: every subscriber whose scope covers the topic gets the     *)
(* event, with no await in between.                                        *)
Publish(t) ==
  /\ unpublished[t] > 0
  /\ unpublished' = [unpublished EXCEPT ![t] = @ - 1]
  /\ queue' = [c \in Clients |->
                 IF c \in Subscribers(t) THEN Delivered(queue[c], t) ELSE queue[c]]
  /\ Miss(t, Subscribers(t))
  /\ UNCHANGED <<committed, staged, belongs, scope, connected, clientVars, changes, mishaps>>

(* The row is read again between the commit and the publication; when that *)
(* fails, the event was purged or the connection is lost, none is sent.    *)
LosePublication(t) ==
  /\ unpublished[t] > 0
  /\ mishaps < MaxMishaps
  /\ mishaps' = mishaps + 1
  /\ unpublished' = [unpublished EXCEPT ![t] = @ - 1]
  /\ Miss(t, {})
  /\ UNCHANGED <<committed, staged, belongs, scope, connected, queue, clientVars, changes>>

(* What the events tell that are lost with the queue of a client: an event  *)
(* stands for those that it pushed out, so this is all that is out of date. *)
Untold(c) == IF queue[c] = <<>> THEN {} ELSE {t \in Topics : view[c][t] # committed[t]}

(* The process ends: the hub lives in its memory.                          *)
RestartProcess ==
  /\ mishaps < MaxMishaps
  /\ mishaps' = mishaps + 1
  /\ staged' = [t \in Topics |-> 0]
  /\ unpublished' = [t \in Topics |-> 0]
  /\ connected' = [c \in Clients |-> FALSE]
  /\ queue' = [c \in Clients |-> <<>>]
  /\ missed' = [c \in Clients |->
                  missed[c] \cup {t \in Topics : unpublished[t] > 0} \cup Untold(c)]
  /\ UNCHANGED <<committed, belongs, scope, clientVars, changes>>

-----------------------------------------------------------------------------
(* The clients.                                                            *)

(* Team memberships change; a subscription keeps the scope it has.         *)
ChangeMembership(c, S) ==
  /\ S # belongs[c]
  /\ mishaps < MaxMishaps
  /\ mishaps' = mishaps + 1
  /\ belongs' = [belongs EXCEPT ![c] = S]
  /\ missed' = [missed EXCEPT ![c] = @ \cup (S \ belongs[c])]
  /\ UNCHANGED <<hubVars, scope, connected, queue, clientVars, changes>>

(* stream_events: the first connection, or the browser's own reconnection, *)
(* which fetches nothing.                                                  *)
Subscribe(c) ==
  /\ ~connected[c]
  /\ connected' = [connected EXCEPT ![c] = TRUE]
  /\ scope' = [scope EXCEPT ![c] = belongs[c]]
  /\ UNCHANGED <<hubVars, belongs, queue, clientVars, missed, changes, mishaps>>

(* The connection ends, and the queue with it.                             *)
Unsubscribe(c) ==
  /\ connected[c]
  /\ mishaps < MaxMishaps
  /\ mishaps' = mishaps + 1
  /\ connected' = [connected EXCEPT ![c] = FALSE]
  /\ queue' = [queue EXCEPT ![c] = <<>>]
  /\ missed' = [missed EXCEPT ![c] = @ \cup Untold(c)]
  /\ UNCHANGED <<hubVars, belongs, scope, clientVars, changes>>

(* An event arrives: the refetch is put off until no more of them come.    *)
Hear(c) ==
  /\ queue[c] # <<>>
  /\ queue' = [queue EXCEPT ![c] = Tail(@)]
  /\ timer' = [timer EXCEPT ![c] = TRUE]
  /\ UNCHANGED <<hubVars, belongs, scope, connected, fetch, answer, view, missed, changes, mishaps>>

(* Mutant: an event that comes during a fetch is thought to be in it. *)
FlushIfIdle(c) ==
  /\ timer[c]
  /\ timer' = [timer EXCEPT ![c] = FALSE]
  /\ fetch' = [fetch EXCEPT ![c] = IF @ = "idle" THEN "sent" ELSE @]
  /\ UNCHANGED <<hubVars, belongs, scope, connected, queue, answer, view, missed, changes, mishaps>>

(* invalidateQueries: a fetch in flight is cancelled and sent again.       *)
Flush(c) ==
  /\ timer[c]
  /\ timer' = [timer EXCEPT ![c] = FALSE]
  /\ fetch' = [fetch EXCEPT ![c] = "sent"]
  /\ UNCHANGED <<hubVars, belongs, scope, connected, queue, answer, view, missed, changes, mishaps>>

(* The refetch of the interval, or of a page that is opened.               *)
Poll(c) ==
  /\ fetch[c] = "idle"
  /\ \E t \in Topics : view[c][t] # committed[t]
  /\ fetch' = [fetch EXCEPT ![c] = "sent"]
  /\ UNCHANGED <<hubVars, belongs, scope, connected, queue, timer, answer, view, missed, changes,
                 mishaps>>

(* The server reads what is committed.                                     *)
Answer(c) ==
  /\ fetch[c] = "sent"
  /\ fetch' = [fetch EXCEPT ![c] = "answered"]
  /\ answer' = [answer EXCEPT ![c] = committed]
  /\ UNCHANGED <<hubVars, belongs, scope, connected, queue, timer, view, missed, changes, mishaps>>

Show(c) ==
  /\ fetch[c] = "answered"
  /\ fetch' = [fetch EXCEPT ![c] = "idle"]
  /\ view' = [view EXCEPT ![c] = answer[c]]
  /\ missed' = [missed EXCEPT ![c] = {t \in @ : answer[c][t] # committed[t]}]
  /\ UNCHANGED <<hubVars, belongs, scope, connected, queue, timer, answer, changes, mishaps>>

(* The fetch fails, with its retries: the client goes on with what it has. *)
FailFetch(c) ==
  /\ fetch[c] # "idle"
  /\ mishaps < MaxMishaps
  /\ mishaps' = mishaps + 1
  /\ fetch' = [fetch EXCEPT ![c] = "idle"]
  /\ missed' = [missed EXCEPT ![c] = @ \cup {t \in Topics : view[c][t] # committed[t]}]
  /\ UNCHANGED <<hubVars, belongs, scope, connected, queue, timer, answer, view, changes>>

-----------------------------------------------------------------------------
FeedNext ==
  \/ \E t \in Topics :
       \/ Stage(t) \/ CommitChange(t) \/ Rollback(t) \/ CommitSilently(t)
       \/ Publish(t) \/ LosePublication(t)
  \/ RestartProcess
  \/ \E c \in Clients :
       \/ \E S \in Scopes : ChangeMembership(c, S)
       \/ Subscribe(c) \/ Unsubscribe(c)
       \/ Hear(c) \/ Flush(c) \/ Poll(c) \/ Answer(c) \/ Show(c) \/ FailFetch(c)

FeedSpec == FeedInit /\ [][FeedNext]_feedVars

(* A request that has committed goes on, a connected client reads its      *)
(* stream, its timer goes off, and its fetches are answered.  It need      *)
(* neither reconnect nor poll: the interval of a hidden tab stands still,  *)
(* and the history has none.                                               *)
FeedFairness ==
  /\ \A t \in Topics : WF_feedVars(Publish(t))
  /\ \A c \in Clients :
       /\ WF_feedVars(Hear(c))
       /\ WF_feedVars(Flush(c))
       /\ WF_feedVars(Answer(c))
       /\ WF_feedVars(Show(c))

FeedFairSpec == FeedSpec /\ FeedFairness

-----------------------------------------------------------------------------
(* Properties.                                                             *)

(* Something is under way, or will be, that brings the topic up to date.   *)
UnderWay(c, t) ==
  \/ unpublished[t] > 0
  \/ queue[c] # <<>>
  \/ timer[c]
  \/ fetch[c] = "sent"

(* No client is out of date in silence: when it shows less than is         *)
(* committed of a topic its user may see, then a publication, an event, a  *)
(* refetch or an answer that covers it is under way, or the change is one  *)
(* that no event could tell it of.  This is what publishing after the      *)
(* commit, and never before, is for; an event that a full queue drops does *)
(* no harm, for a newer one has taken its place.                           *)
NoSilentStaleness ==
  \A c \in Clients : \A t \in belongs[c] :
    view[c][t] # committed[t] =>
      \/ UnderWay(c, t)
      \/ fetch[c] = "answered" /\ answer[c][t] = committed[t]
      \/ t \in missed[c]

(* The answer in flight, too, is either up to date or about to be replaced. *)
AnswerIsCovered ==
  \A c \in Clients : \A t \in Topics :
    fetch[c] = "answered" /\ answer[c][t] # committed[t] => UnderWay(c, t) \/ t \in missed[c]

(* A change that events tell of is shown in the end, without polling.      *)
FeedCatchesUp ==
  \A c \in Clients : \A t \in Topics :
    (t \in belongs[c] /\ view[c][t] # committed[t] /\ t \notin missed[c])
      ~> (view[c][t] = committed[t] \/ t \in missed[c] \/ t \notin belongs[c])
=============================================================================
