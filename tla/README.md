# Verification of k8s-alert-manager

TLA+ specifications of the alert manager's backend, TLC configurations that
model-check them on small instances, and TLAPS proofs of the theorems that
matter most. The backend is `src/backend/app`, a FastAPI process over
SQLAlchemy (SQLite in development, PostgreSQL in production) that contains the
API and, in the same event loop, one worker task. Paths below are relative to
`src/backend/app` unless they say otherwise.

`PROJECT.json` holds the same inventory in a machine-readable form: the
components, the runs, the mutants, the line map of every definition, the
hazards with the properties that cover them, the findings and the theorems.

## 1. The system and its parts

Alertmanager posts webhooks; the ingest stores one row per alert identity,
decides whether the row made a transition, routes the transition through the
rules of the teams that own or share the cluster, and stages one outbox row for
each channel reached, all in the transaction of the webhook. The worker delivers
the outbox, and runs the timers: escalations, re-notifications, digest flushes,
the heartbeat sweep, report schedules and the daily purge. Administrators and
team members change rules, channels, clusters and PrometheusRule objects
through the API at any time.

What the parts share is the database. Nothing is handed over in memory except
the live-feed events and the list of the batch the worker is working on, which
is why a crash loses only that list and why almost every hazard here is a race
between transactions rather than between threads. A session reads rows, awaits
(a flush, a lock, an HTTP call), and at its commit writes only the attributes it
changed; `expire_on_commit=False` means that it never looks again.

| Component (code) | State it keeps | Operations | Hard behaviour | What makes it correct | Module |
|---|---|---|---|---|---|
| webhook ingest (`services/ingest.py`, `api/webhook.py`) | `alert_events`: status, `acknowledged_at` | new, re-opened, resolved, repeated alert; heartbeat alert | decides on the status it read before it waited for the row's lock; insert race on the identity | a firing event has been notified to everybody the rules name | `Alerts`, `Heartbeat` |
| routing engine, sharing (`services/routing.py`, `services/sharing.py`) | none of its own; reads rules, channels, shares | evaluate suppress and notify rules per team, stage rows, schedule escalations | the unique key (event, channel, trigger) makes every staging idempotent, and swallows what is new under an old key | as above | `Alerts` |
| outbox worker (`worker/outbox.py`, `worker/runner.py`) | `notification_outbox`: status, attempts, `locked_at`, `next_attempt_at` | claim, deliver, fail with back-off, dead-letter, recover leases | crash after the channel accepted; time-out of a send that arrived; channels changed under way; leases that run out | at-least-once, no attempt on a settled row, every row settles | `Delivery`, `Outbox` |
| scheduler (`worker/scheduler.py`, `services/scheduled_actions.py`) | `scheduled_actions`: pending, claimed, done, cancelled | claim, dispatch, settle, retry, recover | an acknowledgement during a dispatch; two pending rows where the code expects one; retries after a partial staging | timers are neither lost nor immortal | `Alerts`, `Storm` |
| storm control (`services/routing.py` `stage_outbox_row`, `_dispatch_digest_flush`) | `digested_into_id`, `digest_flush` actions | park a row, schedule a flush, aggregate, release | a row committed after the flush has read; the count of the last hour before the insert | no parked row is forgotten, none digested twice, the limit holds | `Storm` |
| heartbeat (`worker/heartbeat.py`, `api/clusters.py`) | `heartbeat_state`, `last_heartbeat_at`, the synthetic event | beat, sweep, enable and disable | three writers without a lock | state and incident agree, one alarm per outage, a loss is noticed | `Heartbeat` |
| reports (`worker/scheduler.py`, `services/reports.py`, `api/reports.py`) | `next_run_at`, `last_status` | claim with a bump, dispatch, create, update, delete | a claim lost in a crash; an update overwritten by the dispatch | no period twice, none unfinished, every due occurrence dispatched | `Reports` |
| retention (`services/retention.py`) | `retention.last_purge_at` | daily sweep, purge on demand | ids selected in one statement and deleted in another, while webhooks go on | only what has expired goes; nothing unsent goes by its own age | `Retention` |
| alert rules, import, team deletion (`services/k8s.py`, `services/rule_transfer.py`, `api/rules.py`, `api/teams.py`) | PrometheusRule objects in the clusters, the `teams` row | create, update, delete, import, delete team | read and write of an object that others change; a deletion over many objects that fails half way | a foreign object is never changed; a deleted team leaves nothing unnoticed | `RuleObjects` |
| alert actions (`api/alerts.py`) | `acknowledged_at`, assignee, comments | acknowledge, unacknowledge; assign, comment, test alert; export of the history | the cancellation of timers that are being dispatched; an export page by page while rows move | a settled event falls silent; an export emits each row once | `Alerts` (acknowledge, unacknowledge), `LiveFeed` (what the others publish), `Export` |
| channels (`api/channels.py`) | enabled, deleted, `digest_mode`, consent to cross-team escalation, config | create, update, delete, test | changes between staging and delivery; a deletion that rewrites the rules naming the channel | an unusable channel ends in dead letters, not in a loop; no rule names what is gone | `Outbox`, `Storm`, `RouteConfig` |
| routes (`api/routes.py`) | routing rules, their channels, escalation channels and template | create, update, delete | changes while timers run; a save that overlaps with the deletion of what it names | a disabled rule falls silent; a rule that was accepted stays savable | `Alerts` (`EditRule`), `RouteConfig` |
| cluster registry (`api/clusters.py`, `services/cluster_bootstrap.py`) | `clusters` | create, update, delete, rotate token | only the heartbeat settings race with anything | see heartbeat | `Heartbeat` (in part) |
| login and memberships (`services/auth_sync.py`, `api/auth.py`, `api/teams.py`, `api/users.py`) | users, team members, LDAP mappings | login with LDAP synchronisation, members and mappings by hand | a login that writes by id what an owner has just replaced; two logins at once | a manual membership survives every login; an undisturbed login gives what the groups give | `Memberships` |
| live feed (`services/events_hub.py`, `api/events.py`, `src/frontend/src/api/useAlertStream.ts`) | a bounded queue per subscriber, in memory; the lists a browser shows | publish after commit, drop the oldest, subscribe, refetch | an event during a refetch; a full queue; a restart | no browser is out of date in silence | `LiveFeed` |
| message templates (`services/templating.py`, `api/templates.py`) | templates; a pool of threads and a semaphore | render a slot under a timeout, fall back to the default template | a render that never ends and keeps its thread | every render ends; a timeout before a thread is got is the fault of a hung render only | `Rendering`, `RouteConfig` (deletion, change of kind) |
| silences (`api/silences.py`, `services/alertmanager.py`) | silences in Alertmanager, `silence_audit` rows | create, record, compensate; expire | a lost answer, a commit that fails, a team deleted in between | no silence mutes alerts with nobody answering for it | `Silences` |
| cluster health, statistics and metrics, audit log, deep links, plugins' transport, migrations and deployment | a 30 s cache; audit rows; none | probes, queries, text | none that a decision depends on | | not modelled, see section 8 |

## 2. The modules

Every module models one component as a state machine: the variables are the
columns that decide, plus what a transaction remembers between its reads and
its commit. A handler that reads, awaits and commits is two or more actions, one
for each point at which other transactions may come in between; a handler whose
reads are protected by what it has already locked is one action. Each definition
is commented with the operation it stands for, and the line map is in
`PROJECT.json`. Definitions headed "Mutant:" are plausible mistakes in the
definition that follows them; the specification does not use them. They show
that each property would notice the mistake: put in place of the definition,
they make TLC refute it.

**`Delivery`** is the abstract promise of the outbox: a row is open until it is
settled, is attempted one attempt at a time while it is open, is settled as
delivered only after some attempt was accepted, and stays settled.

**`Outbox`** is `worker/outbox.py`. `ClaimBatch` is the claim with its limit and
its commit. `Load` opens the session of one row and reads row and channel, and
deliberately does not check the status, as `run_tick` does not. `Accept` is the
moment the channel takes the message, which the worker does not see yet;
`Deliver`, `MarkDead` and `MarkDeliveryFailure` are the three ends of
`deliver`, each with the commit that writes only the attributes that differ from
the loaded ones. `LoseCommit` is a failed commit, or an exception outside the
handlers of `deliver`; `Crash` the end of the process; `RecoverStaleLeases` the
lease recovery that the loop calls between batches. Time is abstract: `age`
counts since `locked_at`, `wait` to `next_attempt_at`. `INSTANCE Delivery` gives
the refinement mapping.

**`Alerts`** is the life of alert events through ingest, routing, users and
timers: `Receive` reads the event, `Route` flushes (which takes the row lock,
`Locked`) and routes, `Commit` or `Abort` ends the transaction. The rules are
sets: `Notifying`, `Reached`, and `Stagings` for the rows a transition stages,
where the choice among the rules of a team that reach the same channel is the
order the database happens to return. `Lookup` and `Raises` are the "is one
already pending?" queries with `scalar_one_or_none`, which raises when there are
two. `Deliver` starts the re-notification cycle; `ClaimDueActions`, `Dispatch`,
`Settle`, `Retry`, `LoseDispatch`, `Crash` and `RecoverStaleClaims` are the
scheduler. The delivery itself is one step here; its detail is `Outbox`.

**`Storm`** is the storm control of one channel: `Stage` counts, decides and
looks for a flush, `CommitStaged` makes it visible, `Dispatch` reads the parked
rows, `Settle` builds the aggregate of several rows or sends a single one after
all, whatever `digest_mode` has become; for a deleted channel nothing is read and
the rows stay parked. `Age` moves a row out of the hour. The constant
`Exclusive` says whether the database has a single writer: with it the
transaction of a webhook excludes the others from its first write on (SQLite);
without it they overlap (PostgreSQL, READ COMMITTED).

**`Heartbeat`** is the deadman switch of one cluster, with three kinds of
transaction that read and later write it: a webhook with the Watchdog alert
(`Receive`, `CommitBeat`), the sweep (`Look`, `DeclareMissing`) and an
administrator's update (`BeginUpdate`, `CommitUpdate`). The writes carry the
conditions of the code: the beat resolves the incident only when it read
`missing`, the reset is decided on the state that was read. `named` says that the
`heartbeat_alertname` is not the name of the synthetic alert itself: the sweep
passes such a cluster over (`worker/heartbeat.py:191-205`), and it is never
declared missing.

**`Reports`** counts hours, with a calendar of periods of `Length` hours.
`ClaimDueReports` moves `next_run_at` and remembers the due instant; `Load`,
`Commit`, `CommitFails` and `LoseDispatch` are the dispatch in its own session;
`Written` is the column-wise write of a session over whatever the row holds by
then. Creation, update and deletion of a schedule overlap with it, and the
process may be down for a while.

**`RuleObjects`** has the objects of a team in the clusters with a
resourceVersion and the owner their labels name. `Decide` is the request's next
call (the plan of an import included), `Read` and `Change` the read and the
conditional write of `replace_rule` and `delete_rule`, `Refuse` the 409, and
`Finish` the end of the request, for a team deletion the deletion of the row.
`Edit` is a change by anybody else, label changes included.

**`Retention`** is the purge in its statements: `SelectRows`, `DeleteRows`,
`SelectEvents`, `DeleteRowsOfEvents`, `CommitEvents`, `Record`; `Fail` is a
failure anywhere, which undoes the batch. Meanwhile webhooks receive events and
stage rows, rows settle, and flushes digest parked rows. The foreign keys of the
schema are in the guards and the updates: deleting an event that got a new row
fails, deleting an aggregate sets `digested_into_id` of its rows to NULL. Another
batch follows one that was `full` when it was selected, whatever other purges have
deleted of it since.

**`LiveFeed`** is the way of a change to the screen. The alerts of a topic (a
team, or those without one) are a number that every committed change raises, and
a view is up to date when it shows that number. `Stage`, `CommitChange` and
`Publish` are the three moments of a request of `api/alerts.py` or
`api/webhook.py`; `Rollback`, `LosePublication` and `CommitSilently` are the
requests that fail before, or between the two, and the changes that publish
nothing. `Delivered` is `_deliver` with its bounded queue. `Subscribe` takes the
scope of the moment, `Hear` and `Flush` are the debounced invalidation of
`useAlertStream.ts`, and `Answer` and `Show` the refetch, which a newer `Flush`
cancels. `missed` collects what no event could tell: changes while a browser was
disconnected, events lost with a queue, changes that publish nothing. It is a
history variable, empty of a topic again once the browser shows it.

**`Rendering`** is the pool of `services/templating.py`: `Submit` takes a permit
and queues the job, `Start` gives it a thread, and it renders, raises or is
given up (`GiveUp`), in which case the thread stays behind in `stuck` while the
permit returns. `Failed` is the fallback of a delivery to the default template,
once, and the failure that a preview reports. `ExpireInQueue` is a timeout before
any thread took the job.

**`RouteConfig`** has the routing rules of a team with the channels, escalation
channels and templates they name. `Save` reads, checks and stages (the
operators `AcceptsChannels`, `AcceptsEscalation` and `AcceptsTemplate` are the
three validators of `api/routes.py`), `CommitSave` writes the columns and
association rows that differ from what was loaded. `DeleteChannel` and `Revoke`
collect the rules to strip and `CommitStrip` strips them. `crossed` and `raced`
record that a conflicting request committed in between.

**`Memberships`** is one user in several teams. A login is `Authenticate` (the
groups the directory reports), `Sync` (what is read, and the role of each team)
and `CommitLogin`, which writes rows by the id it read; `Commits` are the unique
keys and the row counts that make the commit fail. Owners, administrators and
the directory act at any moment in between.

**`Export`** is the NDJSON export: `StartExport` counts, `NextPage` reads the rows
after the cursor in the order of (last reception, id), and `EndExport` stops at the
cap or when there are no more. Meanwhile webhooks insert rows and move them to
the top (or back: the time is taken before the lock is waited for), and
a purge removes them. The identity map of the session hands out a row that it
still holds as it was loaded, so the cursor may be set from an old time (`loaded`);
a row that it has let go of is loaded anew.

**`Silences`** is the saga of a creation: `Created` or `CreatedUnheard` in
Alertmanager, `Recorded` or `NotRecorded` in the database, `Compensate`. Every
call of Alertmanager may have been carried out though it failed. `stray` is a
history variable of the silences whose request lost an answer or its process.

The modules share no variables. Where components meet, each module has the
other side as an action with the freedom the code gives it: `Retention` lets a
webhook come at any moment, `Alerts` lets the outbox worker deliver or give up
any row, `Storm` lets the owner of the channel change it.

## 3. The runs

`tlc -workers 2 -config <cfg> <module>` for each.

| Run | Checks | Instance | What it shows |
|---|---|---|---|
| `MCOutboxSingle.cfg` | `TypeOK`, `NoAttemptOnSettledRow`, `DeliveredWasAccepted`, `NeverGivesUpEarly`, `KeepsPromise`, `EveryRowSettles` | 1 worker, 2 rows, 1 channel, batch 2, 3 attempts, back-off 1..3, lease 1, send 1, 2 faults, 1 channel edit | the deployed configuration: at-least-once, no attempt on a settled row, all attempts made, refinement of `Delivery`, every row settles |
| `MCOutboxPair.cfg` | `NoAttemptOnSettledRow`, refuted | 2 workers, 2 attempts, no faults | a second replica breaks it: a batch that outlasts its lease |
| `MCAlertsRaces.cfg` | `TypeOK`, `FiringIsNotified`, `EscalationArmed`, `RenotifyArmed` | 1 event, 2 rules in 2 teams on the same chat, escalation to a pager, 2 requests, 2 timer ids, 1 fault | webhooks, acknowledgements, deliveries and dispatches in every order |
| `MCAlertsFaults.cfg` | `UnattendedEscalates`, `SettledFallsSilent` | 1 rule, 1 request, 1 fault, 1 rule edit | liveness of the timers through failures and crashes |
| `MCAlertsReopen.cfg` | `ReopenIsNotified`, refuted | 1 rule, no faults | a re-opened event is routed and nothing new is staged |
| `MCStormExclusive.cfg` | `TypeOK`, `NoRowForgotten`, `DigestedOnce`, `StormIsCalmed`, `EveryParkedRowLeaves` | 3 rows, 2 senders, 2 flushes, limit 1, 1 fault, 1 edit, single writer | storm control is right over SQLite |
| `MCStormForgotten.cfg` | `NoRowForgotten`, refuted | the same, concurrent writers | over PostgreSQL a parked row can be left without a flush |
| `MCLive.cfg` | `TypeOK`, `MissingMeansOneIncident`, `OneAlarmPerOutage`, `LossIsNoticed` (heartbeat); `NoSilentStaleness`, `FeedCatchesUp` (live feed); `OnlyHungRendersCost`, `RenderEnds` (rendering); `ReportedOnce`, `OnlyFinishedPeriods`, `DueIsDispatched` (reports) | heartbeat: 2 beats in flight, timeout 2, 1 fault, 3 updates; feed: 1 browser, 2 topics, queue of 1, 2 changes, 2 mishaps; rendering: 3 renders, pool of 2, 2 slots; reports: 1 schedule, periods of 3 hours, bump 1, 8 hours, 1 fault, 1 update | the four parts that wait for something to happen in the end, one at a time |
| `MCHeartbeatStuck.cfg` | `NeverStuckMissing`, refuted | 1 beat, 1 update | the reset decides on a state that is stale |
| `MCConsole.cfg` | `TypeOK`, `DeletionIsComplete`, `ForeignUntouched` (rule objects); `RulesStaySavable` (routing rules); `LoginGivesWhatTheDirectoryGives` (memberships); `ExportIsFaithful`; `SilencesAreOwned` | rule objects: 2 places, 2 requests at once, 3 in all, 1 change by others; routing: 1 rule, an own and a foreign channel, 1 template, 2 requests at once, 3 in all; memberships: 1 team, 2 groups, 2 logins, 3 acts; export: 4 events, 3 moments, pages of 2, cap 3; silences: 2, 2 requests at once, 4 in all | overlapping requests of the console, one part at a time |
| `MCRetention.cfg` | `TypeOK`, `OnlyReopenedFiringGoes`, `UnsentGoesWithItsEvent`, `NoSecondDigest`, `ExpiredEventsGo` | 2 events (one a test alert) with a row each, 1 aggregate, the sweep and a request, batch 2, 1 fault | purges against webhooks, deliveries, flushes and each other |
| `MCRetentionFiring.cfg` | `FiringIsNeverPurged`, refuted | the same, the sweep only, no faults | an event is re-opened between its selection and its deletion |

`MCLive` and `MCConsole` put parts that share no state into one run: the variable
`focus` chooses one at the start, only that part takes steps, and the others stay
in their initial state, so that the state space is the sum of the parts and not
their product. The requests, editors, logins and callers of `MCConsole` are the
same two model values, so that one symmetry serves all its parts; it checks no
liveness.

### The properties, in words

*Outbox.* `NoAttemptOnSettledRow`: no attempt is under way for a row that is
delivered or dead. `DeliveredWasAccepted`: a row reads delivered only when the
channel accepted a message for it. `NeverGivesUpEarly`: unless somebody changed
the channel, a dead row has had every attempt, and a live one has some left.
`KeepsPromise`: every behaviour of `Outbox` is one of `Delivery`.
`EveryRowSettles`: delivered or dead in the end.

*Alerts.* `FiringIsNotified`: while the rules stay as they were, a firing event
has a row for every channel that the notify rules of the owner and of the
sharing teams reach, whatever the webhooks' order. `EscalationArmed`: the
escalation of a firing event nobody acknowledged has been sent or is scheduled.
`RenotifyArmed`: the same for the re-notification cycle. `UnattendedEscalates`:
an event nobody attends to is escalated in the end. `SettledFallsSilent`: an
event that stays resolved or acknowledged, or a rule that stays disabled, ends
up with no timers.

*Storm control.* `NoRowForgotten`: every parked row of a live channel has a
flush that has yet to read the parked rows or has read it. `DigestedOnce`: a
digested row is in one digest and only one. `StormIsCalmed`: no more rows than
the limit go out one by one in an hour (which says nothing of the lookup that
raises). `EveryParkedRowLeaves`: in the end it is
sent, alone or in a digest, unless the channel is deleted.

*Heartbeat.* `MissingMeansOneIncident`: the cluster is missing exactly while one
synthetic alert fires. `OneAlarmPerOutage`: no second one between two beats.
`LossIsNoticed`: an overdue cluster is declared missing unless a beat or an
administrator comes first, or its `heartbeat_alertname` is the synthetic alert's.

*Live feed.* `NoSilentStaleness`: a browser that shows less than is committed has
a publication, an event, a refetch or an up-to-date answer under way, or could not
be told. `FeedCatchesUp`: what it is told of, it shows in the end, without
polling. Both are about the lists of alerts, not about the queries of one alert.

*Rendering.* `OnlyHungRendersCost`: a job is given up before a thread took it
only when threads are held by renders that hung. `RenderEnds`: every render ends,
by a text or a failure, even with all threads lost for good.

*Reports.* `ReportedOnce`: no period twice, unless a claim was lost or the
schedule moved to another hour. `OnlyFinishedPeriods`: a report covers a period
that is over. `DueIsDispatched`: every occurrence of a schedule that is left
alone is dispatched.

*Rule objects.* `ForeignUntouched`: an object whose labels do not name the team
is changed by others only. `DeletionIsComplete`: when the team is gone, the only
rules of it that are left were passed over (which is logged) or written while the
deletion was under way.

*Routing rules.* `RulesStaySavable`: a rule that was accepted is accepted again as
it is, whatever became of the channels and templates it names; excepted are a rule
that lost its last channel, one whose template changed its kind, and one on which
conflicting requests overlapped.

*Memberships.* `LoginGivesWhatTheDirectoryGives`: a login changes no membership
given by hand and demotes no administrator; when nothing came in between, it leaves
exactly what the groups give.

*Export.* `ExportIsFaithful`: no row twice, unless a time went back; no row left
out that stayed as it was, unless the cap cut the export off; never more than the
cap.

*Silences.* `SilencesAreOwned`: an active silence was reported to somebody, or its
request is still at work, or an answer or the process was lost; one that was
reported has its row.

*Retention.* `OnlyReopenedFiringGoes`: a firing event is purged only when it was
received again after the purge selected it. `UnsentGoesWithItsEvent`: a row not
sent yet goes only with its event. `NoSecondDigest`: a parked row does not
outlive the digest it is in. `ExpiredEventsGo`: no event stays resolved and past
its window for ever.

### Bounds, and why they are enough

Every bound is a named constant that stands in a guard, so that the liveness
properties see no artificial end of a behaviour. `MaxFaults` (`MaxLosses`) bounds crashes,
lost commits and failed dispatches; `MaxEdits` (`MaxUpdates`) bounds changes by users;
`MaxRequests`, `Horizon` and the sets of ids bound what else would grow.

* Outbox: two rows and a batch of two make the second row wait in memory while
  the first is sent, which is what lets a lease run out; three attempts make the
  back-off grow and hit its cap; two faults let a crash follow a lost commit.
* Alerts: with two ids per (kind, event, rule) the second pending timer, at which
  the lookups raise, exists; a third would change no answer of theirs, because
  nothing is inserted once they raise. Two requests give the insert race and
  the overlap of a firing and a resolved alert. The second rule lives in
  another team and names the same channel, so that the unique key matters.
  Commits that would need a third id are not taken.
* Storm: one row over the limit, one that waits while the flush is claimed, and
  one that comes while it is dispatched.
* Heartbeat: two beats overlap each other and the sweep; three updates disable,
  enable and disable again.
* Reports: eight hours hold two occurrences, one lost claim and its repetition.
* Rules: two requests at once are all an overlap needs; the third reuses what
  the first left.
* Live feed: a queue of one is full after one event, so that every drop happens;
  two topics make a scope matter; two mishaps let a restart follow a lost
  publication. One browser is enough, since browsers do not see each other.
* Rendering: three renders over a pool of two make one wait for a permit; two
  of them can hang and take all threads.
* Routing rules: two requests at once and a third to save the rule again; an own
  and a foreign channel are the two kinds the validators tell apart.
* Memberships: two logins overlap each other and three acts (a removal, an
  addition by hand, a mapping); two groups can map the same team with
  different roles, and one is an administrators' group.
* Export: four rows over pages of two, several of them at the same time, make
  the id decide within a page boundary; a table of three rows that grows by one
  after they were counted is cut off by the cap of three.
* Silences: two at once, and four requests, for an expiry to meet a creation.
* Retention: the test alert and the normal one have different conditions; a
  batch of two holds both.

`CHECK_DEADLOCK FALSE` stands where the bounded model really ends: `MCConsole`
and `MCLive` (no more requests, changes or messages; the clock of the reports stops
at `Horizon`), `MCStormExclusive` (every row has been staged and has gone
out).

### Fairness

* The worker is one task that never blocks for good: every send has a time-out,
  every handler is inside a try, and the loop catches what escapes
  (`worker/runner.py`). Hence weak fairness of the worker's and the
  dispatch's next step, of sweeps, and of the end of every transaction. A
  process that died is started again (deployment, `replicas: 1`, `Recreate`).
  In `Storm`, strong fairness of the dispatch step: a single writer can be
  busy again and again, and the scheduler waits for the lock and gets it.
* Timers: strong fairness per timer of "it is claimed, or recovered". The claim
  is ordered by `due_at` and limited, so an action that is due is overtaken only
  by those due before it; a row another transaction has locked is skipped, but
  that transaction ends.
* Live feed: a request that has committed publishes, a connected browser reads
  its stream, its debounce timer goes off, and the server answers and the answer
  is shown. `Flush` is fair because events pause: every event sets the timer
  again, so an endless stream of them would put the refetch off for ever.
  Neither reconnecting nor polling is assumed: the interval of a hidden tab
  stands still, and the history page has none.
* Rendering: the event loop, the threads and the timers go on. Nothing makes a
  render that hangs end (`Unstick` is not fair).
* Nothing is assumed of users, Alertmanager, heartbeats or the channels: they may
  stop for ever. `Outbox` needs no fairness of success; a row that is never
  accepted ends as dead.

## 4. Where the code does not keep its word

Five runs refute a sentence of the repository by what the code does. They are
listed under "findings" in `PROJECT.json` with the lines quoted.

1. *Two replicas deliver twice* (`MCOutboxPair`). `deploy/k8s/deployment.yaml:6`
   says that row locking keeps two workers "safe from double delivery". A worker
   claims twenty rows and sends them one after the other, up to 30 s each, under
   a lease of 5 minutes, and does not look at a row's status when its turn
   comes. By then another worker may have recovered the lease and delivered it.
2. *A re-fire under the same identity is silent* (`MCAlertsReopen`).
   `services/ingest.py:394` re-opens a resolved row "so Phase 9 notifies on it,
   rather than leaving a resolved row that silently swallows a real re-fire".
   The transition is routed as `firing`, for which the unique key already has a
   row, so nothing is staged.
3. *A parked row can miss its flush* (`MCStormForgotten`).
   `services/routing.py:473` counts on a pending flush to send the row. Over
   PostgreSQL the row may commit after that flush has read.
4. *A cluster can stay missing for ever* (`MCHeartbeatStuck`).
   `api/clusters.py:343` resets the state so that disabling the heartbeat does
   not leave it "stuck 'missing' forever", but decides on the state it read; the
   sweep may commit in between.
5. *A firing event can be purged* (`MCRetentionFiring`).
   `services/retention.py:104` says that one "is NEVER purged, regardless of age".
   The batch is selected by status in one statement and deleted by id in a later
   one, without a lock: a webhook may re-open an event in between.
   `OnlyReopenedFiringGoes` says that this is the only way.

Met while modelling, and described here because no run has them as a refuted
property:

* A second escalation of one event (after a resolve and a re-open) is dispatched
  and swallowed by the unique key, like the re-fire above.
* Two transactions can each insert a pending re-notification; from then on the
  lookup in `deliver` raises, after the channel has taken the message, so the
  delivery is undone and repeated after its lease until one of the two timers is
  claimed. `RenotifyArmed` shows that the cycle survives.
* Likewise two pending digest flushes make every webhook that would park a row
  fail until one of them is claimed (`LookupRaises` in `Storm`).
* A report whose claim was lost in a crash is made again with the bumped time as
  its reference, which may fall into the next period: one period is skipped, or
  reported twice.
* The dispatch of a report writes the `next_run_at` it computed from the settings
  it loaded, over that of an update in between.
* `compute_next_run` is called outside the try of the dispatch; a time zone that
  the host no longer knows leaves the schedule to be claimed on every bump.
* A rule created or imported while its team is being deleted survives the team,
  and so do the rules on disabled clusters, which the deletion does not list.
* `acknowledged_at` and `suppressed_by_rule_id` outlive the firing they were set
  for.
* `render()` is said never to raise (`worker/outbox.py:303`, and its own
  docstring). Its fallback is rendered by the same pool: with every thread held
  by renders that hung, the default template times out as well and the delivery
  fails and is retried. A permit is given back at the timeout while the thread is
  not, so that later renders pass the semaphore and queue for a thread.
* Two channels of one rule deleted at the same time each find the other still
  there, and leave the escalation enabled with no target: the state that
  `_clear_escalation_for_emptied_rules` is there to prevent (`api/channels.py:180`,
  `:451`), in which the rule cannot be saved again, not even to disable it. It is
  what `raced` excepts.
* A rule whose last notification channel is deleted cannot be saved as it is;
  `RulesStaySavable` excepts it. A template may change its kind while rules use it
  (`models/template.py:14` says why the kinds must not be mixed); a delivery does
  not look at the kind again.
* A login that is overtaken by a newer one commits groups that are out of date,
  and may grant again what the newer one took away. With two mappings of one
  team the role is that of whichever the query returns last.
* The export leaves out a row that is received again before the export reaches
  it, and emits a row twice when its time goes back behind the cursor; the
  docstring claims that it is immune to both. Rows beyond the cap are cut off in
  silence when the table grew after they were counted.
* A creation of a silence whose answer is lost is answered 503, while the silence
  is active and nobody's; a retry makes a second one. When the compensating expire
  fails too, the code logs it and the silence stays.
* An assignee, the deletion of a comment and a purge publish nothing on the live
  feed, and the browser's own reconnection fetches nothing: such a change is seen
  at the next poll. Both are in `missed`.
* The browser invalidates its lists on any event, but the queries of one alert (its
  detail, notifications and comments) by the id in the event
  (`useAlertStream.ts:130-132`): when the queue drops that event, they stay as they
  are until something else fetches them.
* A cluster whose `heartbeat_alertname` is the name of the synthetic alert is never
  declared missing; the sweep logs it every time.

## 5. What is proved

TLAPS checks the theorems below for all values of the constants that satisfy the
named assumptions (`OutboxAssumption` and its like, at the head of each module).
The type invariant of a module comes first and is used by the rest.

| Module | Theorem | Property | The argument |
|---|---|---|---|
| `OutboxProofs` | `TypeCorrect` | `TypeOK` | inductive as it stands |
| | `DeliveredMeansAccepted` | `DeliveredWasAccepted` | a job that says it was sent has been accepted (`AcceptedInv`), for any number of workers |
| | `NoSecondDelivery` | `NoAttemptOnSettledRow` | assumes `SingleWorker`. `ClaimHeld`: a row in the worker's hands is in progress in the database; it is inductive because only the worker itself, when idle, recovers leases |
| | `AllAttemptsAreMade` | `NeverGivesUpEarly` | assumes `SingleWorker`. `CopyCurrent`: the worker's copy of the attempts is the database's; `UneditedUsable`: without edits every channel is enabled |
| | `OutboxImplementsDelivery` | `KeepsPromise` | assumes `SingleWorker`. Initial states map to initial states, and each step to a step of `Delivery` or a stutter |
| `AlertsProofs` | `TypeCorrect` | `TypeOK` | includes that timers are either pending or claimed and that the batch is claimed |
| | `NoAlertUnheard` | `FiringIsNotified` | `RequestsAreWell`: what a request will stage, together with what is staged, covers the channels its transition reaches; then the commit keeps it, and rows are never removed |
| | `EscalationIsNotLost` | `EscalationArmed` | `ArmsSuffice`: a request about to make an event fire arms every escalation, unless another request made it fire meanwhile; `EscalationIsSent`: a dispatch that does not stage what it was claimed for has another alive action beside it, or it was sent before |
| | `RenotifyIsNotLost` | `RenotifyArmed` | `RowsAreWell`: an event with a firing row fires unless it was attended to; `CycleGoesOn`: a dispatch that does not renew its cycle leaves another action to go on with it |
| `StormProofs` | `TypeCorrect` | `TypeOK` | inductive as it stands |
| | `NoRowDigestedTwice` | `DigestedOnce` | the rows a flush has read are parked (`ReadIsParked`), because only one flush is dispatched at a time; for concurrent transactions too |
| | `ParkedRowsHaveAFlush` | `NoRowForgotten` | assumes `Exclusive`. `FlushStillThere`: the flush that a staging transaction found is still pending when it commits |
| | `LimitIsKept` | `StormIsCalmed` | assumes `Exclusive`. `RoomForStaged`: while a transaction is about to queue a row, there is room for it |
| `LiveProofs` | `HeartbeatTypeCorrect`, `StateAndIncidentAgree`, `NoSecondAlarm` | `TypeOK`, `MissingMeansOneIncident`, `OneAlarmPerOutage` | what each open transaction remembers is current enough: `SweepIsCurrent`, `UpdateIsCurrent`, `BeatIsCurrent` |
| | `TypeCorrect` | (`FeedTypeOK`) | inductive as it stands |
| | `NobodyIsStaleInSilence` | `NoSilentStaleness` | `AnswerIsCovered`: the answer in flight, which is shown next, is up to date or about to be replaced; `InOrder`: what is shown is no newer than that answer, nor the answer than the database, so that a queue that is lost tells of all there is to tell |
| | `TimeoutMeasuresExecution` | `OnlyHungRendersCost` | `RenderInv`: no more permits are taken than there are threads; a queued job has one of them and no thread, so that a pool without idle threads has a stuck one |
| `ReportsProofs` | `TypeCorrect` | (`ReportsTypeOK`) | inductive as it stands |
| | `ReportsArePast` | `OnlyFinishedPeriods` | `DueIsPast`: the due instant that a claim remembers is not after now, and the period of an hour ends before it |
| | `NoPeriodTwice` | `ReportedOnce` | `AllOnTrack`: until the schedule is disturbed, the next run and the due instant of a claim are of a later period than all reports, and an open session has read the offset that is there. Occurrences are one length apart (`NextRunFollows`), so that a later one is in a later period |
| `ConsoleProofs` | `EverySilenceIsOwned` | `SilencesAreOwned` | `SagasAreDisjoint`: a silence that is being created is in the hands of one request and has been answered for by none |
| | `LoginsRespectMemberships` | `LoginGivesWhatTheDirectoryGives` | `IdsAreOld` and `OriginsStay`: an id names one row for ever, whose origin does not change; `CurrentIsUpToDate`: what an undisturbed login staged is what there is |
| | `RulesStayAcceptable` | `RulesStaySavable` | `SavesAreCurrent`: what a save that nothing overtook has read and checked still holds when it commits; `StripsAreCurrent`: a deletion or withdrawal that nothing overtook has found every rule that names the channel, and every one it empties; `TemplatesStay` |
| | `ExportStaysFaithful` | `ExportIsFaithful` | `EmittedIsBehind`: while no time goes back, what was emitted is behind the cursor; `LeftIsAhead`: a row the export still owes is after the cursor and after every time a row was loaded with, from which the cursor may be set again. A page is the top of what is left (`PageIsTop`), and only the last one is short (`ShortPageIsAll`) |
| `RuleObjectsProofs` | `TypeCorrect` | `TypeOK` | |
| | `ForeignObjectsAreSafe` | `ForeignUntouched` | `ReadVersionsAreOwned`: as long as an object has the version a request read, its labels name the team |
| | `DeletionLeavesNothingUnnoticed` | `DeletionIsComplete` | `DeletionInv`: during a team deletion every rule of the team is still to come, passed over, or late |
| `RetentionProofs` | `TypeCorrect` | `TypeOK` | includes that no row outlives its event |
| | `FiringEventsStay` | `OnlyReopenedFiringGoes` | `EventBatch`: an event of a batch is a test alert, resolved, or has been received again since |
| | `NothingUnsentIsLost` | `UnsentGoesWithItsEvent` | `RowBatch`: the ids of a row batch are settled, or gone already; `Disjoint`: two purges never hold the same row |
| | `NothingIsDigestedAgain` | `NoSecondDigest` | `LinkedIsParked`: a row in a digest stays parked, and the delete of an aggregate takes such rows along |

Three of the arguments deserve more words.

*The timers of an alert* (`TimersInv`, 12 conjuncts). `EscalationArmed` is about
what is committed, while the danger lies in what transactions have read. So the
invariant says of every routed request what its commit will arm, and of the
dispatch under way that what it will stage, drop or retry is covered. The delicate
case is an event that is resolved and opened again while its escalation is being
dispatched. Either the dispatch read the resolved event, and the re-opening has
armed an action of its own, or it stages the row. The two promises differ in what
they survive: the escalation is promised while nothing fails (`faults = 0`), since
the lease recovery of a failed dispatch is a matter of liveness; the cycle is
promised through crashes, since it claims only that an action is alive, and
`pending \cup claimed` keeps it through all of them. `OneRouted`, that no two requests
hold the lock of one event, makes both inductive.

*The periods of reports.* The code derives the period from the due instant, and the
next due instant from the clock. So the invariant relates instants, not periods,
and lemmas about division turn one into the other; nothing is assumed of the
length of a period but that it is positive, nor of the claim bump.

*The pages of the export.* `Page` is defined by the rank of a row. No induction is
needed to show that a short page holds all there is: if a row were left, the one
with the fewest rows above it, which exists as strict inclusion of finite
sets is well-founded, would have all of them in the page, so the page would not be
short. The proof showed that the assumption on `MaxTime` was too weak (it must not
be zero), and needed `LeftIsAhead` for all times a row was loaded with and not
for the cursor alone: the identity map of the session may set the cursor back to any
of them.

`SingleWorker` is the deployment's configuration (`replicas: 1`, `Recreate`), and
`Exclusive` is SQLite's. The refuted runs of section 4 show that neither
assumption can be dropped.

## 6. What is only model-checked

* Liveness: `EveryRowSettles`, `UnattendedEscalates`, `SettledFallsSilent`,
  `EveryParkedRowLeaves`, `LossIsNoticed`, `DueIsDispatched`,
  `ExpiredEventsGo`, `FeedCatchesUp`, `RenderEnds`. Liveness under fairness is
  out of the prover's reach.

Every invariant and every action property that a run checks for the code as it is
deployed is stated by a theorem of section 5. The five runs of section 4 check
properties that the code does not have; two of them (`NoAttemptOnSettledRow` and
`NoRowForgotten`) are theorems under the assumptions named there.

## 7. Assumptions of the models

* A transaction is atomic and durable when it commits. The legacy transaction
  control of Python's SQLite driver makes less of a SAVEPOINT than the code
  means; that driver is outside the repository.
* A session writes only the columns whose value it changed (SQLAlchemy's unit of
  work), and PostgreSQL runs READ COMMITTED.
* The row lock of an event is taken by the flush of its change and held until
  the commit; a claim skips rows that are locked (SKIP LOCKED).
* One webhook request carries one alert in `Alerts`; a payload of several is
  the same actions in one transaction, except for the order of locks (see the
  hazards).
* A row that the scheduler stages for an escalation counts the last hour before
  it writes, and may exceed the limit of storm control by one; `Storm` has only
  the rows of webhooks.
* The Kubernetes API checks the resourceVersion of a replace and the
  precondition of a delete.
* Ids of memberships are not used again. (SQLite without AUTOINCREMENT may use
  the largest id again after its row is deleted.)
* A refetch that the browser cancels is not shown.

## 8. What is not modelled

* *Plugins' transport, LDAP client, Prometheus queries*: I/O whose outcome is a choice (`Accept` or failure) where anything depends on it.
* *Cluster health*: a cache nothing decides on. *Statistics, metrics, audit
  log, deep links*: read-only queries, append-only rows, text.
* *Frontend*: a client of the API, but for its refetching, which is in
  `LiveFeed`: the lists of alerts only, not the queries of a single alert.
  *Migrations and deployment*: configuration;
  the manifest is read for the number of workers.
* Within modelled components: suppress rules are in `Alerts` (`Suppressors`) but
  no run has one yet; labels and annotations; the contents of rules, reports and
  templates; the matchers of routing rules and their preview; the CSV export, one
  query; share endpoints.
* The hazards without a property: the rules on disabled clusters that a team
  deletion does not list, the locks of webhooks with several alerts, the silence
  whose creation was answered by nobody, and the routing rule that two conflicting
  requests wrote (`raced`).

## 9. Plan

In order, the most important behaviour first:

1. *Pure parts* as operators checked against a definition over bounded inputs:
   matchers and the evaluation of routing rules, `next_available_name` of the
   import.
2. *Suppress rules in a run*, events shared with two teams, and a webhook that
   carries two alerts, with the deadlock of their locks.
3. *Composition*: the outbox as the delivery inside `Alerts`, with `Delivery` in
   place of its `Deliver` and `GiveUp`, so that the promise of the outbox and
   the timers of the alert are checked together, and the refinement proved as
   it is for `Outbox`.

New components share a run with a component that is cheap to check, through a MC
module that extends both; the runs that refute a sentence may be replaced once the
code changes.
