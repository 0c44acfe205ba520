------------------------------- MODULE Reports -------------------------------
(***************************************************************************)
(* Report schedules (backend/app/worker/scheduler.py from                  *)
(* claim_due_reports on, services/reports.py, api/reports.py).             *)
(*                                                                         *)
(* A sweep claims every schedule that is due by moving its next_run_at     *)
(* Bump into the future and remembers the instant it was due.  It then     *)
(* loads each claimed schedule in a session of its own, builds the report  *)
(* of the calendar period that precedes the due instant, and commits the   *)
(* report together with the next_run_at it computes from the settings it   *)
(* loaded.  The endpoints change or delete a schedule meanwhile; a session *)
(* writes only the columns it changed, and an UPDATE of a row that is gone *)
(* fails and undoes the transaction.                                       *)
(*                                                                         *)
(* Time is counted in hours and the calendar in periods of Length hours:   *)
(* a schedule runs Offset hours into each period (cadence, weekday, hour   *)
(* and timezone give Length and Offset).  Months of different lengths and  *)
(* the changes of the clock are left out.  Sweeps, dispatches and requests *)
(* take no time on this scale.                                             *)
(***************************************************************************)
EXTENDS Integers, FiniteSets

CONSTANTS
  Schedules,
  Length,     \* hours in a calendar period
  Bump,       \* REPORT_CLAIM_BUMP
  Horizon,    \* bound: the last hour
  MaxLosses,  \* bound: crashes and lost commits
  MaxUpdates  \* bound: updates

ASSUME ReportsAssumption ==
  /\ Length \in Nat \ {0}
  /\ Bump \in Nat \ {0}
  /\ Horizon \in Nat
  /\ MaxLosses \in Nat
  /\ MaxUpdates \in Nat

VARIABLES
  now,
  row,        \* the row of each schedule, NoRow when there is none
  up,         \* is the process running?
  claimed,    \* the claimed schedules yet to be dispatched, with their due_at
  dispatch,   \* the schedule being dispatched, as it was loaded
  update,     \* the updates in flight, as they will be committed
  reports,    \* the reports staged by the sweep, one element for each
  swept,      \* the hour of the last dispatch of each schedule that ended
  disturbed,  \* has a claim been lost, or the offset of a schedule changed?
  losses,
  updates

reportVars ==
  <<now, row, up, claimed, dispatch, update, reports, swept, disturbed, losses, updates>>

(* Bound: by this hour the process is back, so that a claim lost to each   *)
(* fault can still be made again.                                          *)
Reopening == Horizon - MaxLosses * Bump

Offsets == 0..(Length - 1)
Hours == 0..(Horizon + Length + Bump)
RowType == [enabled : BOOLEAN, offset : Offsets, next : Hours]
DispatchType == [schedule : Schedules, due : 0..Horizon, read : RowType]
UpdateType == [read : RowType, write : RowType]
NoRow == [enabled |-> FALSE]
Nothing == [schedule |-> "none"]

(* The next occurrence strictly after an hour.                             *)
NextRun(offset, after) ==
  LET candidate == after - (after % Length) + offset
  IN  IF candidate <= after THEN candidate + Length ELSE candidate

(* The full period before the one an hour falls in, by its number.         *)
Period(reference) == (reference \div Length) - 1

Exists(s) == row[s] # NoRow

ReportsTypeOK ==
  /\ now \in 0..Horizon
  /\ row \in [Schedules -> RowType \cup {NoRow}]
  /\ up \in BOOLEAN
  /\ claimed \subseteq [schedule : Schedules, due : 0..Horizon]
  /\ dispatch \in DispatchType \cup {Nothing}
  /\ update \in [Schedules -> UpdateType \cup {Nothing}]
  /\ reports \subseteq [schedule : Schedules, period : Int, at : 0..Horizon]
  /\ swept \in [Schedules -> -1..Horizon]
  /\ disturbed \in BOOLEAN
  /\ losses \in 0..MaxLosses
  /\ updates \in 0..MaxUpdates

(* There are no schedules yet; the hour is any.                            *)
ReportsInit ==
  /\ now \in 0..Horizon
  /\ row = [s \in Schedules |-> NoRow]
  /\ up = TRUE
  /\ claimed = {}
  /\ dispatch = Nothing
  /\ update = [s \in Schedules |-> Nothing]
  /\ reports = {}
  /\ swept = [s \in Schedules |-> -1]
  /\ disturbed = FALSE
  /\ losses = 0
  /\ updates = 0

-----------------------------------------------------------------------------
(* The endpoints.                                                          *)

(* A schedule is created once; a new one after a deletion is another.      *)
Create(s, enabled, offset) ==
  /\ up
  /\ ~Exists(s) /\ swept[s] = -1
  /\ row' = [row EXCEPT ![s] =
       [enabled |-> enabled, offset |-> offset, next |-> NextRun(offset, now)]]
  /\ UNCHANGED <<now, up, claimed, dispatch, update, reports, swept, disturbed, losses, updates>>

(* An update recomputes next_run_at from the settings it leaves behind.    *)
BeginReschedule(s, enabled, offset) ==
  /\ up
  /\ Exists(s) /\ update[s] = Nothing
  /\ updates < MaxUpdates
  /\ updates' = updates + 1
  /\ update' = [update EXCEPT ![s] =
       [read |-> row[s],
        write |-> [enabled |-> enabled, offset |-> offset, next |-> NextRun(offset, now)]]]
  /\ UNCHANGED <<now, row, up, claimed, dispatch, reports, swept, disturbed, losses>>

(* The columns of w that differ from what the session read, over those of  *)
(* the row as it is by now.                                                *)
Written(current, read, w) ==
  [f \in DOMAIN current |-> IF w[f] = read[f] THEN current[f] ELSE w[f]]

(* Without the row the update fails, and changes nothing.                  *)
CommitReschedule(s) ==
  LET u == update[s] IN
  /\ u # Nothing
  /\ row' = [row EXCEPT ![s] = IF Exists(s) THEN Written(@, u.read, u.write) ELSE @]
  /\ disturbed' = (disturbed \/ u.read.offset # u.write.offset)
  /\ update' = [update EXCEPT ![s] = Nothing]
  /\ UNCHANGED <<now, up, claimed, dispatch, reports, swept, losses, updates>>

Delete(s) ==
  /\ up
  /\ Exists(s)
  /\ row' = [row EXCEPT ![s] = NoRow]
  /\ swept' = [swept EXCEPT ![s] = now]
  /\ UNCHANGED <<now, up, claimed, dispatch, update, reports, disturbed, losses, updates>>

-----------------------------------------------------------------------------
(* The sweep.                                                              *)

Idle == claimed = {} /\ dispatch = Nothing

Due(s) == row[s].enabled /\ row[s].next <= now

(* Mutant: a claim that is lost is not made again before the next period.  *)
FarProvisional == now + Bump + Length

(* Where a claim leaves next_run_at.                                       *)
Provisional == now + Bump

(* Mutant: the claim returns next_run_at as it leaves it. *)
ClaimAfterBump ==
  /\ up /\ Idle
  /\ \E s \in Schedules : Due(s)
  /\ claimed' = {[schedule |-> s, due |-> Provisional] : s \in {q \in Schedules : Due(q)}}
  /\ row' = [s \in Schedules |-> IF Due(s) THEN [row[s] EXCEPT !.next = Provisional] ELSE row[s]]
  /\ UNCHANGED <<now, up, dispatch, update, reports, swept, disturbed, losses, updates>>

ClaimDueReports ==
  /\ up /\ Idle
  /\ \E s \in Schedules : Due(s)
  /\ claimed' = {[schedule |-> s, due |-> row[s].next] : s \in {q \in Schedules : Due(q)}}
  /\ row' = [s \in Schedules |-> IF Due(s) THEN [row[s] EXCEPT !.next = Provisional] ELSE row[s]]
  /\ UNCHANGED <<now, up, dispatch, update, reports, swept, disturbed, losses, updates>>

(* A schedule that was deleted since it was claimed is dropped; one that   *)
(* was disabled is not.                                                    *)
Load(c) ==
  /\ dispatch = Nothing
  /\ c \in claimed
  /\ claimed' = claimed \ {c}
  /\ dispatch' = IF Exists(c.schedule)
                 THEN [schedule |-> c.schedule, due |-> c.due, read |-> row[c.schedule]]
                 ELSE Nothing
  /\ UNCHANGED <<now, row, up, update, reports, swept, disturbed, losses, updates>>

(* Mutant: next_run_at is left where the claim has put it. *)
CommitProvisional(built) ==
  LET d == dispatch
      s == d.schedule
  IN
  /\ d # Nothing
  /\ Exists(s)
  /\ reports' = IF built
                THEN reports \cup {[schedule |-> s, period |-> Period(d.due), at |-> now]}
                ELSE reports
  /\ swept' = [swept EXCEPT ![s] = now]
  /\ dispatch' = Nothing
  /\ UNCHANGED <<now, row, up, claimed, update, disturbed, losses, updates>>

(* The dispatch commits: with the report, or with the error that kept it   *)
(* from building one.  Either way the schedule moves on.                   *)
Commit(built) ==
  LET d == dispatch
      s == d.schedule
  IN
  /\ d # Nothing
  /\ Exists(s)
  /\ reports' = IF built
                THEN reports \cup {[schedule |-> s, period |-> Period(d.due), at |-> now]}
                ELSE reports
  /\ row' = [row EXCEPT ![s] =
       Written(@, d.read, [d.read EXCEPT !.next = NextRun(d.read.offset, now)])]
  /\ swept' = [swept EXCEPT ![s] = now]
  /\ dispatch' = Nothing
  /\ UNCHANGED <<now, up, claimed, update, disturbed, losses, updates>>

(* The row has been deleted: the commit fails, and with it the report.     *)
CommitFails ==
  /\ dispatch # Nothing
  /\ ~Exists(dispatch.schedule)
  /\ dispatch' = Nothing
  /\ UNCHANGED <<now, row, up, claimed, update, reports, swept, disturbed, losses, updates>>

(* The commit fails for another reason; next_run_at stays provisional.     *)
LoseDispatch ==
  /\ dispatch # Nothing
  /\ losses < MaxLosses
  /\ losses' = losses + 1
  /\ dispatch' = Nothing
  /\ disturbed' = TRUE
  /\ UNCHANGED <<now, row, up, claimed, update, reports, swept, updates>>

Crash ==
  /\ up
  /\ losses < MaxLosses
  /\ losses' = losses + 1
  /\ up' = FALSE
  /\ claimed' = {}
  /\ dispatch' = Nothing
  /\ update' = [s \in Schedules |-> Nothing]
  /\ disturbed' = (disturbed \/ ~Idle)
  /\ UNCHANGED <<now, row, reports, swept, updates>>

Restart ==
  /\ ~up
  /\ up' = TRUE
  /\ UNCHANGED <<now, row, claimed, dispatch, update, reports, swept, disturbed, losses, updates>>

(* An hour passes: much longer than the interval between two sweeps.       *)
HourPasses ==
  /\ now < Horizon
  /\ IF up THEN /\ Idle
                /\ \A s \in Schedules : ~Due(s) /\ update[s] = Nothing
           ELSE now < Reopening
  /\ now' = now + 1
  /\ UNCHANGED <<row, up, claimed, dispatch, update, reports, swept, disturbed, losses, updates>>

-----------------------------------------------------------------------------
ReportSweep ==
  \/ ClaimDueReports
  \/ \E c \in claimed : Load(c)
  \/ \E built \in BOOLEAN : Commit(built)
  \/ CommitFails
  \/ LoseDispatch

ReportsNext ==
  \/ \E s \in Schedules, enabled \in BOOLEAN, offset \in Offsets :
       Create(s, enabled, offset) \/ BeginReschedule(s, enabled, offset)
  \/ \E s \in Schedules : CommitReschedule(s) \/ Delete(s)
  \/ ReportSweep
  \/ Crash
  \/ Restart
  \/ HourPasses

ReportsSpec == ReportsInit /\ [][ReportsNext]_reportVars

(* Time passes, sweeps keep their interval, requests end, and a process    *)
(* that died is started again.                                             *)
ReportsFairness ==
  /\ WF_reportVars(HourPasses)
  /\ WF_reportVars(ReportSweep)
  /\ WF_reportVars(Restart)
  /\ \A s \in Schedules : WF_reportVars(CommitReschedule(s))

-----------------------------------------------------------------------------
(* Properties.                                                             *)

(* No period is reported twice: as long as no claim is lost to a crash and *)
(* no schedule is moved, however updates, deletions, downtime and failing  *)
(* reports fall between claim and commit.                                  *)
ReportedOnce ==
  ~disturbed =>
    \A x, y \in reports : x.schedule = y.schedule /\ x.period = y.period => x = y

(* A report covers a period that is over, also when its claim was lost and *)
(* made again or the process was down when it was due.                     *)
OnlyFinishedPeriods == \A x \in reports : (x.period + 1) * Length <= x.at

(* Once its owner leaves a schedule alone, every occurrence of it is       *)
(* dispatched in the end: no crash and no failure leaves a schedule        *)
(* claimed for ever.                                                       *)
DueIsDispatched ==
  \A s \in Schedules : \A t \in 0..Reopening :
    Due(s) /\ row[s].next = t /\ updates = MaxUpdates /\ update[s] = Nothing ~> swept[s] >= t
=============================================================================
