---------------------------- MODULE ReportsProofs ----------------------------
(***************************************************************************)
(* Proofs about the report schedules, for any number of schedules, every   *)
(* length of the period, every provisional shift of a claim, and any       *)
(* number of losses and updates.  The occurrences of a schedule are        *)
(* Length apart, so most of what is said about periods comes down to which *)
(* of them an hour is in.                                                  *)
(***************************************************************************)
EXTENDS Reports, TLAPS

-----------------------------------------------------------------------------
(* Hours, periods and occurrences.                                         *)

LEMMA Division ==
  ASSUME NEW a \in Int
  PROVE  /\ a \div Length \in Int /\ a % Length \in Offsets
         /\ a = (a \div Length) * Length + (a % Length)
BY ReportsAssumption, Z3 DEF Offsets

(* Multiples of Length are Length apart.                                   *)
LEMMA Apart ==
  ASSUME NEW j \in Int, NEW k \in Int, j * Length < (k + 1) * Length
  PROVE  j <= k
BY ReportsAssumption, Z3

LEMMA NextRunIs ==
  ASSUME NEW o \in Offsets, NEW a \in Nat
  PROVE  /\ NextRun(o, a) \in Nat
         /\ a < NextRun(o, a) /\ NextRun(o, a) <= a + Length
         /\ NextRun(o, a) % Length = o
<1>1. /\ a \div Length \in Int /\ a % Length \in Offsets
      /\ a = (a \div Length) * Length + (a % Length)
  BY Division
<1>2. \E k \in Int : NextRun(o, a) = k * Length + o
  <2>1. (a \div Length) * Length + Length = (a \div Length + 1) * Length
    BY ReportsAssumption, <1>1, Z3
  <2>2. a - (a % Length) = (a \div Length) * Length
    BY <1>1, ReportsAssumption, Z3 DEF Offsets
  <2>3. \/ NextRun(o, a) = (a \div Length) * Length + o
        \/ NextRun(o, a) = (a \div Length) * Length + o + Length
    BY <2>2 DEF NextRun
  <2>4. \/ NextRun(o, a) = (a \div Length) * Length + o
        \/ NextRun(o, a) = (a \div Length + 1) * Length + o
    BY <1>1, <2>1, <2>3, ReportsAssumption, Z3 DEF Offsets
  <2> QED
    BY <1>1, <2>4
<1>3. a < NextRun(o, a) /\ NextRun(o, a) <= a + Length /\ NextRun(o, a) \in Nat
  BY <1>1, ReportsAssumption DEF NextRun, Offsets
<1>4. ASSUME NEW k \in Int, NextRun(o, a) = k * Length + o
      PROVE NextRun(o, a) % Length = o
  BY <1>4, ReportsAssumption, Z3 DEF Offsets
<1> QED
  BY <1>2, <1>3, <1>4

(* The occurrence after an hour is in a later period than every earlier    *)
(* occurrence.                                                             *)
LEMMA NextRunFollows ==
  ASSUME NEW o \in Offsets, NEW a \in Nat, NEW d \in Nat, d <= a, d % Length = o
  PROVE  (Period(d) + 2) * Length <= NextRun(o, a)
<1> DEFINE n == NextRun(o, a)
<1>1. n \in Nat /\ d < n /\ n % Length = o
  BY NextRunIs
<1>2. /\ d \div Length \in Int /\ n \div Length \in Int
      /\ d = (d \div Length) * Length + o
      /\ n = (n \div Length) * Length + o
  BY <1>1, Division
<1> HIDE DEF n
<1>3. (d \div Length) + 1 <= n \div Length
  BY <1>1, <1>2, ReportsAssumption, Z3 DEF Offsets
<1>4. ((d \div Length) + 1) * Length <= (n \div Length) * Length
  BY <1>2, <1>3, ReportsAssumption, Z3
<1> QED
  BY <1>2, <1>4, ReportsAssumption, Z3 DEF Period, Offsets, n

LEMMA NextRunGrows ==
  ASSUME NEW o \in Offsets, NEW a \in Nat
  PROVE  NextRun(o, a) <= NextRun(o, a + 1)
<1> DEFINE m == NextRun(o, a)
           n == NextRun(o, a + 1)
<1>1. /\ m \in Nat /\ m <= a + Length /\ m % Length = o
      /\ n \in Nat /\ a + 1 < n /\ n % Length = o
  BY NextRunIs
<1>2. /\ m \div Length \in Int /\ n \div Length \in Int
      /\ m = (m \div Length) * Length + o
      /\ n = (n \div Length) * Length + o
  BY <1>1, Division
<1> HIDE DEF m, n
<1>3. m \div Length <= n \div Length
  BY <1>1, <1>2, ReportsAssumption, Z3 DEF Offsets
<1> QED
  BY <1>1, <1>2, <1>3, ReportsAssumption, Z3 DEF Offsets, m, n

(* A period that is followed by the one of an hour is over by that hour.   *)
LEMMA PeriodIsOver ==
  ASSUME NEW d \in Nat
  PROVE  Period(d) \in Int /\ (Period(d) + 1) * Length <= d
<1>1. /\ d \div Length \in Int /\ d % Length \in Offsets
      /\ d = (d \div Length) * Length + (d % Length)
  BY Division
<1> QED
  BY <1>1, ReportsAssumption, Z3 DEF Period, Offsets

(* A report of an occurrence is of a later period than those it follows.   *)
LEMMA LaterPeriod ==
  ASSUME NEW d \in Nat, NEW p \in Int, (p + 2) * Length <= d
  PROVE  p < Period(d)
<1>1. /\ d \div Length \in Int /\ d % Length \in Offsets
      /\ d = (d \div Length) * Length + (d % Length)
  BY Division
<1>2. (p + 2) * Length < ((d \div Length) + 1) * Length
  BY <1>1, ReportsAssumption, Z3 DEF Offsets
<1>3. p + 2 <= d \div Length
  BY <1>1, <1>2, Apart
<1> QED
  BY <1>1, <1>3 DEF Period

LEMMA Shapes ==
  /\ NoRow \notin RowType
  /\ Nothing \notin UpdateType /\ Nothing \notin DispatchType
  /\ \A s, d, r : [schedule |-> s, due |-> d, read |-> r] # Nothing
BY DEF NoRow, RowType, Nothing, UpdateType, DispatchType

-----------------------------------------------------------------------------
(* Types.                                                                  *)

(* What an update of the changed columns makes of a row.                   *)
LEMMA WrittenIs ==
  ASSUME NEW c \in RowType, NEW r \in RowType, NEW w \in RowType
  PROVE  /\ Written(c, r, w) \in RowType
         /\ Written(c, r, w).offset = IF w.offset = r.offset THEN c.offset ELSE w.offset
         /\ Written(c, r, w).next = IF w.next = r.next THEN c.next ELSE w.next
<1> DEFINE x == Written(c, r, w)
           e == IF w.enabled = r.enabled THEN c.enabled ELSE w.enabled
           o == IF w.offset = r.offset THEN c.offset ELSE w.offset
           n == IF w.next = r.next THEN c.next ELSE w.next
<1>1. DOMAIN c = {"enabled", "offset", "next"}
  BY DEF RowType
<1>2. x = [f \in {"enabled", "offset", "next"} |-> IF w[f] = r[f] THEN c[f] ELSE w[f]]
  BY <1>1, Zenon DEF Written
<1>3. /\ c.enabled \in BOOLEAN /\ w.enabled \in BOOLEAN
      /\ c.offset \in Offsets /\ w.offset \in Offsets
      /\ c.next \in Hours /\ w.next \in Hours
  BY DEF RowType
<1>4. x.enabled = e /\ x.offset = o /\ x.next = n
  BY <1>2, Zenon
<1>5. e \in BOOLEAN /\ o \in Offsets /\ n \in Hours
  BY <1>3, Zenon
<1>6. x = [enabled |-> e, offset |-> o, next |-> n]
  BY <1>2, Zenon
<1> HIDE DEF x, e, o, n
<1>7. x \in RowType
  BY <1>5, <1>6, Zenon DEF RowType
<1> QED
  BY <1>4, <1>7 DEF x, o, n

LEMMA NextRunIsHour ==
  ASSUME ReportsTypeOK, NEW o \in Offsets
  PROVE  NextRun(o, now) \in Hours
BY NextRunIs, ReportsAssumption DEF ReportsTypeOK, Hours

LEMMA TypeInit == ReportsInit => ReportsTypeOK
<1> SUFFICES ASSUME ReportsInit PROVE ReportsTypeOK
  OBVIOUS
<1>1. losses \in 0..MaxLosses /\ updates \in 0..MaxUpdates /\ now \in 0..Horizon
  BY ReportsAssumption DEF ReportsInit
<1>2. swept \in [Schedules -> -1..Horizon]
  BY ReportsAssumption DEF ReportsInit
<1> QED
  BY <1>1, <1>2 DEF ReportsInit, ReportsTypeOK

LEMMA TypeNext == ReportsTypeOK /\ [ReportsNext]_reportVars => ReportsTypeOK'
<1> SUFFICES ASSUME ReportsTypeOK, [ReportsNext]_reportVars PROVE ReportsTypeOK'
  OBVIOUS
<1> USE DEF ReportsTypeOK
<1>n. now \in Int /\ now \in -1..Horizon
  BY ReportsAssumption
<1>1. ASSUME NEW s \in Schedules, NEW enabled \in BOOLEAN, NEW offset \in Offsets,
             Create(s, enabled, offset)
      PROVE  ReportsTypeOK'
  <2>1. [enabled |-> enabled, offset |-> offset, next |-> NextRun(offset, now)] \in RowType
    BY NextRunIsHour, Zenon DEF RowType
  <2>2. row' \in [Schedules -> RowType \cup {NoRow}]
    BY <1>1, <2>1, Zenon DEF Create
  <2> QED
    BY <1>1, <2>2, Zenon DEF Create
<1>2. ASSUME NEW s \in Schedules, NEW enabled \in BOOLEAN, NEW offset \in Offsets,
             BeginReschedule(s, enabled, offset)
      PROVE  ReportsTypeOK'
  <2>1. [enabled |-> enabled, offset |-> offset, next |-> NextRun(offset, now)] \in RowType
    BY NextRunIsHour, Zenon DEF RowType
  <2>2. row[s] \in RowType
    BY <1>2, Zenon DEF BeginReschedule, Exists
  <2>3. [read |-> row[s],
         write |-> [enabled |-> enabled, offset |-> offset, next |-> NextRun(offset, now)]]
          \in UpdateType
    BY <2>1, <2>2, Zenon DEF UpdateType
  <2>4. update' \in [Schedules -> UpdateType \cup {Nothing}]
    BY <1>2, <2>3, Zenon DEF BeginReschedule
  <2>5. updates' \in 0..MaxUpdates
    BY <1>2, ReportsAssumption DEF BeginReschedule
  <2> QED
    BY <1>2, <2>4, <2>5, Zenon DEF BeginReschedule
<1>3. ASSUME NEW s \in Schedules, CommitReschedule(s) PROVE ReportsTypeOK'
  <2>1. /\ update[s].read \in RowType /\ update[s].write \in RowType
    BY <1>3 DEF CommitReschedule, UpdateType
  <2>2. (IF Exists(s) THEN Written(row[s], update[s].read, update[s].write) ELSE row[s])
          \in RowType \cup {NoRow}
    BY <2>1, WrittenIs DEF Exists
  <2>3. row' \in [Schedules -> RowType \cup {NoRow}]
    BY <1>3, <2>2, Zenon DEF CommitReschedule
  <2>4. update' \in [Schedules -> UpdateType \cup {Nothing}]
    BY <1>3, Zenon DEF CommitReschedule
  <2>5. disturbed' \in BOOLEAN
    BY <1>3, Zenon DEF CommitReschedule
  <2> QED
    BY <1>3, <2>3, <2>4, <2>5, Zenon DEF CommitReschedule
<1>4. ASSUME NEW s \in Schedules, Delete(s) PROVE ReportsTypeOK'
  <2>1. row' \in [Schedules -> RowType \cup {NoRow}] /\ swept' \in [Schedules -> -1..Horizon]
    BY <1>n, <1>4, Zenon DEF Delete
  <2> QED
    BY <1>4, <2>1, Zenon DEF Delete
<1>5. CASE ClaimDueReports
  <2>1. Provisional \in Hours
    BY ReportsAssumption DEF Provisional, Hours
  <2>2. ASSUME NEW s \in Schedules, Due(s)
        PROVE  /\ [row[s] EXCEPT !.next = Provisional] \in RowType
               /\ [schedule |-> s, due |-> row[s].next] \in [schedule : Schedules, due : 0..Horizon]
    <3>1. row[s] \in RowType
      BY <2>2 DEF Due, NoRow
    <3> QED
      BY <2>1, <2>2, <3>1, ReportsAssumption DEF Due, RowType, Hours
  <2>3. claimed' \subseteq [schedule : Schedules, due : 0..Horizon]
    BY <1>5, <2>2 DEF ClaimDueReports
  <2>4. row' \in [Schedules -> RowType \cup {NoRow}]
    BY <1>5, <2>2 DEF ClaimDueReports
  <2> QED
    BY <1>5, <2>3, <2>4, Zenon DEF ClaimDueReports
<1>6. ASSUME NEW c \in claimed, Load(c) PROVE ReportsTypeOK'
  <2>1. c.schedule \in Schedules /\ c.due \in 0..Horizon
    OBVIOUS
  <2>2. ASSUME Exists(c.schedule)
        PROVE  [schedule |-> c.schedule, due |-> c.due, read |-> row[c.schedule]] \in DispatchType
    <3>1. row[c.schedule] \in RowType
      BY <2>1, <2>2, Zenon DEF Exists
    <3> QED
      BY <2>1, <3>1, Zenon DEF DispatchType
  <2>3. dispatch' \in DispatchType \cup {Nothing}
    BY <1>6, <2>2, Zenon DEF Load
  <2> QED
    BY <1>6, <2>3, Zenon DEF Load
<1>7. ASSUME NEW built \in BOOLEAN, Commit(built) PROVE ReportsTypeOK'
  <2> DEFINE s == dispatch.schedule
             w == [dispatch.read EXCEPT !.next = NextRun(dispatch.read.offset, now)]
  <2>1. /\ s \in Schedules /\ dispatch.due \in 0..Horizon /\ dispatch.read \in RowType
    BY <1>7 DEF Commit, DispatchType
  <2>2. row[s] \in RowType
    BY <1>7, <2>1, Zenon DEF Commit, Exists
  <2>3. dispatch.read.offset \in Offsets
    BY <2>1 DEF RowType
  <2>4. w \in RowType
    BY <2>1, <2>3, NextRunIsHour DEF RowType
  <2>5. Written(row[s], dispatch.read, w) \in RowType
    BY <2>1, <2>2, <2>4, WrittenIs
  <2>6. row' \in [Schedules -> RowType \cup {NoRow}]
    BY <1>7, <2>5, Zenon DEF Commit
  <2>7. swept' \in [Schedules -> -1..Horizon]
    BY <1>n, <1>7, Zenon DEF Commit
  <2>8. Period(dispatch.due) \in Int
    BY <2>1, ReportsAssumption, PeriodIsOver
  <2>9. [schedule |-> s, period |-> Period(dispatch.due), at |-> now]
          \in [schedule : Schedules, period : Int, at : 0..Horizon]
    BY <2>1, <2>8
  <2>10. reports' \subseteq [schedule : Schedules, period : Int, at : 0..Horizon]
    BY <1>7, <2>9, Zenon DEF Commit
  <2> QED
    BY <1>7, <2>6, <2>7, <2>10, Zenon DEF Commit
<1>8. CASE CommitFails
  BY <1>8, Zenon DEF CommitFails
<1>9. CASE LoseDispatch
  <2>1. losses' \in 0..MaxLosses
    BY <1>9, ReportsAssumption DEF LoseDispatch
  <2> QED
    BY <1>9, <2>1, Zenon DEF LoseDispatch
<1>10. CASE Crash
  <2>1. losses' \in 0..MaxLosses
    BY <1>10, ReportsAssumption DEF Crash
  <2>2. update' \in [Schedules -> UpdateType \cup {Nothing}]
    BY <1>10, Zenon DEF Crash
  <2>3. disturbed' \in BOOLEAN
    BY <1>10, Zenon DEF Crash, Idle
  <2> QED
    BY <1>10, <2>1, <2>2, <2>3, Zenon DEF Crash
<1>11. CASE Restart
  BY <1>11, Zenon DEF Restart
<1>12. CASE HourPasses
  <2>1. now' \in 0..Horizon
    BY <1>12, ReportsAssumption DEF HourPasses
  <2> QED
    BY <1>12, <2>1, Zenon DEF HourPasses
<1>13. CASE UNCHANGED reportVars
  BY <1>13, Zenon DEF reportVars
<1> QED
  BY <1>1, <1>2, <1>3, <1>4, <1>5, <1>6, <1>7, <1>8, <1>9, <1>10, <1>11, <1>12, <1>13, Zenon
  DEF ReportsNext, ReportSweep

(* Every reachable state is well typed: whatever is written, a schedule    *)
(* keeps an offset inside its period, and next_run_at stays within reach.  *)
THEOREM TypeCorrect == ReportsSpec => []ReportsTypeOK
BY TypeInit, TypeNext, PTL DEF ReportsSpec

-----------------------------------------------------------------------------
(* Claims.                                                                 *)

(* A schedule is dispatched once per claim.                                *)
ClaimedOnce ==
  /\ \A b, c \in claimed : b.schedule = c.schedule => b = c
  /\ dispatch # Nothing => \A c \in claimed : c.schedule # dispatch.schedule

(* What is claimed was due.                                                *)
DueIsPast ==
  /\ \A c \in claimed : c.due <= now
  /\ dispatch # Nothing => dispatch.due <= now

DownIsIdle == ~up => Idle /\ \A s \in Schedules : update[s] = Nothing

Pending(s) ==
  \/ \E c \in claimed : c.schedule = s
  \/ dispatch # Nothing /\ dispatch.schedule = s

(* Of a schedule that was never created there is nothing.                  *)
Unborn ==
  \A s \in Schedules : ~Exists(s) /\ swept[s] = -1 =>
    ~Pending(s) /\ update[s] = Nothing /\ \A x \in reports : x.schedule # s

ClaimInv == ClaimedOnce /\ DueIsPast /\ DownIsIdle /\ Unborn /\ OnlyFinishedPeriods

LEMMA ClaimInit == ReportsInit => ClaimInv
BY DEF ReportsInit, ClaimInv, ClaimedOnce, DueIsPast, DownIsIdle, Unborn, OnlyFinishedPeriods, Pending,
       Idle

LEMMA DispatchIs ==
  ASSUME ReportsTypeOK, dispatch # Nothing
  PROVE  /\ dispatch \in DispatchType
         /\ dispatch.schedule \in Schedules
         /\ dispatch.due \in Nat
         /\ dispatch.read \in RowType
         /\ dispatch.read.offset \in Offsets
BY ReportsAssumption DEF ReportsTypeOK, DispatchType, RowType

(* What a sweep loads is what it has claimed.                              *)
LEMMA LoadDoes ==
  ASSUME ReportsTypeOK, NEW c \in claimed, Load(c)
  PROVE  /\ claimed' = claimed \ {c} /\ dispatch = Nothing
         /\ dispatch' # Nothing => /\ Exists(c.schedule)
                                   /\ dispatch'.schedule = c.schedule
                                   /\ dispatch'.due = c.due
                                   /\ dispatch'.read = row[c.schedule]
         /\ Exists(c.schedule) => dispatch' # Nothing
BY Shapes DEF Load

(* What a sweep claims was due.                                            *)
LEMMA ClaimDoes ==
  ASSUME ReportsTypeOK, ClaimDueReports
  PROVE  /\ dispatch' = dispatch /\ dispatch = Nothing /\ claimed = {}
         /\ \A c \in claimed' : /\ c.schedule \in Schedules
                                /\ Due(c.schedule) /\ c.due = row[c.schedule].next
                                /\ row[c.schedule] \in RowType
         /\ \A b, c \in claimed' : b.schedule = c.schedule => b = c
         /\ \A s \in Schedules : Due(s) => \E c \in claimed' : c.schedule = s
         /\ \A s \in Schedules : ~Due(s) => row'[s] = row[s]
         /\ \A s \in Schedules : Due(s) => /\ row[s] \in RowType /\ row'[s] \in RowType
                                           /\ row'[s].offset = row[s].offset
         /\ \A s \in Schedules : Exists(s)' <=> Exists(s)
<1>1. /\ dispatch' = dispatch /\ dispatch = Nothing /\ claimed = {}
      /\ row' \in [Schedules -> RowType \cup {NoRow}]
  <2>1. ReportsTypeOK'
    BY TypeNext DEF ReportsNext, ReportSweep
  <2> QED
    BY <2>1 DEF ClaimDueReports, Idle, ReportsTypeOK
<1>2. \A s \in Schedules : Due(s) => row[s] \in RowType
  BY DEF Due, NoRow, ReportsTypeOK
<1>3. \A c \in claimed' : /\ c.schedule \in Schedules
                          /\ Due(c.schedule) /\ c.due = row[c.schedule].next
                          /\ c = [schedule |-> c.schedule, due |-> row[c.schedule].next]
  BY DEF ClaimDueReports
<1>4. ASSUME NEW s \in Schedules, Due(s) PROVE \E c \in claimed' : c.schedule = s
  <2>1. [schedule |-> s, due |-> row[s].next] \in claimed'
    BY <1>4 DEF ClaimDueReports
  <2> QED
    BY <2>1
<1>5. ASSUME NEW s \in Schedules, ~Due(s) PROVE row'[s] = row[s]
  BY <1>5 DEF ClaimDueReports
<1>6. ASSUME NEW s \in Schedules, Due(s)
      PROVE  row'[s] \in RowType /\ row'[s].offset = row[s].offset
  <2>1. row'[s] = [row[s] EXCEPT !.next = Provisional]
    BY <1>6 DEF ClaimDueReports
  <2>2. Provisional \in Hours
    BY ReportsAssumption DEF Provisional, Hours, ReportsTypeOK
  <2> QED
    BY <1>2, <1>6, <2>1, <2>2 DEF RowType
<1> QED
  BY <1>1, <1>2, <1>3, <1>4, <1>5, <1>6, Shapes DEF Exists

LEMMA ClaimNext == ReportsTypeOK /\ ClaimInv /\ [ReportsNext]_reportVars => ClaimInv'
<1> SUFFICES ASSUME ReportsTypeOK, ClaimInv, [ReportsNext]_reportVars PROVE ClaimInv'
  OBVIOUS
<1> USE DEF ClaimInv
<1>a. now \in Nat /\ now # -1
  BY ReportsAssumption DEF ReportsTypeOK
<1>b. ASSUME claimed' = claimed, dispatch' = dispatch, now' = now
      PROVE  ClaimedOnce' /\ DueIsPast'
  BY <1>b DEF ClaimedOnce, DueIsPast
<1>c. ASSUME claimed' = claimed, dispatch' = dispatch, swept' = swept, reports' = reports,
             \A s \in Schedules : /\ Exists(s)' <=> Exists(s)
                                  /\ update'[s] \in {update[s], Nothing}
      PROVE  Unborn'
  BY <1>c DEF Unborn, Pending
<1>1. ASSUME NEW s \in Schedules, NEW enabled \in BOOLEAN, NEW offset \in Offsets,
             Create(s, enabled, offset)
      PROVE  ClaimInv'
  <2>1. \A q \in Schedules : Exists(q)' <=> Exists(q) \/ q = s
    BY <1>1, Shapes DEF Create, Exists, ReportsTypeOK, NoRow
  <2>2. Unborn'
    BY <1>1, <2>1 DEF Create, Unborn, Pending
  <2>3. DownIsIdle' /\ OnlyFinishedPeriods'
    BY <1>1 DEF Create, DownIsIdle, OnlyFinishedPeriods
  <2> QED
    BY <1>1, <1>b, <2>2, <2>3 DEF Create
<1>2. ASSUME NEW s \in Schedules, NEW enabled \in BOOLEAN, NEW offset \in Offsets,
             BeginReschedule(s, enabled, offset)
      PROVE  ClaimInv'
  <2>1. /\ Exists(s)
        /\ \A q \in Schedules : Exists(q)' <=> Exists(q)
        /\ \A q \in Schedules : q # s => update'[q] = update[q]
    BY <1>2 DEF BeginReschedule, Exists, ReportsTypeOK
  <2>2. Unborn'
    BY <1>2, <2>1 DEF BeginReschedule, Unborn, Pending
  <2>3. DownIsIdle' /\ OnlyFinishedPeriods'
    BY <1>2 DEF BeginReschedule, DownIsIdle, OnlyFinishedPeriods
  <2> QED
    BY <1>2, <1>b, <2>2, <2>3 DEF BeginReschedule
<1>3. ASSUME NEW s \in Schedules, CommitReschedule(s) PROVE ClaimInv'
  <2>1. /\ \A q \in Schedules : Exists(q)' <=> Exists(q)
        /\ \A q \in Schedules : update'[q] \in {update[q], Nothing}
    <3>1. update[s].read \in RowType /\ update[s].write \in RowType
      BY <1>3 DEF CommitReschedule, UpdateType, ReportsTypeOK
    <3>2. Exists(s) => Written(row[s], update[s].read, update[s].write) \in RowType
      BY <3>1, WrittenIs DEF Exists, ReportsTypeOK
    <3> QED
      BY <1>3, <3>2, Shapes DEF CommitReschedule, Exists, ReportsTypeOK
  <2>2. DownIsIdle' /\ OnlyFinishedPeriods'
    BY <1>3, <2>1 DEF CommitReschedule, DownIsIdle, Idle, OnlyFinishedPeriods
  <2> QED
    BY <1>3, <1>b, <1>c, <2>1, <2>2 DEF CommitReschedule
<1>4. ASSUME NEW s \in Schedules, Delete(s) PROVE ClaimInv'
  <2>1. \A q \in Schedules : q # s => (Exists(q)' <=> Exists(q)) /\ swept'[q] = swept[q]
    BY <1>4 DEF Delete, Exists, ReportsTypeOK
  <2>2. swept'[s] # -1
    BY <1>4, <1>a DEF Delete, ReportsTypeOK
  <2>3. Unborn'
    BY <1>4, <2>1, <2>2 DEF Delete, Unborn, Pending
  <2>4. DownIsIdle' /\ OnlyFinishedPeriods'
    BY <1>4 DEF Delete, DownIsIdle, Idle, OnlyFinishedPeriods
  <2> QED
    BY <1>4, <1>b, <2>3, <2>4 DEF Delete
<1>5. CASE ClaimDueReports
  <2>1. ClaimedOnce' /\ DueIsPast'
    BY <1>5, ClaimDoes DEF ClaimedOnce, DueIsPast, Due, ClaimDueReports
  <2>2. \A s \in Schedules : Exists(s)' => Exists(s)
    BY <1>5, ClaimDoes
  <2>3. \A s \in Schedules : Pending(s)' => Exists(s)
    BY <1>5, ClaimDoes, Shapes DEF Pending, Exists
  <2>4. Unborn'
    BY <1>5, <2>3, ClaimDoes DEF ClaimDueReports, Unborn
  <2>5. DownIsIdle' /\ OnlyFinishedPeriods'
    BY <1>5 DEF ClaimDueReports, DownIsIdle, OnlyFinishedPeriods
  <2> QED
    BY <2>1, <2>4, <2>5
<1>6. ASSUME NEW c \in claimed, Load(c) PROVE ClaimInv'
  <2>1. ClaimedOnce' /\ DueIsPast'
    BY <1>6, LoadDoes DEF ClaimedOnce, DueIsPast, Load
  <2>2. \A s \in Schedules : Pending(s)' => Pending(s)
    BY <1>6, LoadDoes DEF Pending
  <2>3. Unborn' /\ OnlyFinishedPeriods'
    BY <1>6, <2>2 DEF Load, Unborn, Exists, OnlyFinishedPeriods
  <2>4. DownIsIdle'
    BY <1>6 DEF Load, DownIsIdle, Idle
  <2> QED
    BY <2>1, <2>3, <2>4
<1>7. ASSUME NEW built \in BOOLEAN, Commit(built) PROVE ClaimInv'
  <2> DEFINE s == dispatch.schedule
             x == [schedule |-> s, period |-> Period(dispatch.due), at |-> now]
  <2>1. dispatch # Nothing /\ dispatch' = Nothing /\ claimed' = claimed /\ now' = now
    BY <1>7, Zenon DEF Commit
  <2>2. s \in Schedules /\ dispatch.due \in Nat
    BY <2>1, DispatchIs
  <2>3. ClaimedOnce' /\ DueIsPast'
    BY <2>1 DEF ClaimedOnce, DueIsPast
  <2>4. swept'[s] # -1 /\ \A q \in Schedules : q # s => swept'[q] = swept[q] /\ row'[q] = row[q]
    BY <1>7, <1>a, <2>2 DEF Commit, ReportsTypeOK
  <2>5. reports' \subseteq reports \cup {x}
    BY <1>7, Zenon DEF Commit
  <2>6. \A q \in Schedules : Pending(q)' => Pending(q)
    BY <2>1 DEF Pending
  <2>7. Unborn'
    <3> SUFFICES ASSUME NEW q \in Schedules, ~Exists(q)', swept'[q] = -1
                 PROVE  ~Pending(q)' /\ update'[q] = Nothing /\ \A y \in reports' : y.schedule # q
      BY DEF Unborn
    <3>1. q # s /\ ~Exists(q) /\ swept[q] = -1
      BY <2>4 DEF Exists
    <3>2. update' = update
      BY <1>7, Zenon DEF Commit
    <3> QED
      BY <2>5, <2>6, <3>1, <3>2 DEF Unborn
  <2>8. dispatch.due <= now
    BY <2>1 DEF DueIsPast
  <2>9. (x.period + 1) * Length <= x.at
    <3>1. Period(dispatch.due) \in Int /\ (Period(dispatch.due) + 1) * Length <= dispatch.due
      BY <2>2, PeriodIsOver
    <3>2. (Period(dispatch.due) + 1) * Length \in Int
      BY <3>1, ReportsAssumption
    <3> QED
      BY <1>a, <2>2, <2>8, <3>1, <3>2
  <2>10. OnlyFinishedPeriods'
    <3> HIDE DEF x
    <3> QED
      BY <2>5, <2>9 DEF OnlyFinishedPeriods
  <2>11. DownIsIdle'
    BY <1>7, <2>1 DEF Commit, DownIsIdle, Idle
  <2> QED
    BY <2>3, <2>7, <2>10, <2>11
<1>8. CASE CommitFails \/ LoseDispatch
  <2>1. /\ dispatch' = Nothing /\ claimed' = claimed /\ now' = now /\ row' = row /\ up' = up
        /\ swept' = swept /\ update' = update /\ reports' = reports
    BY <1>8, Zenon DEF CommitFails, LoseDispatch
  <2> QED
    BY <2>1 DEF ClaimedOnce, DueIsPast, Unborn, Pending, Exists, DownIsIdle, Idle,
                OnlyFinishedPeriods
<1>9. CASE Crash
  <2>1. ClaimedOnce' /\ DueIsPast' /\ DownIsIdle' /\ OnlyFinishedPeriods'
    BY <1>9 DEF Crash, ClaimedOnce, DueIsPast, DownIsIdle, Idle, OnlyFinishedPeriods
  <2>2. Unborn'
    BY <1>9 DEF Crash, Unborn, Pending, Exists
  <2> QED
    BY <2>1, <2>2
<1>10. CASE Restart
  <2>1. DownIsIdle' /\ OnlyFinishedPeriods'
    BY <1>10 DEF Restart, DownIsIdle, OnlyFinishedPeriods
  <2> QED
    BY <1>10, <1>b, <1>c, <2>1 DEF Restart, Exists
<1>11. CASE HourPasses
  <2>1. claimed = {} /\ dispatch = Nothing
    BY <1>11 DEF HourPasses, DownIsIdle, Idle
  <2>2. ClaimedOnce' /\ DueIsPast' /\ DownIsIdle' /\ OnlyFinishedPeriods'
    BY <1>11, <2>1 DEF HourPasses, ClaimedOnce, DueIsPast, DownIsIdle, Idle, OnlyFinishedPeriods
  <2> QED
    BY <1>11, <1>c, <2>2 DEF HourPasses, Exists
<1>12. CASE UNCHANGED reportVars
  <2>1. DownIsIdle' /\ OnlyFinishedPeriods'
    BY <1>12 DEF reportVars, DownIsIdle, Idle, OnlyFinishedPeriods
  <2> QED
    BY <1>12, <1>b, <1>c, <2>1 DEF reportVars, Exists
<1> QED
  BY <1>1, <1>2, <1>3, <1>4, <1>5, <1>6, <1>7, <1>8, <1>9, <1>10, <1>11, <1>12, Zenon
  DEF ReportsNext, ReportSweep

-----------------------------------------------------------------------------
(* Occurrences.                                                            *)

(* An hour at which a schedule runs, in a later period than those it has   *)
(* reported.                                                               *)
Follows(s, t) ==
  /\ t % Length = row[s].offset
  /\ \A x \in reports : x.schedule = s => (x.period + 2) * Length <= t

NextOf(s) == NextRun(row[s].offset, now)

(* A schedule nobody dispatches waits for an occurrence that follows its   *)
(* reports and is not later than the next one; so does the instant a claim *)
(* remembers.  Sessions in flight have read the offset it still has, and   *)
(* will leave it with its next occurrence.                                 *)
OnTrack(s) ==
  /\ ~Pending(s) => Follows(s, row[s].next) /\ row[s].next <= NextOf(s)
  /\ \A c \in claimed : c.schedule = s => Follows(s, c.due)
  /\ dispatch # Nothing /\ dispatch.schedule = s =>
       /\ Follows(s, dispatch.due)
       /\ dispatch.read.offset = row[s].offset
       /\ dispatch.read.next = NextOf(s) => row[s].next = NextOf(s)
  /\ update[s] # Nothing =>
       /\ update[s].read.offset = row[s].offset
       /\ update[s].write.next = NextRun(update[s].write.offset, now)

AllOnTrack == ~disturbed => \A s \in Schedules : Exists(s) => OnTrack(s)

ReportInv == AllOnTrack /\ ReportedOnce

LEMMA ReportInit == ReportsInit => ReportInv
BY Shapes DEF ReportsInit, ReportInv, AllOnTrack, ReportedOnce, Exists

(* What a step that leaves a schedule and the clock alone preserves.       *)
LEMMA TrackStays ==
  ASSUME NEW s \in Schedules, OnTrack(s), row'[s] = row[s], now' = now,
         \A x \in reports' : x.schedule = s => x \in reports,
         Pending(s)' <=> Pending(s),
         \A c \in claimed' : c.schedule = s => c \in claimed,
         dispatch' # Nothing /\ dispatch'.schedule = s => dispatch' = dispatch,
         update'[s] \in {update[s], Nothing}
  PROVE  OnTrack(s)'
<1>1. NextOf(s)' = NextOf(s)
  BY DEF NextOf, NextRun
<1>2. ASSUME NEW t, Follows(s, t)
      PROVE  /\ t % Length = row'[s].offset
             /\ \A x \in reports' : x.schedule = s => (x.period + 2) * Length <= t
  BY <1>2 DEF Follows
<1> QED
  BY <1>1, <1>2 DEF OnTrack, Follows

LEMMA NextOfIs ==
  ASSUME ReportsTypeOK, NEW s \in Schedules, Exists(s)
  PROVE  /\ row[s] \in RowType /\ row[s].offset \in Offsets /\ row[s].next \in Nat
         /\ NextOf(s) \in Nat /\ now \in Nat
         /\ NextOf(s) % Length = row[s].offset
         /\ now < NextOf(s)
<1>1. row[s] \in RowType /\ row[s].offset \in Offsets /\ row[s].next \in Nat
  BY ReportsAssumption DEF Exists, ReportsTypeOK, RowType, Hours
<1>2. now \in Nat
  BY ReportsAssumption DEF ReportsTypeOK
<1> QED
  BY <1>1, <1>2, NextRunIs DEF NextOf

(* The next occurrence follows every report, once an earlier one does.     *)
LEMMA NextOfFollows ==
  ASSUME ReportsTypeOK, NEW s \in Schedules, Exists(s), NEW t \in Nat, Follows(s, t), t <= NextOf(s)
  PROVE  Follows(s, NextOf(s))
<1>1. NextOf(s) \in Nat /\ NextOf(s) % Length = row[s].offset
  BY NextOfIs
<1>2. ASSUME NEW x \in reports, x.schedule = s PROVE (x.period + 2) * Length <= NextOf(s)
  <2>1. (x.period + 2) * Length \in Int
    BY ReportsAssumption DEF ReportsTypeOK
  <2> QED
    BY <1>1, <1>2, <2>1 DEF Follows
<1> QED
  BY <1>1, <1>2 DEF Follows

LEMMA UpdateIs ==
  ASSUME ReportsTypeOK, NEW s \in Schedules, update[s] # Nothing
  PROVE  /\ update[s].read \in RowType /\ update[s].write \in RowType
BY DEF ReportsTypeOK, UpdateType

LEMMA CreateOnTrack ==
  ASSUME ReportsTypeOK, ClaimInv, NEW s \in Schedules, NEW enabled \in BOOLEAN, NEW offset \in Offsets,
         Create(s, enabled, offset)
  PROVE  OnTrack(s)'
<1>1. /\ row'[s].offset = offset /\ row'[s].next = NextRun(offset, now)
      /\ now' = now /\ reports' = reports /\ update' = update
      /\ claimed' = claimed /\ dispatch' = dispatch
  BY DEF Create, ReportsTypeOK
<1>2. ~Pending(s) /\ update[s] = Nothing /\ \A x \in reports : x.schedule # s
  BY DEF Create, ClaimInv, Unborn
<1>3. NextOf(s)' = NextRun(offset, now)
  BY <1>1 DEF NextOf, NextRun
<1>4. NextRun(offset, now) % Length = offset /\ NextRun(offset, now) \in Nat
  BY NextRunIs, ReportsAssumption DEF ReportsTypeOK
<1> QED
  BY <1>1, <1>2, <1>3, <1>4 DEF OnTrack, Follows, Pending

LEMMA UpdateOnTrack ==
  ASSUME ReportsTypeOK, NEW s \in Schedules, CommitReschedule(s), ~disturbed', Exists(s), OnTrack(s)
  PROVE  OnTrack(s)'
<1> DEFINE u == update[s]
           n == NextOf(s)
<1>1. /\ u # Nothing /\ now' = now /\ reports' = reports
      /\ claimed' = claimed /\ dispatch' = dispatch
      /\ u.read.offset = u.write.offset
      /\ row'[s] = Written(row[s], u.read, u.write)
      /\ update'[s] = Nothing
  BY DEF CommitReschedule, ReportsTypeOK
<1>2. u.read \in RowType /\ u.write \in RowType /\ row[s] \in RowType
  BY <1>1, UpdateIs, NextOfIs
<1>3. u.read.offset = row[s].offset /\ u.write.next = n
  BY <1>1 DEF OnTrack, NextOf
<1>4. row'[s].offset = row[s].offset /\ row'[s].next \in {row[s].next, n}
  <2>1. /\ row'[s].offset = IF u.write.offset = u.read.offset THEN row[s].offset
                            ELSE u.write.offset
        /\ row'[s].next = IF u.write.next = u.read.next THEN row[s].next ELSE u.write.next
    BY <1>1, <1>2, WrittenIs
  <2> HIDE DEF u, n
  <2> QED
    BY <1>1, <1>3, <2>1
<1>5. NextOf(s)' = n
  BY <1>1, <1>4 DEF NextOf, NextRun
<1>6. \A t : Follows(s, t) => /\ t % Length = row'[s].offset
                              /\ \A x \in reports' : x.schedule = s => (x.period + 2) * Length <= t
  BY <1>1, <1>4 DEF Follows
<1>7. ~Pending(s)' => /\ Follows(s, row[s].next) /\ row[s].next <= n
                      /\ Follows(s, n) /\ n <= n
  BY <1>1, NextOfIs, NextOfFollows DEF OnTrack, Pending
<1> HIDE DEF n
<1> QED
  BY <1>1, <1>4, <1>5, <1>6, <1>7 DEF OnTrack, Follows, n

LEMMA ClaimOnTrack ==
  ASSUME ReportsTypeOK, ClaimDueReports, NEW s \in Schedules, Exists(s), OnTrack(s)
  PROVE  OnTrack(s)'
<1>1. /\ now' = now /\ reports' = reports /\ update' = update
      /\ claimed = {} /\ dispatch = Nothing /\ dispatch' = Nothing
  BY ClaimDoes DEF ClaimDueReports
<1>2. CASE ~Due(s)
  BY <1>1, <1>2, ClaimDoes, TrackStays DEF Pending
<1>3. CASE Due(s)
  <2>1. row'[s].offset = row[s].offset /\ Follows(s, row[s].next)
    BY <1>1, <1>3, ClaimDoes DEF OnTrack, Pending
  <2>2. \A c \in claimed' : c.schedule = s => c.due = row[s].next
    BY ClaimDoes
  <2>3. Pending(s)'
    BY <1>3, ClaimDoes DEF Pending
  <2> QED
    BY <1>1, <2>1, <2>2, <2>3 DEF OnTrack, Follows
<1> QED
  BY <1>2, <1>3

LEMMA LoadOnTrack ==
  ASSUME ReportsTypeOK, NEW c \in claimed, Load(c), NEW s \in Schedules, Exists(s), OnTrack(s)
  PROVE  OnTrack(s)'
<1>1. /\ now' = now /\ reports' = reports /\ update' = update /\ row' = row
      /\ claimed' = claimed \ {c} /\ dispatch = Nothing
  BY DEF Load
<1>2. CASE s # c.schedule
  BY <1>1, <1>2, LoadDoes, TrackStays DEF Pending
<1>3. CASE s = c.schedule
  <2>1. /\ dispatch' # Nothing /\ dispatch'.schedule = s /\ dispatch'.due = c.due
        /\ dispatch'.read = row[s]
    BY <1>3, LoadDoes
  <2>2. Follows(s, c.due) /\ Pending(s)'
    BY <1>3, <2>1 DEF OnTrack, Pending
  <2> QED
    BY <1>1, <2>1, <2>2 DEF OnTrack, Follows, NextOf, NextRun
<1> QED
  BY <1>2, <1>3

(* A dispatch that commits leaves its schedule with the next occurrence,   *)
(* and reports a later period than every report before.                    *)
LEMMA CommitOnTrack ==
  ASSUME ReportsTypeOK, ClaimInv, NEW built \in BOOLEAN, Commit(built),
         NEW s \in Schedules, s = dispatch.schedule, OnTrack(s)
  PROVE  /\ OnTrack(s)'
         /\ \A x \in reports : x.schedule = s => x.period < Period(dispatch.due)
<1> DEFINE d == dispatch
           n == NextOf(s)
           r == [schedule |-> s, period |-> Period(d.due), at |-> now]
           w == [d.read EXCEPT !.next = NextRun(d.read.offset, now)]
<1>1. /\ d # Nothing /\ Exists(s) /\ d.due \in Nat
      /\ d.read \in RowType /\ d.read.offset \in Offsets
  BY DispatchIs DEF Commit
<1>2. /\ now' = now /\ claimed' = claimed /\ dispatch' = Nothing /\ update' = update
      /\ row'[s] = Written(row[s], d.read, w)
      /\ reports' \subseteq reports \cup {r}
  BY <1>1 DEF Commit, ReportsTypeOK
<1>3. /\ row[s] \in RowType /\ n \in Nat /\ now \in Nat /\ n % Length = row[s].offset
      /\ now < n /\ row[s].offset \in Offsets
  BY <1>1, NextOfIs
<1>4. /\ Follows(s, d.due)
      /\ d.read.offset = row[s].offset
      /\ d.read.next = n => row[s].next = n
  BY <1>1 DEF OnTrack
<1>5. w \in RowType /\ w.next = n /\ w.offset = d.read.offset
  BY <1>1, <1>4, NextRunIsHour DEF RowType, NextOf
<1>6. row'[s].offset = row[s].offset /\ row'[s].next = n
  <2> HIDE DEF w, n
  <2> QED
    BY <1>1, <1>2, <1>3, <1>4, <1>5, WrittenIs
<1>7. NextOf(s)' = n
  BY <1>2, <1>6 DEF NextOf, NextRun
<1>8. d.due <= now
  BY <1>1 DEF ClaimInv, DueIsPast
<1>9. (r.period + 2) * Length <= n
  <2>1. d.due % Length = row[s].offset
    BY <1>4 DEF Follows
  <2> QED
    BY <1>1, <1>3, <1>8, <2>1, NextRunFollows DEF NextOf
<1>10. ASSUME NEW x \in reports, x.schedule = s
       PROVE  x.period < Period(d.due) /\ (x.period + 2) * Length <= n
  <2>1. x.period \in Int /\ (x.period + 2) * Length <= d.due
    BY <1>4, <1>10 DEF Follows, ReportsTypeOK
  <2>2. (x.period + 2) * Length \in Int
    BY <2>1, ReportsAssumption
  <2> HIDE DEF n
  <2> QED
    BY <1>1, <1>3, <1>8, <2>1, <2>2, LaterPeriod
<1>11. ~Pending(s)'
  BY <1>1, <1>2 DEF Pending, ClaimInv, ClaimedOnce
<1>12. \A x \in reports' : x.schedule = s => (x.period + 2) * Length <= n
  <2> HIDE DEF n, r
  <2> QED
    BY <1>2, <1>9, <1>10
<1>13. \A c \in claimed : c.schedule # s
  BY <1>1 DEF ClaimInv, ClaimedOnce
<1>14. OnTrack(s)'
  <2>1. update'[s] # Nothing => /\ update[s].read.offset = row[s].offset
                                /\ update[s].write.next = NextRun(update[s].write.offset, now)
    BY <1>2 DEF OnTrack
  <2> HIDE DEF n
  <2>2. (~Pending(s) => Follows(s, row[s].next) /\ row[s].next <= NextOf(s))'
    BY <1>3, <1>6, <1>7, <1>12 DEF Follows
  <2> QED
    BY <1>2, <1>6, <1>13, <2>1, <2>2 DEF OnTrack
<1> QED
  BY <1>10, <1>14

LEMMA TickOnTrack ==
  ASSUME ReportsTypeOK, ClaimInv, HourPasses, NEW s \in Schedules, Exists(s), OnTrack(s)
  PROVE  OnTrack(s)'
<1>1. /\ now' = now + 1 /\ reports' = reports /\ row' = row /\ update'[s] = Nothing
      /\ claimed' = {} /\ dispatch' = Nothing /\ ~Pending(s)
  BY DEF HourPasses, ClaimInv, DownIsIdle, Idle, Pending
<1>2. NextOf(s) <= NextOf(s)'
  BY <1>1, NextOfIs, NextRunGrows DEF NextOf
<1>3. NextOf(s)' \in Nat
  <2>1. ReportsTypeOK' /\ Exists(s)'
    BY <1>1, TypeNext DEF ReportsNext, Exists
  <2> QED
    BY <2>1, <1>1, NextOfIs, NextRunIs DEF NextOf
<1>4. Follows(s, row[s].next) /\ row[s].next <= NextOf(s)
  BY <1>1 DEF OnTrack
<1>5. row[s].next <= NextOf(s)'
  BY <1>2, <1>3, <1>4, NextOfIs
<1> QED
  BY <1>1, <1>4, <1>5 DEF OnTrack, Follows

LEMMA OnTrackNext ==
  ASSUME ReportsTypeOK, ClaimInv, AllOnTrack, [ReportsNext]_reportVars, ~disturbed',
         NEW s \in Schedules, Exists(s)'
  PROVE  OnTrack(s)'
<1>0. ~disturbed /\ (Exists(s) => OnTrack(s))
  <2>1. CASE ~disturbed
    BY <2>1 DEF AllOnTrack
  <2>2. CASE disturbed
    BY <2>2, Zenon DEF ReportsNext, reportVars, Create, BeginReschedule, CommitReschedule, Delete, ReportSweep,
       ClaimDueReports, Load, Commit, CommitFails, LoseDispatch, Crash, Restart, HourPasses
  <2> QED
    BY <2>1, <2>2 DEF ReportsTypeOK
<1>1. ASSUME NEW q \in Schedules, NEW enabled \in BOOLEAN, NEW offset \in Offsets,
             Create(q, enabled, offset)
      PROVE  OnTrack(s)'
  <2>1. CASE q # s
    BY <1>0, <1>1, <2>1, TrackStays DEF Create, Exists, Pending, ReportsTypeOK
  <2> QED
    BY <1>1, <2>1, CreateOnTrack
<1>2. ASSUME NEW q \in Schedules, NEW enabled \in BOOLEAN, NEW offset \in Offsets,
             BeginReschedule(q, enabled, offset)
      PROVE  OnTrack(s)'
  <2>1. /\ now' = now /\ row' = row /\ reports' = reports
        /\ claimed' = claimed /\ dispatch' = dispatch
        /\ Exists(s) /\ OnTrack(s)
    BY <1>0, <1>2 DEF BeginReschedule, Exists
  <2>2. CASE q # s
    BY <1>2, <2>1, <2>2, TrackStays DEF BeginReschedule, Pending, ReportsTypeOK
  <2>3. CASE q = s
    <3>1. /\ update'[s].read = row[s]
          /\ update'[s].write.next = NextRun(update'[s].write.offset, now)
      BY <1>2, <2>3 DEF BeginReschedule, ReportsTypeOK
    <3> QED
      BY <2>1, <3>1 DEF OnTrack, Follows, NextOf, NextRun, Pending
  <2> QED
    BY <2>2, <2>3
<1>3. ASSUME NEW q \in Schedules, CommitReschedule(q) PROVE OnTrack(s)'
  <2>1. Exists(s)
    BY <1>3 DEF CommitReschedule, Exists, ReportsTypeOK
  <2>2. CASE q # s
    BY <1>0, <1>3, <2>1, <2>2, TrackStays DEF CommitReschedule, Pending, ReportsTypeOK
  <2> QED
    BY <1>0, <1>3, <2>1, <2>2, UpdateOnTrack
<1>4. ASSUME NEW q \in Schedules, Delete(q) PROVE OnTrack(s)'
  <2>1. q # s
    BY <1>4 DEF Delete, Exists, ReportsTypeOK
  <2> QED
    BY <1>0, <1>4, <2>1, TrackStays DEF Delete, Exists, Pending, ReportsTypeOK
<1>5. CASE ClaimDueReports
  BY <1>0, <1>5, ClaimOnTrack, ClaimDoes
<1>6. ASSUME NEW c \in claimed, Load(c) PROVE OnTrack(s)'
  BY <1>0, <1>6, LoadOnTrack DEF Load, Exists
<1>7. ASSUME NEW built \in BOOLEAN, Commit(built) PROVE OnTrack(s)'
  <2>1. dispatch.schedule \in Schedules /\ dispatch # Nothing
    BY <1>7, DispatchIs DEF Commit
  <2>2. CASE s = dispatch.schedule
    <3>1. Exists(s)
      BY <1>7, <2>2 DEF Commit
    <3> QED
      BY <1>0, <1>7, <2>2, <3>1, CommitOnTrack
  <2>3. CASE s # dispatch.schedule
    <3>1. /\ now' = now /\ row'[s] = row[s] /\ update' = update
          /\ claimed' = claimed /\ dispatch' = Nothing
          /\ \A x \in reports' : x.schedule = s => x \in reports
      BY <1>7, <2>3 DEF Commit, ReportsTypeOK
    <3>2. Exists(s) /\ (Pending(s)' <=> Pending(s))
      BY <2>3, <3>1 DEF Exists, Pending
    <3> QED
      BY <1>0, <3>1, <3>2, TrackStays
  <2> QED
    BY <2>2, <2>3
<1>8. CASE CommitFails
  <2>1. Exists(s) /\ s # dispatch.schedule
    BY <1>8 DEF CommitFails, Exists
  <2> QED
    BY <1>0, <1>8, <2>1, TrackStays DEF CommitFails, Pending
<1>9. ~LoseDispatch
  BY DEF LoseDispatch
<1>10. CASE Crash
  <2>1. claimed = {} /\ dispatch = Nothing
    BY <1>10 DEF Crash, Idle
  <2> QED
    BY <1>0, <1>10, <2>1, TrackStays DEF Crash, Exists, Pending
<1>11. CASE Restart
  BY <1>0, <1>11, TrackStays DEF Restart, Exists, Pending
<1>12. CASE HourPasses
  BY <1>0, <1>12, TickOnTrack DEF HourPasses, Exists
<1>13. CASE UNCHANGED reportVars
  BY <1>0, <1>13, TrackStays DEF reportVars, Exists, Pending
<1> QED
  BY <1>1, <1>2, <1>3, <1>4, <1>5, <1>6, <1>7, <1>8, <1>9, <1>10, <1>11, <1>12, <1>13, Zenon
  DEF ReportsNext, ReportSweep

LEMMA ReportedOnceNext ==
  ReportsTypeOK /\ ClaimInv /\ ReportInv /\ [ReportsNext]_reportVars => ReportedOnce'
<1> SUFFICES ASSUME ReportsTypeOK, ClaimInv, ReportInv, [ReportsNext]_reportVars, ~disturbed',
                    NEW x \in reports', NEW y \in reports',
                    x.schedule = y.schedule, x.period = y.period
             PROVE  x = y
  BY DEF ReportedOnce
<1>1. ~disturbed
  <2>1. CASE disturbed
    BY <2>1, Zenon DEF ReportsNext, reportVars, Create, BeginReschedule, CommitReschedule, Delete, ReportSweep,
       ClaimDueReports, Load, Commit, CommitFails, LoseDispatch, Crash, Restart, HourPasses
  <2> QED
    BY <2>1
<1>2. CASE reports' = reports
  BY <1>1, <1>2 DEF ReportInv, ReportedOnce
<1>3. ASSUME NEW built \in BOOLEAN, Commit(built) PROVE x = y
  <2> DEFINE s == dispatch.schedule
             r == [schedule |-> s, period |-> Period(dispatch.due), at |-> now]
  <2>1. s \in Schedules /\ Exists(s) /\ dispatch.due \in Nat
    BY <1>3, DispatchIs DEF Commit
  <2>2. OnTrack(s)
    BY <1>1, <2>1 DEF ReportInv, AllOnTrack
  <2>3. \A z \in reports : z.schedule = s => z.period < Period(dispatch.due)
    BY <1>3, <2>1, <2>2, CommitOnTrack
  <2>4. reports' \subseteq reports \cup {r}
    BY <1>3, Zenon DEF Commit
  <2>5. Period(dispatch.due) \in Int /\ \A z \in reports : z.period \in Int
    BY <2>1, PeriodIsOver DEF ReportsTypeOK
  <2> HIDE DEF s
  <2>6. \A z \in reports : z.schedule = r.schedule => z.period # r.period
    BY <2>3, <2>5
  <2> HIDE DEF r
  <2> QED
    BY <1>1, <2>4, <2>6 DEF ReportInv, ReportedOnce
<1>4. \/ reports' = reports
      \/ \E built \in BOOLEAN : Commit(built)
  BY Zenon DEF ReportsNext, reportVars, Create, BeginReschedule, CommitReschedule, Delete, ReportSweep,
     ClaimDueReports, Load, CommitFails, LoseDispatch, Crash, Restart, HourPasses
<1> QED
  BY <1>2, <1>3, <1>4

LEMMA ReportsCorrect == ReportsSpec => [](ReportsTypeOK /\ ClaimInv /\ ReportInv)
<1>1. ReportsInit => ReportsTypeOK /\ ClaimInv /\ ReportInv
  BY TypeInit, ClaimInit, ReportInit
<1>2. ReportsTypeOK /\ ClaimInv /\ ReportInv /\ [ReportsNext]_reportVars => AllOnTrack'
  BY OnTrackNext DEF ReportInv, AllOnTrack
<1>3. (ReportsTypeOK /\ ClaimInv /\ ReportInv) /\ [ReportsNext]_reportVars => (ReportsTypeOK /\ ClaimInv /\ ReportInv)'
  BY <1>2, TypeNext, ClaimNext, ReportedOnceNext DEF ReportInv
<1> QED
  BY <1>1, <1>3, PTL DEF ReportsSpec

(* A report never covers a period that is still running, whether its       *)
(* schedule was claimed once or again after a crash, and however long the  *)
(* process was down.                                                       *)
THEOREM ReportsArePast == ReportsSpec => []OnlyFinishedPeriods
<1>1. ClaimInv => OnlyFinishedPeriods
  BY DEF ClaimInv
<1> QED
  BY <1>1, ReportsCorrect, PTL

(* No period of a schedule is reported twice, as long as no claim is lost  *)
(* and no schedule is moved: updates that overlap a dispatch, deletions,   *)
(* reports that fail and downtime do not repeat one.                       *)
THEOREM NoPeriodTwice == ReportsSpec => []ReportedOnce
<1>1. ReportInv => ReportedOnce
  BY DEF ReportInv
<1> QED
  BY <1>1, ReportsCorrect, PTL
=============================================================================
