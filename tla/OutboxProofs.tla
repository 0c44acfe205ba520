---------------------------- MODULE OutboxProofs ----------------------------
(***************************************************************************)
(* Theorems about the notification outbox, for every set of rows and       *)
(* channels and every limit, timeout and bound.  Type correctness and the  *)
(* at-least-once guarantee hold for any number of workers; that a settled  *)
(* row is never attempted again, and with it the delivery promise, holds   *)
(* for the deployment the repository ships: one worker.                    *)
(***************************************************************************)
EXTENDS Outbox, TLAPS

(* One worker process (deploy/k8s/deployment.yaml: replicas: 1, Recreate). *)
SingleWorker == \A v, w \in Workers : v = w

-----------------------------------------------------------------------------
(* Every variable keeps the type its column or its process memory has,     *)
(* with any number of workers.                                             *)
THEOREM TypeCorrect == Spec => []TypeOK
<1>1. Init => TypeOK
  BY OutboxAssumption DEF Init, TypeOK, Statuses, ChannelStates, NoLock, NoJob, Jobs
<1>2. TypeOK /\ [Next]_vars => TypeOK'
  <2> SUFFICES ASSUME TypeOK, [Next]_vars
               PROVE  TypeOK'
    OBVIOUS
  <2> USE OutboxAssumption DEF TypeOK, Statuses, ChannelStates
  <2>1. ASSUME NEW r \in Rows, Stage(r)
        PROVE  TypeOK'
    BY <2>1 DEF Stage
  <2>2. ASSUME NEW c \in Channels, NEW s \in ChannelStates, EditChannel(c, s)
        PROVE  TypeOK'
    BY <2>2 DEF EditChannel, rowVars
  <2>3. ASSUME NEW w \in Workers, ClaimBatch(w)
        PROVE  TypeOK'
    BY <2>3 DEF ClaimBatch
  <2>4. ASSUME NEW w \in Workers, NEW r \in Rows, Load(w, r)
        PROVE  TypeOK'
    <3>1. channel[ChannelOf[r]] \in ChannelStates
      OBVIOUS
    <3>2. job'[w] \in Jobs
      BY <2>4, <3>1 DEF Load, Jobs
    <3>3. QED
      BY <2>4, <3>2 DEF Load, rowVars
  <2>5. ASSUME NEW w \in Workers, Accept(w)
        PROVE  TypeOK'
    <3>1. job[w] \in Jobs
      BY <2>5 DEF Accept, Delivering, NoJob
    <3>2. [job[w] EXCEPT !.sent = TRUE] \in Jobs
      BY <3>1 DEF Jobs
    <3>3. QED
      BY <2>5, <3>1, <3>2 DEF Accept, rowVars
  <2>6. ASSUME NEW w \in Workers, Deliver(w)
        PROVE  TypeOK'
    <3>1. job[w] \in Jobs
      BY <2>6 DEF Deliver, Delivering, NoJob
    <3>2. QED
      BY <2>6, <3>1 DEF Deliver, Commit, Jobs, NoLock
  <2>7. ASSUME NEW w \in Workers, MarkDead(w)
        PROVE  TypeOK'
    <3>1. job[w] \in Jobs
      BY <2>7 DEF MarkDead, Delivering, NoJob
    <3>2. QED
      BY <2>7, <3>1 DEF MarkDead, Commit, Jobs, NoLock
  <2>8. ASSUME NEW w \in Workers, MarkDeliveryFailure(w)
        PROVE  TypeOK'
    <3>1. job[w] \in Jobs
      BY <2>8 DEF MarkDeliveryFailure, Delivering, NoJob
    <3>2. Backoff(job[w].attempts + 1) \in 0..MaxBackoff
      BY DEF Backoff
    <3>3. wait' \in [Rows -> 0..(MaxBackoff + 1)]
      BY <2>8, <3>1, <3>2 DEF MarkDeliveryFailure, Jobs
    <3>4. attempts' \in [Rows -> Nat]
      BY <2>8, <3>1 DEF MarkDeliveryFailure, Jobs
    <3>5. \E s \in Statuses : Commit(w, s)
      BY <2>8 DEF MarkDeliveryFailure
    <3>6. /\ status' \in [Rows -> Statuses]
          /\ age' \in [Rows -> -1..(LeaseTimeout + 1)]
          /\ job' \in [Workers -> Jobs \cup {NoJob}]
      BY <3>1, <3>5 DEF Commit, Jobs, NoLock
    <3>7. QED
      BY <2>8, <3>3, <3>4, <3>6 DEF MarkDeliveryFailure
  <2>9. ASSUME NEW w \in Workers, LoseCommit(w)
        PROVE  TypeOK'
    BY <2>9 DEF LoseCommit, rowVars
  <2>10. ASSUME NEW w \in Workers, Crash(w)
        PROVE  TypeOK'
    BY <2>10 DEF Crash, rowVars
  <2>11. ASSUME NEW w \in Workers, RecoverStaleLeases(w)
        PROVE  TypeOK'
    BY <2>11 DEF RecoverStaleLeases, NoLock
  <2>12. CASE Tick
    <3>1. ASSUME NEW w \in Workers, Delivering(w)
          PROVE  [job[w] EXCEPT !.elapsed = @ + 1] \in Jobs
      <4>1. job[w] \in Jobs
        BY <3>1 DEF Delivering, NoJob
      <4>2. job[w].elapsed + 1 \in 0..DeliveryTimeout
        BY <2>12, <3>1, <4>1 DEF Tick, Jobs
      <4>3. QED
        BY <4>1, <4>2 DEF Jobs
    <3>2. job' \in [Workers -> Jobs \cup {NoJob}]
      BY <2>12, <3>1 DEF Tick
    <3>3. age' \in [Rows -> -1..(LeaseTimeout + 1)]
      BY <2>12 DEF Tick
    <3>4. wait' \in [Rows -> 0..(MaxBackoff + 1)]
      BY <2>12 DEF Tick
    <3>5. QED
      BY <2>12, <3>2, <3>3, <3>4 DEF Tick
  <2>13. CASE UNCHANGED vars
    BY <2>13 DEF vars
  <2>14. QED
    BY <2>1, <2>2, <2>3, <2>4, <2>5, <2>6, <2>7, <2>8, <2>9, <2>10, <2>11, <2>12, <2>13
    DEF Next, WorkerStep
<1>3. QED
  BY <1>1, <1>2, PTL DEF Spec

-----------------------------------------------------------------------------
(* A message the worker has sent is one its channel has accepted.          *)
AcceptedInv ==
  /\ DeliveredWasAccepted
  /\ \A w \in Workers : Delivering(w) /\ job[w].sent => accepted[job[w].row]

LEMMA AcceptedAlways == Spec => []AcceptedInv
<1> USE DEF Delivering
<1>1. Init => AcceptedInv
  BY DEF Init, AcceptedInv, DeliveredWasAccepted, NoJob
<1>2. TypeOK /\ AcceptedInv /\ [Next]_vars => AcceptedInv'
  <2> SUFFICES ASSUME TypeOK, AcceptedInv, [Next]_vars
               PROVE  AcceptedInv'
    OBVIOUS
  <2> USE DEF AcceptedInv, DeliveredWasAccepted
  <2>1. ASSUME NEW r \in Rows, Stage(r)
        PROVE  AcceptedInv'
    BY <2>1 DEF Stage, TypeOK
  <2>2. ASSUME NEW c \in Channels, NEW s \in ChannelStates, EditChannel(c, s)
        PROVE  AcceptedInv'
    BY <2>2 DEF EditChannel, rowVars
  <2>3. ASSUME NEW w \in Workers, ClaimBatch(w)
        PROVE  AcceptedInv'
    BY <2>3 DEF ClaimBatch, TypeOK
  <2>4. ASSUME NEW w \in Workers, NEW r \in Rows, Load(w, r)
        PROVE  AcceptedInv'
    BY <2>4 DEF Load, rowVars, TypeOK
  <2>5. ASSUME NEW w \in Workers, Accept(w)
        PROVE  AcceptedInv'
    <3>1. job[w] \in Jobs
      BY <2>5 DEF Accept, TypeOK, NoJob
    <3>2. accepted'[job[w].row] /\ job'[w].row = job[w].row
      BY <2>5, <3>1 DEF Accept, TypeOK, Jobs
    <3>3. \A r \in Rows : accepted[r] => accepted'[r]
      BY <2>5 DEF Accept, TypeOK
    <3>4. \A v \in Workers : v # w => job'[v] = job[v]
      BY <2>5 DEF Accept, TypeOK
    <3>5. \A v \in Workers : Delivering(v) => job[v].row \in Rows
      BY DEF TypeOK, Jobs, NoJob
    <3>6. QED
      BY <2>5, <3>2, <3>3, <3>4, <3>5 DEF Accept, rowVars
  <2>6. ASSUME NEW w \in Workers, NEW s \in Statuses, Commit(w, s), Delivering(w),
               s = "delivered" => job[w].sent, UNCHANGED accepted
        PROVE  AcceptedInv'
    <3>1. job[w] \in Jobs
      BY <2>6 DEF TypeOK, NoJob
    <3>2. DeliveredWasAccepted'
      BY <2>6, <3>1 DEF Commit, TypeOK, Jobs
    <3>3. \A v \in Workers : job'[v] = job[v] \/ job'[v] = NoJob
      BY <2>6 DEF Commit, TypeOK
    <3>4. QED
      BY <2>6, <3>2, <3>3 DEF NoJob
  <2>7. ASSUME NEW w \in Workers, LoseCommit(w)
        PROVE  AcceptedInv'
    BY <2>7 DEF LoseCommit, rowVars, TypeOK, NoJob
  <2>8. ASSUME NEW w \in Workers, Crash(w)
        PROVE  AcceptedInv'
    BY <2>8 DEF Crash, rowVars, TypeOK, NoJob
  <2>9. ASSUME NEW w \in Workers, RecoverStaleLeases(w)
        PROVE  AcceptedInv'
    BY <2>9 DEF RecoverStaleLeases, TypeOK
  <2>10. CASE Tick
    <3>1. \A v \in Workers : Delivering(v) =>
            job'[v].row = job[v].row /\ job'[v].sent = job[v].sent
      BY <2>10 DEF Tick, TypeOK, Jobs, NoJob
    <3>2. \A v \in Workers : ~Delivering(v) => job'[v] = job[v]
      BY <2>10 DEF Tick
    <3>3. QED
      BY <2>10, <3>1, <3>2 DEF Tick
  <2>11. CASE UNCHANGED vars
    BY <2>11 DEF vars
  <2>12. ASSUME NEW w \in Workers,
                Deliver(w) \/ MarkDead(w) \/ MarkDeliveryFailure(w)
         PROVE  AcceptedInv'
    <3>1. PICK s \in Statuses : /\ Commit(w, s) /\ Delivering(w) /\ UNCHANGED accepted
                                /\ s = "delivered" => job[w].sent
      BY <2>12 DEF Deliver, MarkDead, MarkDeliveryFailure, Statuses
    <3>2. QED
      BY <3>1, <2>6
  <2>13. QED
    <3> HIDE DEF AcceptedInv
    <3> QED
      BY <2>1, <2>2, <2>3, <2>4, <2>5, <2>7, <2>8, <2>9, <2>10, <2>11, <2>12
      DEF Next, WorkerStep
<1>3. QED
  BY <1>1, <1>2, TypeCorrect, PTL DEF Spec

(* At-least-once delivery, with any number of workers: 'delivered' is only *)
(* ever written after the channel accepted a message for the row.          *)
THEOREM DeliveredMeansAccepted == Spec => []DeliveredWasAccepted
<1>1. AcceptedInv => DeliveredWasAccepted
  BY DEF AcceptedInv
<1>2. QED
  BY <1>1, AcceptedAlways, PTL

-----------------------------------------------------------------------------
(* What the sole worker holds, it holds alone: its unvisited rows are      *)
(* 'in_progress' and locked, and the copy it delivers from is still what   *)
(* the database says.                                                      *)
ClaimHeld ==
  \A w \in Workers : \A r \in todo[w] : status[r] = "in_progress" /\ age[r] # NoLock

CopyCurrent ==
  \A w \in Workers : Delivering(w) =>
    LET j == job[w] IN
    /\ j.row \notin todo[w]
    /\ j.status = "in_progress" /\ status[j.row] = "in_progress"
    /\ j.locked /\ age[j.row] # NoLock
    /\ j.attempts = attempts[j.row]

(* While no owner has edited a channel, every channel is usable.           *)
UneditedUsable ==
  edits = 0 =>
    /\ \A c \in Channels : channel[c] = "enabled"
    /\ \A w \in Workers : Delivering(w) => job[w].channel = "enabled"

SoleInv == ClaimHeld /\ CopyCurrent /\ UneditedUsable /\ NeverGivesUpEarly

LEMMA SoleInit == Init => SoleInv
BY OutboxAssumption
DEF Init, SoleInv, ClaimHeld, CopyCurrent, UneditedUsable, NeverGivesUpEarly, Delivering, NoJob

(* The commit of a delivery by the sole worker.                            *)
LEMMA SoleCommit ==
  ASSUME SingleWorker, TypeOK, SoleInv, NEW w \in Workers, Delivering(w),
         NEW s \in {"delivered", "dead", "pending"}, Commit(w, s),
         UNCHANGED <<todo, channel, edits>>,
         \A r \in Rows : r # job[w].row => attempts'[r] = attempts[r],
         \/ s = "delivered" /\ attempts' = attempts
         \/ s = "dead" /\ attempts' = attempts /\ job[w].channel # "enabled"
         \/ s = "dead" /\ attempts'[job[w].row] = MaxAttempts
         \/ s = "pending" /\ attempts'[job[w].row] < MaxAttempts
  PROVE  SoleInv'
<1> DEFINE r == job[w].row
<1>1. r \in Rows /\ job[w] \in Jobs
  BY DEF Delivering, TypeOK, Jobs, NoJob
<1>2. /\ job'[w] = NoJob
      /\ status' = [status EXCEPT ![r] = s]
      /\ age' = [age EXCEPT ![r] = NoLock]
  BY <1>1 DEF Commit, TypeOK, SoleInv, CopyCurrent
<1>3. \A v \in Workers : v = w
  BY DEF SingleWorker
<1>4. ClaimHeld'
  BY <1>1, <1>2, <1>3 DEF ClaimHeld, CopyCurrent, SoleInv, TypeOK
<1>5. CopyCurrent' /\ UneditedUsable'
  BY <1>2, <1>3 DEF CopyCurrent, UneditedUsable, SoleInv, NoJob, Delivering
<1>6. NeverGivesUpEarly'
  <2>1. status'[r] = s /\ \A q \in Rows : q # r => status'[q] = status[q]
    BY <1>1, <1>2 DEF TypeOK
  <2>2. edits = 0 => job[w].channel = "enabled"
    BY DEF SoleInv, UneditedUsable
  <2>3. QED
    BY <1>1, <2>1, <2>2 DEF NeverGivesUpEarly, SoleInv
<1>7. QED
  BY <1>4, <1>5, <1>6 DEF SoleInv

LEMMA SoleNext ==
  ASSUME SingleWorker, TypeOK, SoleInv, [Next]_vars
  PROVE  SoleInv'
<1> USE OutboxAssumption
<1> USE DEF SoleInv, ClaimHeld, CopyCurrent, UneditedUsable, NeverGivesUpEarly, Delivering
<1>1. ASSUME NEW r \in Rows, Stage(r)
      PROVE  SoleInv'
  BY <1>1 DEF Stage, TypeOK, Jobs, NoJob
<1>2. ASSUME NEW c \in Channels, NEW s \in ChannelStates, EditChannel(c, s)
      PROVE  SoleInv'
  BY <1>2 DEF EditChannel, rowVars, TypeOK
<1>3. ASSUME NEW w \in Workers, ClaimBatch(w)
      PROVE  SoleInv'
  BY <1>3 DEF ClaimBatch, TypeOK, Idle, Due, SingleWorker, NoLock
<1>4. ASSUME NEW w \in Workers, NEW r \in Rows, Load(w, r)
      PROVE  SoleInv'
  <2>1. /\ status[r] = "in_progress" /\ age[r] # NoLock /\ attempts[r] < MaxAttempts
        /\ channel[ChannelOf[r]] \in ChannelStates
    BY <1>4 DEF Load, TypeOK
  <2>2. /\ job'[w].row = r /\ job'[w].status = status[r] /\ job'[w].locked
        /\ job'[w].attempts = attempts[r] /\ job'[w].channel = channel[ChannelOf[r]]
        /\ todo'[w] = todo[w] \ {r}
    BY <1>4, <2>1 DEF Load, TypeOK
  <2>3. QED
    BY <1>4, <2>1, <2>2 DEF Load, rowVars, SingleWorker
<1>5. ASSUME NEW w \in Workers, Accept(w)
      PROVE  SoleInv'
  <2>1. job[w] \in Jobs
    BY <1>5 DEF Accept, TypeOK, NoJob
  <2>2. job'[w] = [job[w] EXCEPT !.sent = TRUE]
    BY <1>5 DEF Accept, TypeOK
  <2>3. QED
    BY <1>5, <2>1, <2>2 DEF Accept, rowVars, SingleWorker, Jobs
<1>6. ASSUME NEW w \in Workers, Deliver(w)
      PROVE  SoleInv'
  BY <1>6, SoleCommit DEF Deliver
<1>7. ASSUME NEW w \in Workers, MarkDead(w)
      PROVE  SoleInv'
  BY <1>7, SoleCommit DEF MarkDead
<1>8. ASSUME NEW w \in Workers, MarkDeliveryFailure(w)
      PROVE  SoleInv'
  <2> DEFINE r == job[w].row
  <2>1. job[w] \in Jobs /\ r \in Rows
    BY <1>8 DEF MarkDeliveryFailure, TypeOK, Jobs, NoJob
  <2>2. attempts' = [attempts EXCEPT ![r] = job[w].attempts + 1]
    BY <1>8 DEF MarkDeliveryFailure
  <2>3. job[w].attempts < MaxAttempts /\ job[w].attempts \in Nat
    BY <1>8, <2>1 DEF MarkDeliveryFailure, Jobs
  <2>4. attempts'[r] = job[w].attempts + 1 /\ \A q \in Rows : q # r => attempts'[q] = attempts[q]
    BY <2>1, <2>2 DEF TypeOK
  <2>5. CASE job[w].attempts + 1 >= MaxAttempts
    <3>1. Commit(w, "dead") /\ attempts'[r] = MaxAttempts
      BY <1>8, <2>3, <2>4, <2>5 DEF MarkDeliveryFailure, Exhausted
    <3>2. QED
      BY <1>8, <2>4, <3>1, SoleCommit DEF MarkDeliveryFailure
  <2>6. CASE ~(job[w].attempts + 1 >= MaxAttempts)
    <3>1. Commit(w, "pending") /\ attempts'[r] < MaxAttempts
      BY <1>8, <2>3, <2>4, <2>6 DEF MarkDeliveryFailure, Exhausted
    <3>2. QED
      BY <1>8, <2>4, <3>1, SoleCommit DEF MarkDeliveryFailure
  <2>7. QED
    BY <2>5, <2>6
<1>9. ASSUME NEW w \in Workers, LoseCommit(w)
      PROVE  SoleInv'
  BY <1>9 DEF LoseCommit, rowVars, TypeOK, SingleWorker, NoJob
<1>10. ASSUME NEW w \in Workers, Crash(w)
       PROVE  SoleInv'
  BY <1>10 DEF Crash, rowVars, TypeOK, SingleWorker, NoJob
<1>11. ASSUME NEW w \in Workers, RecoverStaleLeases(w)
       PROVE  SoleInv'
  BY <1>11 DEF RecoverStaleLeases, Stale, Idle, TypeOK, SingleWorker
<1>12. CASE Tick
  <2>1. \A v \in Workers : Delivering(v) =>
          /\ job'[v].row = job[v].row /\ job'[v].status = job[v].status
          /\ job'[v].attempts = job[v].attempts /\ job'[v].locked = job[v].locked
          /\ job'[v].channel = job[v].channel
    BY <1>12 DEF Tick, TypeOK, Jobs, NoJob
  <2>2. \A v \in Workers : ~Delivering(v) => job'[v] = job[v]
    BY <1>12 DEF Tick
  <2>3. \A r \in Rows : age[r] # NoLock => age'[r] # NoLock
    BY <1>12 DEF Tick, TypeOK, NoLock
  <2>4. \A v \in Workers : Delivering(v) => job[v].row \in Rows
    BY DEF TypeOK, Jobs, NoJob
  <2>5. todo \in [Workers -> SUBSET Rows] /\ UNCHANGED <<status, attempts, channel, todo, edits>>
    BY <1>12 DEF Tick, TypeOK
  <2>6. QED
    BY <2>1, <2>2, <2>3, <2>4, <2>5
<1>13. CASE UNCHANGED vars
  BY <1>13 DEF vars
<1>14. QED
  <2> HIDE DEF SoleInv
  <2> QED
    BY <1>1, <1>2, <1>3, <1>4, <1>5, <1>6, <1>7, <1>8, <1>9, <1>10, <1>11, <1>12, <1>13
    DEF Next, WorkerStep

(* With one worker no attempt is ever under way for a settled row,         *)
(* although deliver() does not look at the status of the row it loads.     *)
THEOREM NoSecondDelivery ==
  ASSUME SingleWorker
  PROVE  Spec => []NoAttemptOnSettledRow
<1>1. TypeOK /\ SoleInv /\ [Next]_vars => SoleInv'
  BY SoleNext
<1>2. SoleInv => NoAttemptOnSettledRow
  BY DEF SoleInv, CopyCurrent, NoAttemptOnSettledRow, Settled
<1>3. QED
  BY SoleInit, <1>1, <1>2, TypeCorrect, PTL DEF Spec

(* With one worker no notification is given up before its last attempt     *)
(* unless the channel's owner changed the channel.                         *)
THEOREM AllAttemptsAreMade ==
  ASSUME SingleWorker
  PROVE  Spec => []NeverGivesUpEarly
<1>1. TypeOK /\ SoleInv /\ [Next]_vars => SoleInv'
  BY SoleNext
<1>2. SoleInv => NeverGivesUpEarly
  BY DEF SoleInv
<1>3. QED
  BY SoleInit, <1>1, <1>2, TypeCorrect, PTL DEF Spec

-----------------------------------------------------------------------------
(* With one worker the outbox, with its claims, leases, retries, crashes   *)
(* and lost commits, implements the promise of module Delivery: one        *)
(* attempt at a time, only on open rows, delivered only once accepted, and *)
(* settled for good.                                                       *)
THEOREM OutboxImplementsDelivery ==
  ASSUME SingleWorker
  PROVE  Spec => KeepsPromise
<1> DEFINE Outcome == [r \in Rows |-> IF status[r] = "absent" THEN "unstaged"
                                      ELSE IF status[r] \in Settled THEN status[r]
                                      ELSE "open"]
           Attempt == {job[w].row : w \in {v \in Workers : Delivering(v)}}
<1>1. Init => Promise!Init
  <2> SUFFICES ASSUME Init
               PROVE  Promise!Init
    OBVIOUS
  <2>1. Outcome = [r \in Rows |-> "unstaged"]
    BY DEF Init
  <2>2. Attempt = {}
    BY DEF Init, Delivering, NoJob
  <2>3. QED
    BY <2>1, <2>2 DEF Promise!Init, Init
<1>2. TypeOK /\ AcceptedInv /\ SoleInv /\ [Next]_vars => [Promise!Next]_(Promise!vars)
  <2> SUFFICES ASSUME TypeOK, AcceptedInv, SoleInv, [Next]_vars
               PROVE  \/ Promise!Next
                      \/ Outcome' = Outcome /\ Attempt' = Attempt /\ accepted' = accepted
    BY DEF Promise!vars
  <2>1. \A v, w \in Workers : v = w
    BY DEF SingleWorker
  <2>2. ASSUME NEW w \in Workers, Delivering(w)
        PROVE  /\ job[w] \in Jobs /\ job[w].row \in Rows
               /\ Attempt = {job[w].row}
               /\ Outcome[job[w].row] = "open" /\ status[job[w].row] = "in_progress"
               /\ job[w].status = "in_progress"
               /\ job[w].sent => accepted[job[w].row]
    BY <2>1, <2>2 DEF TypeOK, SoleInv, CopyCurrent, AcceptedInv, Delivering, Jobs, NoJob, Settled
  <2>3. ASSUME NEW w \in Workers, ~Delivering(w)
        PROVE  Attempt = {}
    BY <2>1, <2>3
  <2>4. ASSUME NEW w \in Workers, job'[w] = NoJob
        PROVE  Attempt' = {}
    BY <2>1, <2>4 DEF Delivering, NoJob
  <2>5. ASSUME NEW r \in Rows, Stage(r)
        PROVE  Promise!Stage(r)
    <3>1. Outcome' = [Outcome EXCEPT ![r] = "open"] /\ Outcome[r] = "unstaged"
      BY <2>5 DEF Stage, TypeOK, Settled
    <3>2. Attempt' = Attempt /\ accepted' = accepted
      BY <2>5 DEF Stage, Delivering
    <3>3. QED
      BY <3>1, <3>2 DEF Promise!Stage
  <2>6. ASSUME NEW c \in Channels, NEW s \in ChannelStates, EditChannel(c, s)
        PROVE  Outcome' = Outcome /\ Attempt' = Attempt /\ accepted' = accepted
    BY <2>6 DEF EditChannel, rowVars, Delivering
  <2>7. ASSUME NEW w \in Workers, ClaimBatch(w)
        PROVE  Outcome' = Outcome /\ Attempt' = Attempt /\ accepted' = accepted
    BY <2>7 DEF ClaimBatch, Delivering, Due, TypeOK, Settled
  <2>8. ASSUME NEW w \in Workers, NEW r \in Rows, Load(w, r)
        PROVE  Promise!Begin(r)
    <3>1. Attempt = {} /\ status[r] = "in_progress"
      BY <2>3, <2>8 DEF Load, SoleInv, ClaimHeld
    <3>2. job'[w].row = r
      BY <2>8 DEF Load, TypeOK
    <3>3. r # NoRow
      BY OutboxAssumption
    <3>4. Attempt' = {r}
      BY <2>1, <3>2, <3>3 DEF Delivering
    <3>5. Outcome' = Outcome /\ Outcome[r] = "open" /\ accepted' = accepted
      BY <2>8, <3>1 DEF Load, rowVars, Settled
    <3>6. QED
      BY <3>1, <3>4, <3>5 DEF Promise!Begin
  <2>9. ASSUME NEW w \in Workers, Accept(w), NEW r \in Rows, r = job[w].row
        PROVE  Promise!Accept(r)
    <3>1. Delivering(w) /\ job'[w].row = job[w].row
      BY <2>2, <2>9 DEF Accept, TypeOK, Jobs
    <3>2. Attempt' = Attempt /\ r \in Attempt
      BY <2>1, <2>2, <2>9, <3>1 DEF Delivering
    <3>3. Outcome' = Outcome /\ accepted' = [accepted EXCEPT ![r] = TRUE]
      BY <2>9 DEF Accept, rowVars
    <3>4. QED
      BY <3>2, <3>3 DEF Promise!Accept
  <2>10. ASSUME NEW w \in Workers, Delivering(w), UNCHANGED accepted, job'[w] = NoJob,
                NEW s \in {"delivered", "dead", "pending", "in_progress"},
                status' = [status EXCEPT ![job[w].row] = s],
                s = "delivered" => job[w].sent,
                NEW r \in Rows, r = job[w].row
         PROVE  Promise!End(r)
    <3>1. r \in Rows /\ Attempt = {r} /\ Attempt' = {} /\ Outcome[r] = "open"
      BY <2>2, <2>4, <2>10
    <3>2. \A q \in Rows : Outcome'[q] = IF q # r THEN Outcome[q]
                                        ELSE IF s \in Settled THEN s ELSE "open"
      BY <2>10, <3>1 DEF TypeOK
    <3>3. CASE s \in {"pending", "in_progress"}
      <4>1. Outcome' = Outcome
        BY <3>1, <3>2, <3>3 DEF Settled
      <4>2. QED
        BY <2>10, <3>1, <4>1 DEF Promise!End
    <3>4. CASE s = "dead"
      <4>1. Outcome' = [Outcome EXCEPT ![r] = "dead"]
        BY <3>1, <3>2, <3>4 DEF Settled
      <4>2. QED
        BY <2>10, <3>1, <4>1 DEF Promise!End
    <3>5. CASE s = "delivered"
      <4>1. Outcome' = [Outcome EXCEPT ![r] = "delivered"]
        BY <3>1, <3>2, <3>5 DEF Settled
      <4>2. accepted[r]
        BY <2>2, <2>10, <3>5
      <4>3. QED
        BY <2>10, <3>1, <4>1, <4>2 DEF Promise!End
    <3>6. QED
      BY <2>10, <3>3, <3>4, <3>5
  <2>11. ASSUME NEW w \in Workers, Deliver(w) \/ MarkDead(w) \/ MarkDeliveryFailure(w),
                NEW r \in Rows, r = job[w].row
         PROVE  Promise!End(r)
    <3>1. PICK s \in {"delivered", "dead", "pending"} :
            /\ Delivering(w) /\ UNCHANGED accepted /\ Commit(w, s)
            /\ s = "delivered" => job[w].sent
      BY <2>11 DEF Deliver, MarkDead, MarkDeliveryFailure
    <3>2. status' = [status EXCEPT ![job[w].row] = s] /\ job'[w] = NoJob
      BY <2>2, <3>1 DEF Commit, TypeOK
    <3>3. QED
      BY <2>10, <2>11, <3>1, <3>2
  <2>12. ASSUME NEW w \in Workers, LoseCommit(w) \/ Crash(w)
         PROVE  \/ \E r \in Rows : Promise!End(r)
                \/ Outcome' = Outcome /\ Attempt' = Attempt /\ accepted' = accepted
    <3>1. status' = status /\ accepted' = accepted /\ job'[w] = NoJob
      BY <2>12 DEF LoseCommit, Crash, rowVars, TypeOK
    <3>2. CASE Delivering(w)
      <4>1. status' = [status EXCEPT ![job[w].row] = "in_progress"]
        BY <2>2, <3>1, <3>2 DEF TypeOK
      <4>2. PICK r \in Rows : r = job[w].row
        BY <2>2, <3>2
      <4>3. Promise!End(r)
        BY <2>10, <3>1, <3>2, <4>1, <4>2
      <4>4. QED
        BY <4>3
    <3>3. CASE ~Delivering(w)
      BY <2>3, <2>4, <3>1, <3>3
    <3>4. QED
      BY <3>2, <3>3
  <2>13. ASSUME NEW w \in Workers, RecoverStaleLeases(w)
         PROVE  Outcome' = Outcome /\ Attempt' = Attempt /\ accepted' = accepted
    BY <2>13 DEF RecoverStaleLeases, Stale, Delivering, TypeOK, Settled
  <2>14. CASE Tick
    <3>1. \A v \in Workers : job'[v].row = job[v].row
      BY <2>14 DEF Tick, TypeOK, Jobs, NoJob, Delivering
    <3>2. QED
      BY <2>14, <3>1 DEF Tick, Delivering
  <2>15. CASE UNCHANGED vars
    BY <2>15 DEF vars, Delivering
  <2>16. QED
    <3> DEFINE Same == Outcome' = Outcome /\ Attempt' = Attempt /\ accepted' = accepted
    <3>1. ASSUME NEW r \in Rows,
                 Promise!Stage(r) \/ Promise!Begin(r) \/ Promise!Accept(r) \/ Promise!End(r)
          PROVE  Promise!Next
      BY <3>1 DEF Promise!Next
    <3>2. ASSUME NEW w \in Workers, WorkerStep(w) \/ LoseCommit(w) \/ Crash(w)
          PROVE  Promise!Next \/ Same
      <4>1. CASE ClaimBatch(w) \/ RecoverStaleLeases(w)
        BY <2>7, <2>13, <4>1
      <4>2. CASE \E r \in Rows : Load(w, r)
        BY <2>8, <3>1, <4>2
      <4>3. CASE Accept(w) \/ Deliver(w) \/ MarkDead(w) \/ MarkDeliveryFailure(w)
        <5>1. PICK r \in Rows : r = job[w].row
          BY <2>2, <4>3 DEF Accept, Deliver, MarkDead, MarkDeliveryFailure
        <5>2. Promise!Accept(r) \/ Promise!End(r)
          BY <2>9, <2>11, <4>3, <5>1
        <5>3. QED
          BY <3>1, <5>2
      <4>4. CASE LoseCommit(w) \/ Crash(w)
        BY <2>12, <3>1, <4>4
      <4>5. QED
        BY <3>2, <4>1, <4>2, <4>3, <4>4 DEF WorkerStep
    <3>3. ASSUME NEW r \in Rows, Stage(r)
          PROVE  Promise!Next
      BY <2>5, <3>1, <3>3
    <3>4. QED
      <4>1. Promise!Next \/ Same
        <5> HIDE DEF Same
        <5>1. CASE Next
          <6>1. CASE Tick \/ \E c \in Channels, s \in ChannelStates : EditChannel(c, s)
            BY <2>6, <2>14, <6>1 DEF Same
          <6>2. QED
            BY <3>2, <3>3, <5>1, <6>1 DEF Next
        <5>2. QED
          BY <2>15, <5>1 DEF Same
      <4>2. QED
        BY <4>1
<1>3. TypeOK /\ SoleInv /\ [Next]_vars => SoleInv'
  BY SoleNext
<1>4. QED
  BY <1>1, <1>2, <1>3, SoleInit, TypeCorrect, AcceptedAlways, PTL DEF Spec, KeepsPromise, Promise!Spec
=============================================================================
