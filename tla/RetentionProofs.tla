-------------------------- MODULE RetentionProofs --------------------------
(* Proofs about the purge.  All of them rest on one inductive invariant:   *)
(* what a batch holds is still what it was selected for, except for events *)
(* that were received again, and the rows a purge has deleted but not      *)
(* committed are its own, alive, and rows of its batch.                    *)
EXTENDS Retention, TLAPS

Live == {"open", "settled", "parked"}

(* A row that is in a digest stays parked.                                 *)
LinkedIsParked == \A r \in Rows : into[r] # NoDigest => row[r] = "parked"

RowBatch(p) ==
  purge[p].stage = "deleteRows" =>
    \A x \in purge[p].ids : x \in Rows \cup Digests /\ row[x] \in {"settled", "purged"}

EventBatch(p) ==
  purge[p].stage \in {"deleteEvents", "commitEvents"} =>
    \A e \in purge[p].ids :
      e \in Events /\ (e \in TestEvents \/ status[e] = "resolved" \/ e \in purge[p].again)

DeletedRows(p) ==
  /\ purge[p].rows # {} => purge[p].stage = "commitEvents"
  /\ \A r \in purge[p].rows : row[r] \in Live /\ EventOf[r] \in purge[p].ids

Disjoint == \A p, q \in Purges : p # q => purge[p].rows \cap purge[q].rows = {}

IInv ==
  /\ TypeOK
  /\ LinkedIsParked
  /\ \A p \in Purges : RowBatch(p) /\ EventBatch(p) /\ DeletedRows(p)
  /\ Disjoint

-----------------------------------------------------------------------------
(* Types.                                                                  *)

LEMMA NoPurgeType == NoPurge \in PurgeType
  BY DEF NoPurge, PurgeType, Stages

LEMMA ReceiveType ==
  ASSUME TypeOK, NEW e \in Events, NEW s \in {"firing", "resolved"}, NEW S \in SUBSET Rows,
         Receive(e, s, S)
  PROVE  TypeOK'
<1>1. status' \in [Events -> Statuses]
  BY DEF TypeOK, Receive, Statuses
<1>2. /\ row' \in [Rows \cup Digests -> RowStates]
      /\ \A r \in Rows : r \notin S => row'[r] = row[r]
      /\ \A r \in S : EventOf[r] = e
  <2>1. PICK f \in [S -> {"open", "parked"}] :
          row' = [r \in Rows \cup Digests |-> IF r \in S THEN f[r] ELSE row[r]]
    BY DEF Receive, Staged
  <2> QED
    BY <2>1 DEF TypeOK, Receive, Staged, RowStates
<1>3. purge' \in [Purges -> PurgeType]
  <2>1. ASSUME NEW p \in Purges
        PROVE  [purge[p] EXCEPT !.again = @ \cup ({e} \cap purge[p].ids)] \in PurgeType
    BY DEF TypeOK, PurgeType
  <2> QED
    BY <2>1 DEF Receive
<1>4. \A r \in Rows : row'[r] \in {"open", "settled", "parked"} => status'[EventOf[r]] # "absent"
  BY <1>1, <1>2, RetentionAssumption DEF TypeOK, Receive
<1> QED
  BY <1>1, <1>2, <1>3, <1>4 DEF TypeOK, Receive

LEMMA RenotifyType ==
  ASSUME TypeOK, NEW e \in Events, NEW S \in SUBSET Rows, Renotify(e, S)
  PROVE  TypeOK'
<1>1. PICK f \in [S -> {"open", "parked"}] :
        row' = [r \in Rows \cup Digests |-> IF r \in S THEN f[r] ELSE row[r]]
  BY DEF Renotify, Staged
<1> QED
  BY <1>1 DEF TypeOK, Renotify, Staged, RowStates

LEMMA RestType ==
  ASSUME TypeOK,
         \/ \E e \in Events : Expire(e)
         \/ \E r \in Rows \cup Digests : SettleRow(r)
         \/ \E d \in Digests : Flush(d)
         \/ DayPasses
  PROVE  TypeOK'
<1>1. CASE \E e \in Events : Expire(e)
  BY <1>1 DEF TypeOK, Expire
<1>2. CASE \E r \in Rows \cup Digests : SettleRow(r)
  BY <1>2 DEF TypeOK, SettleRow, RowStates
<1>3. ASSUME NEW d \in Digests, Flush(d)
      PROVE  TypeOK'
  <2>1. CASE Cardinality(Waiting) = 1
    BY <1>3, <2>1 DEF TypeOK, Flush, RowStates, Waiting
  <2>2. CASE Cardinality(Waiting) # 1
    <3>1. /\ row' = [row EXCEPT ![d] = "open"]
          /\ into' = [r \in Rows |-> IF r \in Waiting THEN d ELSE into[r]]
      BY <1>3, <2>2 DEF Flush
    <3>2. \A r \in Rows : row'[r] = row[r]
      BY <3>1, RetentionAssumption DEF TypeOK
    <3> QED
      BY <1>3, <3>1, <3>2 DEF TypeOK, Flush, RowStates
  <2> QED
    BY <2>1, <2>2
<1>4. CASE DayPasses
  BY <1>4 DEF TypeOK, DayPasses
<1> QED
  BY <1>1, <1>2, <1>3, <1>4

(* A step of purge p that changes nothing but its own record.              *)
Moves(p, g) ==
  /\ g \in PurgeType
  /\ purge' = [purge EXCEPT ![p] = g]
  /\ UNCHANGED <<status, expired, row, into>>

LEMMA MovesType ==
  ASSUME TypeOK, NEW p \in Purges, NEW g, Moves(p, g),
         due' \in BOOLEAN, faults' \in 0..MaxFaults, requests' \in 0..MaxRequests
  PROVE  TypeOK'
  BY DEF TypeOK, Moves

(* The steps of that kind, and the records they leave.                     *)
Selecting(p, B) == [purge[p] EXCEPT !.stage = IF B = {} THEN "selectEvents" ELSE "deleteRows",
                                    !.ids = B,
                                    !.full = Cardinality(B) = BatchSize]
SelectingEvents(p, B) == [purge[p] EXCEPT !.stage = IF B = {} THEN "record" ELSE "deleteEvents",
                                          !.ids = B,
                                          !.full = Cardinality(B) = BatchSize]
Deleting(p) == [purge[p] EXCEPT !.stage = "commitEvents", !.rows = RowsOf(purge[p].ids)]
Beginning(p) == [purge[p] EXCEPT !.stage = "selectRows"]

LEMMA SelectRowsMoves ==
  ASSUME TypeOK, NEW p \in Purges, SelectRows(p)
  PROVE  \E B \in SUBSET Settled : Moves(p, Selecting(p, B))
<1>1. PICK old \in SUBSET Settled : \E B \in Batches(old) :
        purge' = [purge EXCEPT ![p].stage = IF B = {} THEN "selectEvents" ELSE "deleteRows",
                               ![p].ids = B,
                               ![p].full = Cardinality(B) = BatchSize]
  BY DEF SelectRows
<1>2. PICK B \in Batches(old) :
        purge' = [purge EXCEPT ![p].stage = IF B = {} THEN "selectEvents" ELSE "deleteRows",
                               ![p].ids = B,
                               ![p].full = Cardinality(B) = BatchSize]
  BY <1>1
<1>3. B \in SUBSET Settled
  BY <1>2 DEF Batches
<1>4. Selecting(p, B) \in PurgeType
  BY <1>3 DEF Selecting, TypeOK, PurgeType, Stages, Settled
<1>5. purge' = [purge EXCEPT ![p] = Selecting(p, B)]
  BY <1>2 DEF Selecting, TypeOK, PurgeType
<1> QED
  BY <1>3, <1>4, <1>5 DEF Moves, SelectRows

LEMMA SelectEventsMoves ==
  ASSUME TypeOK, NEW p \in Purges, SelectEvents(p)
  PROVE  \E B \in SUBSET Expirable : Moves(p, SelectingEvents(p, B))
<1>1. PICK B \in Batches(Expirable) :
        purge' = [purge EXCEPT ![p].stage = IF B = {} THEN "record" ELSE "deleteEvents",
                               ![p].ids = B,
                               ![p].full = Cardinality(B) = BatchSize]
  BY DEF SelectEvents
<1>2. B \in SUBSET Expirable
  BY <1>1 DEF Batches
<1>3. SelectingEvents(p, B) \in PurgeType
  BY <1>2 DEF SelectingEvents, TypeOK, PurgeType, Stages, Expirable
<1>4. purge' = [purge EXCEPT ![p] = SelectingEvents(p, B)]
  BY <1>1 DEF SelectingEvents, TypeOK, PurgeType
<1> QED
  BY <1>2, <1>3, <1>4 DEF Moves, SelectEvents

LEMMA DeleteRowsOfEventsMoves ==
  ASSUME TypeOK, NEW p \in Purges, DeleteRowsOfEvents(p)
  PROVE  Moves(p, Deleting(p))
<1>1. RowsOf(purge[p].ids) \subseteq Rows
  BY DEF RowsOf
<1>2. Deleting(p) \in PurgeType
  BY <1>1 DEF Deleting, TypeOK, PurgeType, Stages
<1>3. purge' = [purge EXCEPT ![p] = Deleting(p)]
  BY DEF Deleting, TypeOK, PurgeType, DeleteRowsOfEvents
<1> QED
  BY <1>2, <1>3 DEF Moves, DeleteRowsOfEvents

LEMMA BeginMoves ==
  ASSUME TypeOK, NEW p \in Purges, Begin(p)
  PROVE  Moves(p, Beginning(p))
<1>1. Beginning(p) \in PurgeType
  BY DEF Beginning, TypeOK, PurgeType, Stages
<1>2. purge' = [purge EXCEPT ![p] = Beginning(p)]
  BY DEF Beginning, TypeOK, PurgeType, Begin
<1> QED
  BY <1>1, <1>2 DEF Moves, Begin

(* A purge ends, well or not.                                              *)
LEMMA EndMoves ==
  ASSUME TypeOK, NEW p \in Purges,
         Record(p) \/ Fail(p) \/ (CommitEvents(p) /\ ~RemoveEvents(p))
  PROVE  Moves(p, NoPurge)
  BY NoPurgeType DEF Moves, Record, Fail, CommitEvents

LEMMA DeleteRowsType ==
  ASSUME TypeOK, NEW p \in Purges, DeleteRows(p)
  PROVE  TypeOK'
<1> DEFINE S == {r \in WithChildren(purge[p].ids) : row[r] # "purged"}
           g == [NoPurge EXCEPT !.stage =
                   IF purge[p].full THEN "selectRows" ELSE "selectEvents"]
<1>1. g \in PurgeType
  BY DEF NoPurge, PurgeType, Stages
<1>2. purge' = [purge EXCEPT ![p] = g]
  BY DEF DeleteRows
<1>3. row' = Purged(S) /\ into' = Unlinked(S)
  BY DEF DeleteRows
<1> HIDE DEF g, S
<1>4. row' \in [Rows \cup Digests -> RowStates] /\ into' \in [Rows -> Digests \cup {NoDigest}]
  BY <1>3 DEF TypeOK, Purged, Unlinked, RowStates
<1>5. \A r \in Rows : row'[r] \in {"open", "settled", "parked"} => row'[r] = row[r]
  BY <1>3 DEF Purged
<1> QED
  BY <1>1, <1>2, <1>4, <1>5 DEF TypeOK, DeleteRows

LEMMA RemoveEventsType ==
  ASSUME TypeOK, NEW p \in Purges, RemoveEvents(p), RowsOf(purge[p].ids) \subseteq purge[p].rows
  PROVE  TypeOK'
<1> DEFINE B == purge[p].ids
           S == purge[p].rows
<1>1. status' \in [Events -> Statuses] /\ expired' \subseteq Events
  BY DEF TypeOK, RemoveEvents, Statuses
<1>2. row' = Purged(S) /\ into' = Unlinked(S)
  BY DEF RemoveEvents
<1>3. row' \in [Rows \cup Digests -> RowStates] /\ into' \in [Rows -> Digests \cup {NoDigest}]
  BY <1>2 DEF TypeOK, Purged, Unlinked, RowStates
<1>4. \A r \in Rows : row'[r] \in {"open", "settled", "parked"} =>
                        status'[EventOf[r]] # "absent"
  <2> SUFFICES ASSUME NEW r \in Rows, row'[r] \in {"open", "settled", "parked"}
               PROVE  status'[EventOf[r]] # "absent"
    OBVIOUS
  <2>1. r \notin S /\ row[r] = row'[r]
    BY <1>2 DEF Purged
  <2>2. EventOf[r] \notin B
    BY <2>1 DEF RowsOf
  <2>3. EventOf[r] \in Events /\ status[EventOf[r]] # "absent"
    BY <2>1, RetentionAssumption DEF TypeOK
  <2> QED
    BY <2>2, <2>3 DEF RemoveEvents
<1>5. purge' \in [Purges -> PurgeType]
  <2>1. [NoPurge EXCEPT !.stage = IF purge[p].full THEN "selectEvents" ELSE "record"] \in PurgeType
    BY DEF NoPurge, PurgeType, Stages
  <2>2. ASSUME NEW q \in Purges
        PROVE  [purge[q] EXCEPT !.ids = @ \ B, !.again = @ \ B] \in PurgeType
    BY DEF TypeOK, PurgeType
  <2> QED
    BY <2>1, <2>2 DEF RemoveEvents
<1> QED
  BY <1>1, <1>3, <1>4, <1>5 DEF TypeOK, RemoveEvents

LEMMA TypeInit == Init => TypeOK
  BY NoPurgeType, RetentionAssumption DEF Init, TypeOK, Statuses, RowStates

LEMMA TypeStep == TypeOK /\ [Next]_vars => TypeOK'
<1> SUFFICES ASSUME TypeOK, [Next]_vars PROVE TypeOK'
  OBVIOUS
<1>1. ASSUME NEW e \in Events, NEW s \in {"firing", "resolved"}, NEW S \in SUBSET Rows,
             Receive(e, s, S)
      PROVE  TypeOK'
  BY <1>1, ReceiveType
<1>2. ASSUME NEW e \in Events, NEW S \in SUBSET Rows, Renotify(e, S)
      PROVE  TypeOK'
  BY <1>2, RenotifyType
<1>3. CASE \/ \E e \in Events : Expire(e)
           \/ \E r \in Rows \cup Digests : SettleRow(r)
           \/ \E d \in Digests : Flush(d)
           \/ DayPasses
  BY <1>3, RestType
<1>4. CASE MaybeRunSweep
  BY <1>4, BeginMoves, MovesType, RetentionAssumption DEF MaybeRunSweep, Begin, TypeOK
<1>5. ASSUME NEW p \in Purges, Request(p)
      PROVE  TypeOK'
  <2>1. Moves(p, Beginning(p))
    BY <1>5, BeginMoves DEF Request
  <2>2. due' \in BOOLEAN /\ faults' \in 0..MaxFaults /\ requests' \in 0..MaxRequests
    BY <1>5, RetentionAssumption DEF Request, Begin, TypeOK
  <2> QED
    BY <2>1, <2>2, MovesType
<1>6. ASSUME NEW p \in Purges, PurgeStep(p)
      PROVE  TypeOK'
  <2>1. CASE SelectRows(p)
    BY <2>1, SelectRowsMoves, MovesType DEF SelectRows, TypeOK
  <2>2. CASE DeleteRows(p)
    BY <2>2, DeleteRowsType
  <2>3. CASE SelectEvents(p)
    BY <2>3, SelectEventsMoves, MovesType DEF SelectEvents, TypeOK
  <2>4. CASE DeleteRowsOfEvents(p)
    BY <2>4, DeleteRowsOfEventsMoves, MovesType DEF DeleteRowsOfEvents, TypeOK
  <2>5. CASE CommitEvents(p)
    <3>1. CASE RemoveEvents(p) /\ RowsOf(purge[p].ids) \subseteq purge[p].rows
      BY <3>1, RemoveEventsType
    <3>2. CASE ~(RowsOf(purge[p].ids) \subseteq purge[p].rows)
      BY <2>5, <3>2, NoPurgeType DEF CommitEvents, TypeOK
    <3> QED
      BY <2>5, <3>1, <3>2 DEF CommitEvents
  <2>6. CASE Record(p)
    BY <2>6, NoPurgeType DEF Record, TypeOK
  <2>7. CASE Fail(p)
    <3>1. faults' \in 0..MaxFaults
      BY <2>7, RetentionAssumption DEF Fail, TypeOK
    <3> QED
      BY <2>7, <3>1, NoPurgeType DEF Fail, TypeOK
  <2> QED
    BY <1>6, <2>1, <2>2, <2>3, <2>4, <2>5, <2>6, <2>7 DEF PurgeStep
<1>7. CASE UNCHANGED vars
  BY <1>7 DEF vars, TypeOK
<1> QED
  BY <1>1, <1>2, <1>3, <1>4, <1>5, <1>6, <1>7 DEF Next

(* Every state of the purge is well typed, and no row outlives its event.  *)
THEOREM TypeCorrect == Spec => []TypeOK
  BY TypeInit, TypeStep, PTL DEF Spec

-----------------------------------------------------------------------------
(* The invariant.                                                          *)

PurgeInv(p) == RowBatch(p) /\ EventBatch(p) /\ DeletedRows(p)

(* What another step must leave alone for purge p to go on undisturbed.    *)
LEMMA Kept ==
  ASSUME TypeOK, NEW p \in Purges, PurgeInv(p),
         purge'[p].stage = purge[p].stage,
         purge'[p].rows = purge[p].rows,
         purge'[p].ids \subseteq purge[p].ids,
         \A e \in purge'[p].ids : e \in purge[p].again => e \in purge'[p].again,
         \A x \in Rows \cup Digests :
           row[x] \in {"settled", "purged"} => row'[x] \in {"settled", "purged"},
         \A r \in purge[p].rows : row'[r] \in Live /\ EventOf[r] \in purge'[p].ids,
         \A e \in Events : e \in purge'[p].ids =>
           status'[e] = status[e] \/ e \in purge'[p].again
  PROVE  PurgeInv(p)'
<1>1. RowBatch(p)'
  BY DEF PurgeInv, RowBatch
<1>2. EventBatch(p)'
  BY DEF PurgeInv, EventBatch
<1>3. DeletedRows(p)'
  BY DEF PurgeInv, DeletedRows
<1> QED
  BY <1>1, <1>2, <1>3 DEF PurgeInv

(* A step of purge p alone, by the record it leaves.                       *)
LEMMA MovesInv ==
  ASSUME IInv, NEW p \in Purges, NEW g, Moves(p, g), TypeOK',
         g.stage = "deleteRows" => \A x \in g.ids : x \in Settled,
         g.stage \in {"deleteEvents", "commitEvents"} => \A e \in g.ids :
           e \in Events /\ (e \in TestEvents \/ status[e] = "resolved" \/ e \in g.again),
         g.rows # {} => g.stage = "commitEvents",
         \A r \in g.rows : row[r] \in Live /\ EventOf[r] \in g.ids /\ ~Locked(r)
  PROVE  IInv'
<1>1. purge'[p] = g /\ \A q \in Purges : q # p => purge'[q] = purge[q]
  BY DEF Moves, IInv, TypeOK
<1>2. UNCHANGED <<status, row, into>>
  BY DEF Moves
<1>3. ASSUME NEW q \in Purges
      PROVE  PurgeInv(q)'
  <2>1. CASE q = p
    <3>1. RowBatch(q)'
      BY <2>1, <1>1, <1>2 DEF RowBatch, Settled
    <3>2. EventBatch(q)'
      BY <2>1, <1>1, <1>2 DEF EventBatch
    <3>3. DeletedRows(q)'
      BY <2>1, <1>1, <1>2 DEF DeletedRows
    <3> QED
      BY <3>1, <3>2, <3>3 DEF PurgeInv
  <2>2. CASE q # p
    BY <2>2, <1>1, <1>2 DEF IInv, PurgeInv, RowBatch, EventBatch, DeletedRows
  <2> QED
    BY <2>1, <2>2
<1>4. Disjoint'
  BY <1>1 DEF IInv, Disjoint, Locked
<1>5. LinkedIsParked'
  BY <1>2 DEF IInv, LinkedIsParked
<1> QED
  BY <1>3, <1>4, <1>5 DEF IInv, PurgeInv

LEMMA InvInit == Init => IInv
<1> SUFFICES ASSUME Init PROVE IInv
  OBVIOUS
<1>1. TypeOK
  BY TypeInit
<1>2. LinkedIsParked
  BY DEF Init, LinkedIsParked
<1>3. \A p \in Purges : RowBatch(p) /\ EventBatch(p) /\ DeletedRows(p)
  BY DEF Init, NoPurge, RowBatch, EventBatch, DeletedRows
<1>4. Disjoint
  BY DEF Init, NoPurge, Disjoint
<1> QED
  BY <1>1, <1>2, <1>3, <1>4 DEF IInv

(* A purge holds no rows unless it is about to commit.                     *)
LEMMA NoRowsYet ==
  ASSUME IInv, NEW p \in Purges, purge[p].stage # "commitEvents"
  PROVE  purge[p].rows = {}
  BY DEF IInv, DeletedRows

LEMMA SelectRowsInv ==
  ASSUME IInv, TypeOK', NEW p \in Purges, SelectRows(p)
  PROVE  IInv'
<1>1. PICK B \in SUBSET Settled : Moves(p, Selecting(p, B))
  BY SelectRowsMoves DEF IInv
<1>2. purge[p].rows = {}
  BY NoRowsYet DEF SelectRows
<1>3. /\ Selecting(p, B).stage \in {"selectEvents", "deleteRows"}
      /\ Selecting(p, B).ids = B
      /\ Selecting(p, B).rows = {}
  BY <1>2 DEF Selecting, IInv, TypeOK, PurgeType
<1> QED
  BY <1>1, <1>3, MovesInv

LEMMA SelectEventsInv ==
  ASSUME IInv, TypeOK', NEW p \in Purges, SelectEvents(p)
  PROVE  IInv'
<1>1. PICK B \in SUBSET Expirable : Moves(p, SelectingEvents(p, B))
  BY SelectEventsMoves DEF IInv
<1>2. purge[p].rows = {}
  BY NoRowsYet DEF SelectEvents
<1>3. /\ SelectingEvents(p, B).stage \in {"record", "deleteEvents"}
      /\ SelectingEvents(p, B).ids = B
      /\ SelectingEvents(p, B).rows = {}
  BY <1>2 DEF SelectingEvents, IInv, TypeOK, PurgeType
<1>4. \A e \in B : e \in Events /\ (e \in TestEvents \/ status[e] = "resolved")
  BY <1>1 DEF Expirable, IInv, TypeOK
<1> QED
  BY <1>1, <1>3, <1>4, MovesInv

LEMMA DeleteRowsOfEventsInv ==
  ASSUME IInv, TypeOK', NEW p \in Purges, DeleteRowsOfEvents(p)
  PROVE  IInv'
<1>1. Moves(p, Deleting(p))
  BY DeleteRowsOfEventsMoves DEF IInv
<1>2. /\ Deleting(p).stage = "commitEvents"
      /\ Deleting(p).ids = purge[p].ids
      /\ Deleting(p).rows = RowsOf(purge[p].ids)
      /\ Deleting(p).again = purge[p].again
  BY DEF Deleting, IInv, TypeOK, PurgeType
<1>3. \A r \in RowsOf(purge[p].ids) : row[r] \in Live /\ EventOf[r] \in purge[p].ids /\ ~Locked(r)
  BY DEF RowsOf, DeleteRowsOfEvents, Live
<1>4. \A e \in purge[p].ids :
        e \in Events /\ (e \in TestEvents \/ status[e] = "resolved" \/ e \in purge[p].again)
  BY DEF IInv, EventBatch, DeleteRowsOfEvents
<1> QED
  BY <1>1, <1>2, <1>3, <1>4, MovesInv

LEMMA BeginInv ==
  ASSUME IInv, TypeOK', NEW p \in Purges, Begin(p)
  PROVE  IInv'
<1>1. Moves(p, Beginning(p))
  BY BeginMoves DEF IInv
<1>2. purge[p].rows = {}
  BY NoRowsYet DEF Begin
<1>3. Beginning(p).stage = "selectRows" /\ Beginning(p).rows = {}
  BY <1>2 DEF Beginning, IInv, TypeOK, PurgeType
<1> QED
  BY <1>1, <1>3, MovesInv

LEMMA EndInv ==
  ASSUME IInv, TypeOK', NEW p \in Purges,
         Record(p) \/ Fail(p) \/ (CommitEvents(p) /\ ~RemoveEvents(p))
  PROVE  IInv'
<1>1. Moves(p, NoPurge)
  BY EndMoves DEF IInv
<1>2. NoPurge.stage = "idle" /\ NoPurge.rows = {}
  BY DEF NoPurge
<1> QED
  BY <1>1, <1>2, MovesInv

LEMMA DeleteRowsInv ==
  ASSUME IInv, TypeOK', NEW p \in Purges, DeleteRows(p)
  PROVE  IInv'
<1> DEFINE S == {r \in WithChildren(purge[p].ids) : row[r] # "purged"}
           g == [NoPurge EXCEPT !.stage =
                   IF purge[p].full THEN "selectRows" ELSE "selectEvents"]
<1>1. /\ purge'[p].stage \in {"selectEvents", "selectRows"}
      /\ purge'[p].rows = {}
      /\ \A q \in Purges : q # p => purge'[q] = purge[q]
  BY DEF DeleteRows, IInv, TypeOK, NoPurge
<1>2. /\ row' = Purged(S)
      /\ into' = Unlinked(S)
      /\ \A r \in S : ~Locked(r)
      /\ status' = status
  BY DEF DeleteRows
<1>3. \A r \in Rows : into[r] # NoDigest /\ into[r] \in purge[p].ids /\ row[r] # "purged" => r \in S
  BY DEF IInv, LinkedIsParked, WithChildren
<1> HIDE DEF S
<1>4. LinkedIsParked'
  BY <1>2 DEF IInv, LinkedIsParked, Unlinked, Purged, TypeOK
<1>5. ASSUME NEW q \in Purges
      PROVE  PurgeInv(q)'
  <2>1. CASE q = p
    BY <2>1, <1>1 DEF PurgeInv, RowBatch, EventBatch, DeletedRows
  <2>2. CASE q # p
    <3>1. PurgeInv(q) /\ purge'[q] = purge[q]
      BY <2>2, <1>1 DEF IInv, PurgeInv
    <3>2. \A x \in Rows \cup Digests :
            row[x] \in {"settled", "purged"} => row'[x] \in {"settled", "purged"}
      BY <1>2 DEF Purged
    <3>3. \A r \in purge[q].rows : row'[r] \in Live /\ EventOf[r] \in purge'[q].ids
      <4>1. \A r \in purge[q].rows : r \in Rows /\ r \notin S
        BY <1>2 DEF Locked, IInv, TypeOK, PurgeType
      <4> QED
        BY <3>1, <4>1, <1>2 DEF PurgeInv, DeletedRows, Purged
    <3> QED
      BY <3>1, <3>2, <3>3, <1>2, Kept DEF IInv
  <2> QED
    BY <2>1, <2>2
<1>6. Disjoint'
  BY <1>1 DEF IInv, Disjoint
<1> QED
  BY <1>4, <1>5, <1>6 DEF IInv, PurgeInv

LEMMA RemoveEventsInv ==
  ASSUME IInv, TypeOK', NEW p \in Purges, purge[p].stage = "commitEvents", RemoveEvents(p),
         RowsOf(purge[p].ids) \subseteq purge[p].rows
  PROVE  IInv'
<1> DEFINE B == purge[p].ids
           S == purge[p].rows
<1>1. /\ purge'[p].stage \in {"selectEvents", "record"}
      /\ purge'[p].rows = {}
  BY DEF RemoveEvents, IInv, TypeOK, NoPurge
<1>2. ASSUME NEW q \in Purges, q # p
      PROVE  /\ purge'[q].stage = purge[q].stage
             /\ purge'[q].rows = purge[q].rows
             /\ purge'[q].ids = purge[q].ids \ B
             /\ purge'[q].again = purge[q].again \ B
  <2>1. purge'[q] = [purge[q] EXCEPT !.ids = @ \ B, !.again = @ \ B]
    BY <1>2 DEF RemoveEvents
  <2> QED
    BY <2>1 DEF IInv, TypeOK, PurgeType
<1>3. /\ row' = Purged(S)
      /\ into' = Unlinked(S)
      /\ \A e \in Events : e \notin B => status'[e] = status[e]
  BY DEF RemoveEvents
<1>4. S \subseteq Rows
  BY DEF IInv, TypeOK, PurgeType
<1>5. LinkedIsParked'
  BY <1>3 DEF IInv, LinkedIsParked, Unlinked, Purged
<1>6. ASSUME NEW q \in Purges
      PROVE  PurgeInv(q)'
  <2>1. CASE q = p
    BY <2>1, <1>1 DEF PurgeInv, RowBatch, EventBatch, DeletedRows
  <2>2. CASE q # p
    <3>1. PurgeInv(q)
      BY DEF IInv, PurgeInv
    <3>2. \A x \in Rows \cup Digests :
            row[x] \in {"settled", "purged"} => row'[x] \in {"settled", "purged"}
      BY <1>3 DEF Purged
    <3>3. \A r \in purge[q].rows : row'[r] \in Live /\ EventOf[r] \in purge'[q].ids
      <4> SUFFICES ASSUME NEW r \in purge[q].rows
                   PROVE  row'[r] \in Live /\ EventOf[r] \in purge'[q].ids
        OBVIOUS
      <4>1. r \in Rows /\ r \notin S
        BY <2>2 DEF IInv, TypeOK, PurgeType, Disjoint
      <4>2. row[r] \in Live /\ EventOf[r] \in purge[q].ids
        BY <3>1 DEF PurgeInv, DeletedRows
      <4>3. EventOf[r] \notin B
        BY <4>1, <4>2 DEF RowsOf, Live
      <4> QED
        BY <2>2, <1>2, <1>3, <4>1, <4>2, <4>3 DEF Purged
    <3>4. \A e \in Events : e \in purge'[q].ids => status'[e] = status[e]
      BY <2>2, <1>2, <1>3
    <3>5. \A e \in purge'[q].ids : e \in purge[q].again => e \in purge'[q].again
      BY <2>2, <1>2
    <3> QED
      BY <2>2, <1>2, <3>1, <3>2, <3>3, <3>4, <3>5, Kept DEF IInv
  <2> QED
    BY <2>1, <2>2
<1>7. Disjoint'
  <2> SUFFICES ASSUME NEW q \in Purges, NEW t \in Purges, q # t
               PROVE  purge'[q].rows \cap purge'[t].rows = {}
    BY DEF Disjoint
  <2> QED
    BY <1>1, <1>2 DEF IInv, Disjoint
<1> QED
  BY <1>5, <1>6, <1>7 DEF IInv, PurgeInv

(* A step of the rest of the system that touches neither settled rows nor  *)
(* locked ones.                                                            *)
LEMMA OthersInv ==
  ASSUME IInv, TypeOK', LinkedIsParked',
         \A x \in Rows \cup Digests : row[x] \in {"settled", "purged"} => row'[x] = row[x],
         \A r \in Rows : Locked(r) => row'[r] = row[r],
         purge' = purge,
         status' = status
  PROVE  IInv'
<1>1. ASSUME NEW q \in Purges
      PROVE  PurgeInv(q)'
  <2>1. PurgeInv(q)
    BY DEF IInv, PurgeInv
  <2>2. \A r \in purge[q].rows : row'[r] \in Live /\ EventOf[r] \in purge'[q].ids
    <3>1. \A r \in purge[q].rows : r \in Rows /\ Locked(r)
      BY DEF IInv, TypeOK, PurgeType, Locked
    <3> QED
      BY <2>1, <3>1 DEF PurgeInv, DeletedRows
  <2> QED
    BY <2>1, <2>2, Kept DEF IInv
<1>2. Disjoint'
  BY DEF IInv, Disjoint
<1> QED
  BY <1>1, <1>2 DEF IInv, PurgeInv

LEMMA LockedIsLive ==
  ASSUME IInv, NEW r \in Rows, Locked(r)
  PROVE  row[r] \in Live
  BY DEF IInv, Locked, DeletedRows

LEMMA StagedKeeps ==
  ASSUME IInv, NEW e \in Events, NEW S \in SUBSET Rows, Staged(e, S)
  PROVE  \A x \in Rows \cup Digests : row[x] # "absent" => row'[x] = row[x]
<1>1. PICK f \in [S -> {"open", "parked"}] :
        row' = [r \in Rows \cup Digests |-> IF r \in S THEN f[r] ELSE row[r]]
  BY DEF Staged
<1> QED
  BY <1>1 DEF Staged

LEMMA RenotifyInv ==
  ASSUME IInv, TypeOK', NEW e \in Events, NEW S \in SUBSET Rows, Renotify(e, S)
  PROVE  IInv'
<1>1. \A x \in Rows \cup Digests : row[x] # "absent" => row'[x] = row[x]
  BY StagedKeeps DEF Renotify
<1>2. LinkedIsParked'
  BY <1>1 DEF IInv, LinkedIsParked, Renotify
<1>3. \A r \in Rows : Locked(r) => row'[r] = row[r]
  BY <1>1, LockedIsLive DEF Live
<1> QED
  BY <1>1, <1>2, <1>3, OthersInv DEF Renotify

LEMMA SettleRowInv ==
  ASSUME IInv, TypeOK', NEW r \in Rows \cup Digests, SettleRow(r)
  PROVE  IInv'
<1>1. row' = [row EXCEPT ![r] = "settled"] /\ row[r] = "open" /\ ~Locked(r)
  BY DEF SettleRow
<1>2. LinkedIsParked'
  BY <1>1 DEF IInv, TypeOK, LinkedIsParked, SettleRow
<1>3. \A x \in Rows \cup Digests : row[x] \in {"settled", "purged"} => row'[x] = row[x]
  BY <1>1 DEF IInv, TypeOK
<1>4. \A x \in Rows : Locked(x) => row'[x] = row[x]
  BY <1>1 DEF IInv, TypeOK
<1> QED
  BY <1>2, <1>3, <1>4, OthersInv DEF SettleRow

LEMMA FlushInv ==
  ASSUME IInv, TypeOK', NEW d \in Digests, Flush(d)
  PROVE  IInv'
<1>1. CASE Cardinality(Waiting) = 1
  <2>1. /\ row' = [r \in Rows \cup Digests |-> IF r \in Waiting THEN "open" ELSE row[r]]
        /\ into' = into
    BY <1>1 DEF Flush
  <2>2. LinkedIsParked'
    BY <2>1 DEF IInv, LinkedIsParked, Waiting
  <2>3. \A x \in Rows \cup Digests : row[x] \in {"settled", "purged"} => row'[x] = row[x]
    BY <2>1 DEF Waiting
  <2>4. \A x \in Rows : Locked(x) => row'[x] = row[x]
    BY <2>1 DEF Flush
  <2> QED
    BY <2>2, <2>3, <2>4, OthersInv DEF Flush
<1>2. CASE Cardinality(Waiting) # 1
  <2>1. /\ row[d] = "absent"
        /\ row' = [row EXCEPT ![d] = "open"]
        /\ into' = [r \in Rows |-> IF r \in Waiting THEN d ELSE into[r]]
    BY <1>2 DEF Flush
  <2>2. \A r \in Rows : row'[r] = row[r]
    BY <2>1, RetentionAssumption DEF IInv, TypeOK
  <2>3. LinkedIsParked'
    BY <2>1, <2>2 DEF IInv, LinkedIsParked, Waiting
  <2>4. \A x \in Rows \cup Digests : row[x] \in {"settled", "purged"} => row'[x] = row[x]
    BY <2>1 DEF IInv, TypeOK
  <2> QED
    BY <2>2, <2>3, <2>4, OthersInv DEF Flush
<1> QED
  BY <1>1, <1>2

LEMMA ReceiveInv ==
  ASSUME IInv, TypeOK', NEW e \in Events, NEW s \in {"firing", "resolved"},
         NEW S \in SUBSET Rows, Receive(e, s, S)
  PROVE  IInv'
<1>1. \A x \in Rows \cup Digests : row[x] # "absent" => row'[x] = row[x]
  BY StagedKeeps DEF Receive
<1>2. LinkedIsParked'
  BY <1>1 DEF IInv, LinkedIsParked, Receive
<1>3. ASSUME NEW q \in Purges
      PROVE  /\ purge'[q].stage = purge[q].stage
             /\ purge'[q].rows = purge[q].rows
             /\ purge'[q].ids = purge[q].ids
             /\ purge'[q].again = purge[q].again \cup ({e} \cap purge[q].ids)
  <2>1. purge'[q] = [purge[q] EXCEPT !.again = @ \cup ({e} \cap purge[q].ids)]
    BY DEF Receive
  <2> QED
    BY <2>1 DEF IInv, TypeOK, PurgeType
<1>4. ASSUME NEW q \in Purges
      PROVE  PurgeInv(q)'
  <2>1. PurgeInv(q)
    BY DEF IInv, PurgeInv
  <2>2. \A r \in purge[q].rows : row'[r] \in Live /\ EventOf[r] \in purge'[q].ids
    <3>1. \A r \in purge[q].rows : r \in Rows /\ Locked(r)
      BY DEF IInv, TypeOK, PurgeType, Locked
    <3> QED
      BY <1>1, <1>3, <2>1, <3>1, LockedIsLive DEF PurgeInv, DeletedRows, Live
  <2>3. \A f \in Events : f \in purge'[q].ids => status'[f] = status[f] \/ f \in purge'[q].again
    BY <1>3 DEF Receive, IInv, TypeOK
  <2> QED
    BY <1>1, <1>3, <2>1, <2>2, <2>3, Kept DEF IInv
<1>5. Disjoint'
  BY <1>3 DEF IInv, Disjoint
<1> QED
  BY <1>2, <1>4, <1>5 DEF IInv, PurgeInv

LEMMA InvStep == IInv /\ [Next]_vars => IInv'
<1> SUFFICES ASSUME IInv, [Next]_vars PROVE IInv'
  OBVIOUS
<1>0. TypeOK'
  BY TypeStep DEF IInv
<1>1. ASSUME NEW e \in Events, NEW s \in {"firing", "resolved"}, NEW S \in SUBSET Rows,
             Receive(e, s, S)
      PROVE  IInv'
  BY <1>0, <1>1, ReceiveInv
<1>2. ASSUME NEW e \in Events, NEW S \in SUBSET Rows, Renotify(e, S)
      PROVE  IInv'
  BY <1>0, <1>2, RenotifyInv
<1>3. ASSUME NEW r \in Rows \cup Digests, SettleRow(r)
      PROVE  IInv'
  BY <1>0, <1>3, SettleRowInv
<1>4. ASSUME NEW d \in Digests, Flush(d)
      PROVE  IInv'
  BY <1>0, <1>4, FlushInv
<1>5. CASE (\E e \in Events : Expire(e)) \/ DayPasses
  <2>1. UNCHANGED <<status, row, into, purge>>
    BY <1>5 DEF Expire, DayPasses
  <2>2. LinkedIsParked'
    BY <2>1 DEF IInv, LinkedIsParked
  <2> QED
    BY <1>0, <2>1, <2>2, OthersInv
<1>6. CASE MaybeRunSweep
  BY <1>0, <1>6, BeginInv, RetentionAssumption DEF MaybeRunSweep
<1>7. ASSUME NEW p \in Purges, Request(p)
      PROVE  IInv'
  BY <1>0, <1>7, BeginInv DEF Request
<1>8. ASSUME NEW p \in Purges, PurgeStep(p)
      PROVE  IInv'
  <2>1. CASE SelectRows(p)
    BY <1>0, <2>1, SelectRowsInv
  <2>2. CASE DeleteRows(p)
    BY <1>0, <2>2, DeleteRowsInv
  <2>3. CASE SelectEvents(p)
    BY <1>0, <2>3, SelectEventsInv
  <2>4. CASE DeleteRowsOfEvents(p)
    BY <1>0, <2>4, DeleteRowsOfEventsInv
  <2>5. CASE CommitEvents(p)
    <3>1. CASE RemoveEvents(p) /\ RowsOf(purge[p].ids) \subseteq purge[p].rows
      BY <1>0, <2>5, <3>1, RemoveEventsInv DEF CommitEvents
    <3>2. CASE ~RemoveEvents(p)
      BY <1>0, <2>5, <3>2, EndInv
    <3>3. CASE ~(RowsOf(purge[p].ids) \subseteq purge[p].rows)
      <4>1. Moves(p, NoPurge)
        BY <2>5, <3>3, NoPurgeType DEF CommitEvents, Moves
      <4>2. NoPurge.stage = "idle" /\ NoPurge.rows = {}
        BY DEF NoPurge
      <4> QED
        BY <1>0, <4>1, <4>2, MovesInv
    <3> QED
      BY <3>1, <3>2, <3>3
  <2>6. CASE Record(p) \/ Fail(p)
    BY <1>0, <2>6, EndInv
  <2> QED
    BY <1>8, <2>1, <2>2, <2>3, <2>4, <2>5, <2>6 DEF PurgeStep
<1>9. CASE UNCHANGED vars
  <2>1. UNCHANGED <<status, row, into, purge>>
    BY <1>9 DEF vars
  <2>2. LinkedIsParked'
    BY <2>1 DEF IInv, LinkedIsParked
  <2> QED
    BY <1>0, <2>1, <2>2, OthersInv
<1> QED
  BY <1>1, <1>2, <1>3, <1>4, <1>5, <1>6, <1>7, <1>8, <1>9 DEF Next

LEMMA Invariance == Spec => []IInv
  BY InvInit, InvStep, PTL DEF Spec

-----------------------------------------------------------------------------
(* What the purge may never do.                                            *)

(* The steps that take an event away, a row away, or a link away.          *)
LEMMA WhoRemoves ==
  ASSUME IInv, [Next]_vars
  PROVE  \/ \E p \in Purges : DeleteRows(p)
         \/ \E p \in Purges : purge[p].stage = "commitEvents" /\ RemoveEvents(p)
         \/ /\ \A e \in Events : status'[e] = "absent" => status[e] = "absent"
            /\ \A x \in Rows \cup Digests : row'[x] = "purged" => row[x] = "purged"
            /\ \A r \in Rows : into[r] # NoDigest => into'[r] = into[r]
<1> DEFINE Removed ==
             /\ \A e \in Events : status'[e] = "absent" => status[e] = "absent"
             /\ \A x \in Rows \cup Digests : row'[x] = "purged" => row[x] = "purged"
             /\ \A r \in Rows : into[r] # NoDigest => into'[r] = into[r]
<1>1. ASSUME NEW e \in Events, NEW s \in {"firing", "resolved"}, NEW S \in SUBSET Rows,
             Receive(e, s, S) \/ Renotify(e, S)
      PROVE  Removed
  <2>1. PICK f \in [S -> {"open", "parked"}] :
          row' = [r \in Rows \cup Digests |-> IF r \in S THEN f[r] ELSE row[r]]
    BY <1>1 DEF Receive, Renotify, Staged
  <2>2. \A x \in Rows \cup Digests : row'[x] = "purged" => row[x] = "purged"
    BY <2>1
  <2>3. \A g \in Events : status'[g] = "absent" => status[g] = "absent"
    BY <1>1 DEF Receive, Renotify, IInv, TypeOK
  <2> QED
    BY <1>1, <2>2, <2>3 DEF Receive, Renotify
<1>2. ASSUME NEW r \in Rows \cup Digests, SettleRow(r)
      PROVE  Removed
  BY <1>2 DEF SettleRow, IInv, TypeOK
<1>3. ASSUME NEW d \in Digests, Flush(d)
      PROVE  Removed
  <2>1. CASE Cardinality(Waiting) = 1
    BY <1>3, <2>1 DEF Flush, Waiting
  <2>2. CASE Cardinality(Waiting) # 1
    <3>1. /\ row' = [row EXCEPT ![d] = "open"]
          /\ into' = [r \in Rows |-> IF r \in Waiting THEN d ELSE into[r]]
          /\ status' = status
      BY <1>3, <2>2 DEF Flush
    <3> QED
      BY <3>1 DEF Waiting, IInv, TypeOK
  <2> QED
    BY <2>1, <2>2
<1>4. ASSUME UNCHANGED <<status, row, into>>
      PROVE  Removed
  BY <1>4
<1> HIDE DEF Removed
<1>5. ASSUME NEW p \in Purges, PurgeStep(p)
      PROVE  \/ DeleteRows(p)
             \/ purge[p].stage = "commitEvents" /\ RemoveEvents(p)
             \/ UNCHANGED <<status, row, into>>
  BY <1>5 DEF PurgeStep, SelectRows, SelectEvents, DeleteRowsOfEvents, CommitEvents, Record, Fail
<1>6. CASE \/ \E e \in Events : Expire(e)
           \/ MaybeRunSweep
           \/ \E p \in Purges : Request(p)
           \/ DayPasses
           \/ UNCHANGED vars
  BY <1>4, <1>6 DEF Expire, MaybeRunSweep, Request, Begin, DayPasses, vars
<1> QED
  BY <1>1, <1>2, <1>3, <1>4, <1>5, <1>6 DEF Next, Removed

(* A firing event is purged only if it was received again after the purge  *)
(* had selected it, for any number of events, purges and batch size.       *)
THEOREM FiringEventsStay == Spec => OnlyReopenedFiringGoes
<1>1. ASSUME IInv, [Next]_vars,
             NEW e \in Events \ TestEvents, status[e] = "firing", status'[e] = "absent"
      PROVE  \E p \in Purges : e \in purge[p].again
  <2>1. PICK p \in Purges : purge[p].stage = "commitEvents" /\ RemoveEvents(p)
    BY <1>1, WhoRemoves DEF DeleteRows
  <2>2. e \in purge[p].ids
    BY <1>1, <2>1 DEF RemoveEvents
  <2> QED
    BY <1>1, <2>1, <2>2 DEF IInv, EventBatch
<1>2. IInv /\ [Next]_vars =>
        \A e \in Events \ TestEvents :
          status[e] = "firing" /\ status'[e] = "absent" => \E p \in Purges : e \in purge[p].again
  BY <1>1
<1> QED
  BY <1>2, Invariance, PTL DEF Spec, OnlyReopenedFiringGoes

(* A notification that was not sent goes only with its event.              *)
THEOREM NothingUnsentIsLost == Spec => UnsentGoesWithItsEvent
<1>1. ASSUME IInv, [Next]_vars, NEW r \in Rows,
             row[r] = "open" \/ r \in Waiting, row'[r] = "purged"
      PROVE  status'[EventOf[r]] = "absent"
  <2>1. row[r] \in {"open", "parked"} /\ into[r] = NoDigest
    BY <1>1 DEF Waiting, IInv, LinkedIsParked
  <2>2. ASSUME NEW p \in Purges, DeleteRows(p)
        PROVE  FALSE
    <3>1. r \in WithChildren(purge[p].ids)
      BY <1>1, <2>1, <2>2 DEF DeleteRows, Purged
    <3>2. \A x \in purge[p].ids : x \in Rows \cup Digests /\ row[x] \in {"settled", "purged"}
      BY <1>1, <2>2 DEF DeleteRows, IInv, RowBatch
    <3> QED
      BY <2>1, <3>1, <3>2, RetentionAssumption DEF WithChildren
  <2>3. PICK p \in Purges : purge[p].stage = "commitEvents" /\ RemoveEvents(p)
    BY <1>1, <2>1, <2>2, WhoRemoves
  <2>4. r \in purge[p].rows
    BY <1>1, <2>1, <2>3 DEF RemoveEvents, Purged
  <2>5. EventOf[r] \in purge[p].ids
    BY <1>1, <2>4 DEF IInv, DeletedRows
  <2>6. EventOf[r] \in Events
    BY RetentionAssumption
  <2> QED
    BY <2>3, <2>5, <2>6 DEF RemoveEvents
<1>2. ASSUME IInv, [Next]_vars, NEW d \in Digests, row[d] = "open", row'[d] = "purged"
      PROVE  FALSE
  <2>1. ASSUME NEW p \in Purges, DeleteRows(p)
        PROVE  FALSE
    <3>1. d \in WithChildren(purge[p].ids)
      BY <1>2, <2>1 DEF DeleteRows, Purged
    <3>2. \A x \in purge[p].ids : x \in Rows \cup Digests /\ row[x] \in {"settled", "purged"}
      BY <1>2, <2>1 DEF DeleteRows, IInv, RowBatch
    <3> QED
      BY <1>2, <3>1, <3>2, RetentionAssumption DEF WithChildren
  <2>2. PICK p \in Purges : purge[p].stage = "commitEvents" /\ RemoveEvents(p)
    BY <1>2, <2>1, WhoRemoves
  <2>3. d \in purge[p].rows /\ purge[p].rows \subseteq Rows
    BY <1>2, <2>2 DEF RemoveEvents, Purged, IInv, TypeOK, PurgeType
  <2> QED
    BY <2>3, RetentionAssumption
<1>3. IInv /\ [Next]_vars =>
        /\ \A r \in Rows :
             (row[r] = "open" \/ r \in Waiting) /\ row'[r] = "purged"
               => status'[EventOf[r]] = "absent"
        /\ \A d \in Digests : row[d] = "open" => row'[d] # "purged"
  BY <1>1, <1>2
<1> QED
  BY <1>3, Invariance, PTL DEF Spec, UnsentGoesWithItsEvent

(* No parked row outlives its digest.                                      *)
THEOREM NothingIsDigestedAgain == Spec => NoSecondDigest
<1>1. ASSUME IInv, [Next]_vars, NEW r \in Rows, into[r] # NoDigest
      PROVE  into'[r] = into[r] \/ row'[r] = "purged"
  <2>1. row[r] = "parked" /\ into[r] \in Digests
    BY <1>1 DEF IInv, LinkedIsParked, TypeOK
  <2>2. ASSUME NEW p \in Purges, DeleteRows(p)
        PROVE  into'[r] = into[r] \/ row'[r] = "purged"
    <3> DEFINE S == {x \in WithChildren(purge[p].ids) : row[x] # "purged"}
    <3>1. row' = Purged(S) /\ into' = Unlinked(S)
      BY <2>2 DEF DeleteRows
    <3>2. into[r] \in S => into[r] \in purge[p].ids
      BY <2>1, RetentionAssumption DEF WithChildren
    <3>3. into[r] \in purge[p].ids => r \in S
      BY <2>1 DEF WithChildren
    <3> HIDE DEF S
    <3> QED
      BY <3>1, <3>2, <3>3 DEF Purged, Unlinked
  <2>3. ASSUME NEW p \in Purges, RemoveEvents(p)
        PROVE  into'[r] = into[r] \/ row'[r] = "purged"
    <3>1. into[r] \notin purge[p].rows
      BY <1>1, <2>1, RetentionAssumption DEF IInv, TypeOK, PurgeType
    <3> QED
      BY <2>3, <3>1 DEF RemoveEvents, Purged, Unlinked
  <2> QED
    BY <1>1, <2>2, <2>3, WhoRemoves
<1>2. IInv /\ [Next]_vars =>
        \A r \in Rows : into[r] # NoDigest => into'[r] = into[r] \/ row'[r] = "purged"
  BY <1>1
<1> QED
  BY <1>2, Invariance, PTL DEF Spec, NoSecondDigest
=============================================================================
