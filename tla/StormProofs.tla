---------------------------- MODULE StormProofs ----------------------------
(***************************************************************************)
(* Proofs about storm control, for any number of rows, transactions in     *)
(* flight, flushes and any limit.  The digests are consistent on either    *)
(* database; that no parked row is forgotten and that a channel is calmed  *)
(* needs the single writer of SQLite.                                      *)
(***************************************************************************)
EXTENDS Storm, FiniteSetTheorems, TLAPS

(* A staged row is not in the table yet, and no two transactions stage the *)
(* same one.                                                               *)
StagedIsNew ==
  /\ \A s \in Senders : Staging(s) => place[sender[s].row] = "absent"
  /\ \A s, t \in Senders : s # t /\ Staging(s) => sender[s].row # sender[t].row

(* What the dispatch has read is still parked when it writes.              *)
ReadIsParked ==
  dispatch # NoDispatch => \A r \in dispatch.parked : place[r] = "parked"

(* With one writer no transaction writes next to another, so the flush a   *)
(* parked row relies on is still there when the row is committed.          *)
OneWriter ==
  \A s, t \in Senders : Staging(s) /\ Staging(t) => s = t

FlushStillThere ==
  \A s \in Senders :
    Staging(s) => (sender[s].park => (sender[s].arm \/ pending # {}))

-----------------------------------------------------------------------------
LEMMA TypeInit == Init => TypeOK
<1> SUFFICES ASSUME Init PROVE TypeOK
    OBVIOUS
<1> USE StormAssumption DEF Init
<1>1. deleted \in BOOLEAN
      BY Zenon
<1>2. faults \in 0..MaxFaults /\ edits \in 0..MaxEdits
      OBVIOUS
<1>3. place \in [Rows -> Places]
      BY DEF Places
<1>4. sender \in [Senders -> [row : Rows, park : BOOLEAN, arm : BOOLEAN] \cup {NoSender}]
      OBVIOUS
<1> QED
    BY <1>1, <1>2, <1>3, <1>4, Zenon DEF TypeOK

LEMMA NewFlushIsNew ==
  Flushes # pending \cup claimed /\ pending \subseteq Flushes /\ claimed \subseteq Flushes
    => NewFlush \in Flushes \ (pending \cup claimed)
<1> SUFFICES ASSUME Flushes # pending \cup claimed,
                    pending \subseteq Flushes, claimed \subseteq Flushes
             PROVE  NewFlush \in Flushes \ (pending \cup claimed)
    OBVIOUS
<1>1. PICK f \in Flushes : f \notin pending \cup claimed
      OBVIOUS
<1> QED
    BY <1>1 DEF NewFlush

LEMMA TypeNext == TypeOK /\ [Next]_vars => TypeOK'
<1> SUFFICES ASSUME TypeOK, [Next]_vars PROVE TypeOK'
    OBVIOUS
<1> USE StormAssumption DEF TypeOK, rowVars, timerVars
<1>1. ASSUME NEW s \in Senders, NEW r \in Rows, Stage(s, r) PROVE TypeOK'
  <2>1. [row |-> r, park |-> NeedsParking, arm |-> NeedsParking /\ ~FlushScheduled]
          \in [row : Rows, park : BOOLEAN, arm : BOOLEAN]
        BY Zenon DEF NeedsParking, FlushScheduled
  <2> QED
      BY <1>1, <2>1, Zenon DEF Stage
<1>2. ASSUME NEW s \in Senders, CommitStaged(s) PROVE TypeOK'
  <2>1. sender[s] \in [row : Rows, park : BOOLEAN, arm : BOOLEAN]
        BY <1>2, Zenon DEF CommitStaged, Staging
  <2>2. place' \in [Rows -> Places] /\ direct' \subseteq Rows /\ recent' \subseteq Rows
        BY <1>2, <2>1 DEF CommitStaged, Places
  <2>3. pending' \subseteq Flushes /\ pending' \cap claimed' = {}
        BY <1>2, NewFlushIsNew DEF CommitStaged
  <2> QED
      BY <1>2, <2>2, <2>3, Zenon DEF CommitStaged
<1>3. ASSUME NEW s \in Senders, Rollback(s) PROVE TypeOK'
      BY <1>3, Zenon DEF Rollback
<1>4. ASSUME NEW r \in Rows, Age(r) PROVE TypeOK'
      BY <1>4, Zenon DEF Age
<1>5. ASSUME NEW m \in Modes, EditMode(m) PROVE TypeOK'
  <2>1. edits' \in 0..MaxEdits
        BY <1>5 DEF EditMode
  <2> QED
      BY <1>5, <2>1, Zenon DEF EditMode
<1>6. CASE DeleteChannel
  <2>1. edits' \in 0..MaxEdits
        BY <1>6 DEF DeleteChannel
  <2> QED
      BY <1>6, <2>1, Zenon DEF DeleteChannel
<1>7. ASSUME NEW S \in SUBSET Flushes, ClaimDueActions(S) PROVE TypeOK'
      BY <1>7, Zenon DEF ClaimDueActions, Idle
<1>8. ASSUME NEW S \in SUBSET Flushes, RecoverStaleClaims(S) PROVE TypeOK'
      BY <1>8, Zenon DEF RecoverStaleClaims, Idle
<1>9. ASSUME NEW f \in Flushes, Dispatch(f) PROVE TypeOK'
  <2>1. dispatch' \in [flush : Flushes, parked : SUBSET Rows]
        BY <1>9 DEF Dispatch, Parked
  <2>2. dispatch'.flush \in claimed' \ batch'
        BY <1>9 DEF Dispatch
  <2> QED
      BY <1>9, <2>1, <2>2, Zenon DEF Dispatch
<1>10. CASE Settle
  <2>1. place' \in [Rows -> Places]
        BY <1>10 DEF Settle, Places
  <2>2. dispatch \in [flush : Flushes, parked : SUBSET Rows]
        BY <1>10, Zenon DEF Settle
  <2>3. digests' \subseteq SUBSET Rows
        BY <1>10, <2>2 DEF Settle
  <2>4. batch' \subseteq claimed' /\ claimed' \subseteq Flushes /\ pending' \cap claimed' = {}
        BY <1>10, Zenon DEF Settle
  <2> QED
      BY <1>10, <2>1, <2>3, <2>4, Zenon DEF Settle
<1>11. CASE Retry
  <2>1. faults' \in 0..MaxFaults
        BY <1>11 DEF Retry
  <2> QED
      BY <1>11, <2>1, Zenon DEF Retry
<1>12. CASE LoseDispatch
  <2>1. faults' \in 0..MaxFaults
        BY <1>12 DEF LoseDispatch
  <2> QED
      BY <1>12, <2>1, Zenon DEF LoseDispatch
<1>13. CASE Crash
  <2>1. faults' \in 0..MaxFaults
        BY <1>13 DEF Crash
  <2>2. sender' \in [Senders -> [row : Rows, park : BOOLEAN, arm : BOOLEAN] \cup {NoSender}]
        BY <1>13 DEF Crash
  <2> QED
      BY <1>13, <2>1, <2>2, Zenon DEF Crash
<1>14. CASE UNCHANGED vars
      BY <1>14, Zenon DEF vars
<1> QED
    BY <1>1, <1>2, <1>3, <1>4, <1>5, <1>6, <1>7, <1>8, <1>9, <1>10, <1>11, <1>12, <1>13,
       <1>14 DEF Next, DispatchStep

(* Every reachable state is well typed: in particular the batch of the     *)
(* scheduler and the action it dispatches are always still claimed, which  *)
(* is why recover_stale_claims never gives back an action in work.         *)
THEOREM TypeCorrect == Spec => []TypeOK
BY TypeInit, TypeNext, PTL DEF Spec

-----------------------------------------------------------------------------
(* Digests.                                                                *)

DigestInv == StagedIsNew /\ ReadIsParked /\ DigestedOnce

LEMMA DigestInit == Init => DigestInv
BY DEF Init, DigestInv, StagedIsNew, ReadIsParked, DigestedOnce, Staging

LEMMA DigestNext == TypeOK /\ DigestInv /\ [Next]_vars => DigestInv'
<1> SUFFICES ASSUME TypeOK, DigestInv, [Next]_vars PROVE DigestInv'
    OBVIOUS
<1> USE DEF DigestInv, StagedIsNew, ReadIsParked, DigestedOnce, rowVars, timerVars
<1>a. \A s \in Senders : Staging(s) => sender[s].row \in Rows
      BY DEF TypeOK, Staging
<1>b. NoRow \notin Rows
      BY StormAssumption
<1>1. ASSUME NEW s \in Senders, NEW r \in Rows, Stage(s, r) PROVE DigestInv'
  <2>1. /\ sender'[s].row = r
        /\ \A t \in Senders : t # s => sender'[t] = sender[t]
        BY <1>1 DEF Stage, TypeOK
  <2>2. \A t \in Senders : sender[t].row # r
        BY <1>1 DEF Stage
  <2>3. place[r] = "absent" /\ place' = place
        BY <1>1 DEF Stage
  <2>4. StagedIsNew'
        BY <2>1, <2>2, <2>3 DEF Staging
  <2> QED
      BY <1>1, <2>4 DEF Stage
<1>2. ASSUME NEW s \in Senders, CommitStaged(s) PROVE DigestInv'
  <2> DEFINE r == sender[s].row
  <2>1. r \in Rows /\ Staging(s) /\ place[r] = "absent"
        BY <1>2, <1>a DEF CommitStaged
  <2>2. /\ place'[r] \in {"parked", "queued"}
        /\ \A x \in Rows : x # r => place'[x] = place[x]
        BY <1>2, <2>1 DEF CommitStaged, TypeOK
  <2>3. /\ sender'[s] = NoSender
        /\ \A t \in Senders : t # s => sender'[t] = sender[t]
        BY <1>2 DEF CommitStaged, TypeOK
  <2>4. \A t \in Senders : t # s /\ Staging(t) => sender[t].row # r
        OBVIOUS
  <2>5. StagedIsNew'
        BY <1>a, <1>b, <2>1, <2>2, <2>3, <2>4 DEF Staging, NoSender
  <2>6. ReadIsParked'
        BY <1>2, <2>1, <2>2 DEF CommitStaged, TypeOK
  <2>7. DigestedOnce'
        BY <1>2, <2>1, <2>2 DEF CommitStaged
  <2> QED
      BY <2>5, <2>6, <2>7
<1>3. ASSUME NEW s \in Senders, Rollback(s) PROVE DigestInv'
  <2>1. /\ sender'[s] = NoSender
        /\ \A t \in Senders : t # s => sender'[t] = sender[t]
        BY <1>3 DEF Rollback, TypeOK
  <2>2. StagedIsNew'
        BY <1>3, <1>a, <1>b, <2>1 DEF Rollback, Staging, NoSender
  <2> QED
      BY <1>3, <2>2 DEF Rollback
<1>4. ASSUME NEW r \in Rows, Age(r) PROVE DigestInv'
      BY <1>4 DEF Age, Staging
<1>5. ASSUME NEW m \in Modes, EditMode(m) PROVE DigestInv'
      BY <1>5 DEF EditMode, Staging
<1>6. CASE DeleteChannel
      BY <1>6 DEF DeleteChannel, Staging
<1>7. ASSUME NEW S \in SUBSET Flushes, ClaimDueActions(S) PROVE DigestInv'
      BY <1>7 DEF ClaimDueActions, Staging
<1>8. ASSUME NEW S \in SUBSET Flushes, RecoverStaleClaims(S) PROVE DigestInv'
      BY <1>8 DEF RecoverStaleClaims, Staging
<1>9. ASSUME NEW f \in Flushes, Dispatch(f) PROVE DigestInv'
      BY <1>9 DEF Dispatch, Staging, Parked
<1>10. CASE Settle
  <2> DEFINE S == dispatch.parked
  <2>1. dispatch # NoDispatch /\ (\A r \in S : place[r] = "parked") /\ S \subseteq Rows
        BY <1>10 DEF Settle, TypeOK
  <2>2. \A r \in Rows : place[r] = "absent" => place'[r] = "absent"
        BY <1>10, <2>1 DEF Settle
  <2>3. StagedIsNew'
        BY <1>10, <1>a, <2>2 DEF Settle, Staging
  <2>4. ReadIsParked'
        BY <1>10 DEF Settle
  <2>5. \A D \in digests : D \cap S = {}
        BY <2>1, Zenon DEF TypeOK
  <2>6. CASE place' = place /\ digests' = digests
        BY <2>3, <2>4, <2>6
  <2>7. CASE /\ place' = [r \in Rows |-> IF r \in S THEN "queued" ELSE place[r]]
             /\ digests' = digests
        BY <2>1, <2>3, <2>4, <2>7
  <2>8. CASE /\ place' = [r \in Rows |-> IF r \in S THEN "digested" ELSE place[r]]
             /\ digests' = digests \cup {S}
    <3>1. ASSUME NEW r \in Rows
          PROVE  place'[r] = "digested" <=> \E D \in digests' : r \in D
          BY <2>8
    <3>2. \A D, E \in digests' : D # E => D \cap E = {}
          BY <2>5, <2>8
    <3> QED
        BY <2>3, <2>4, <3>1, <3>2
  <2> QED
      BY <1>10, <2>6, <2>7, <2>8 DEF Settle
<1>11. CASE Retry
      BY <1>11 DEF Retry, Staging
<1>12. CASE LoseDispatch
      BY <1>12 DEF LoseDispatch, Staging
<1>13. CASE Crash
  <2>1. StagedIsNew'
        BY <1>13, <1>b DEF Crash, Staging, NoSender
  <2> QED
      BY <1>13, <2>1 DEF Crash
<1>14. CASE UNCHANGED vars
      BY <1>14 DEF vars, Staging
<1> QED
    BY <1>1, <1>2, <1>3, <1>4, <1>5, <1>6, <1>7, <1>8, <1>9, <1>10, <1>11, <1>12, <1>13,
       <1>14 DEF Next, DispatchStep

(* A parked row ends in one digest at most, on either database and through *)
(* failed, retried, lost and recovered flushes.                            *)
THEOREM NoRowDigestedTwice == Spec => []DigestedOnce
<1>1. Init => TypeOK /\ DigestInv
      BY TypeInit, DigestInit
<1>2. (TypeOK /\ DigestInv) /\ [Next]_vars => (TypeOK /\ DigestInv)'
      BY TypeNext, DigestNext
<1>3. DigestInv => DigestedOnce
      BY DEF DigestInv
<1> QED
    BY <1>1, <1>2, <1>3, PTL DEF Spec

-----------------------------------------------------------------------------
(* Flushes, with a single writer.                                          *)

FlushInv == OneWriter /\ FlushStillThere /\ NoRowForgotten

LEMMA FlushInit == Init => FlushInv
BY DEF Init, FlushInv, OneWriter, FlushStillThere, NoRowForgotten, Staging

LEMMA FlushNext ==
  ASSUME Exclusive
  PROVE  TypeOK /\ FlushInv /\ [Next]_vars => FlushInv'
<1> SUFFICES ASSUME TypeOK, FlushInv, [Next]_vars PROVE FlushInv'
    OBVIOUS
<1> USE DEF FlushInv, OneWriter, FlushStillThere, NoRowForgotten, rowVars, timerVars
<1>a. NoRow \notin Rows /\ NoFlush \notin Flushes
      BY StormAssumption
<1>b. \A s \in Senders : Staging(s) => sender[s].row \in Rows
      BY DEF TypeOK, Staging
<1>c. MayWrite({}) => \A s \in Senders : ~Staging(s)
      BY DEF MayWrite
<1>1. ASSUME NEW s \in Senders, NEW r \in Rows, Stage(s, r) PROVE FlushInv'
  <2>1. \A t \in Senders : ~Staging(t)
        BY <1>1 DEF Stage, MayWrite
  <2>2. \A t \in Senders : t # s => sender'[t] = sender[t]
        BY <1>1 DEF Stage, TypeOK
  <2>3. sender'[s].park => sender'[s].arm \/ pending # {}
        BY <1>1 DEF Stage, TypeOK, FlushScheduled
  <2>4. OneWriter' /\ FlushStillThere'
        BY <1>1, <2>1, <2>2, <2>3 DEF Stage, Staging
  <2> QED
      BY <1>1, <2>4 DEF Stage
<1>2. ASSUME NEW s \in Senders, CommitStaged(s) PROVE FlushInv'
  <2> DEFINE r == sender[s].row
  <2>1. Staging(s) /\ \A t \in Senders : t # s => ~Staging(t)
        BY <1>2 DEF CommitStaged
  <2>2. \A t \in Senders : sender'[t] = NoSender
        BY <1>2, <2>1 DEF CommitStaged, Staging, TypeOK
  <2>3. OneWriter' /\ FlushStillThere'
        BY <2>2 DEF Staging
  <2>4. sender[s].park => pending' # {}
        BY <1>2, <2>1 DEF CommitStaged
  <2>5. pending \subseteq pending'
        BY <1>2 DEF CommitStaged
  <2>6. CASE sender[s].park
        BY <2>3, <2>4, <2>6
  <2>7. CASE ~sender[s].park
    <3>1. \A x \in Rows : place'[x] = "parked" => place[x] = "parked"
          BY <1>2, <2>7 DEF CommitStaged, TypeOK
    <3> QED
        BY <1>2, <2>3, <2>5, <3>1 DEF CommitStaged
  <2> QED
      BY <2>6, <2>7
<1>3. ASSUME NEW s \in Senders, Rollback(s) PROVE FlushInv'
  <2>1. /\ sender'[s] = NoSender
        /\ \A t \in Senders : t # s => sender'[t] = sender[t]
        BY <1>3 DEF Rollback, TypeOK
  <2>2. OneWriter' /\ FlushStillThere'
        BY <1>3, <1>a, <1>b, <2>1 DEF Rollback, Staging, NoSender
  <2> QED
      BY <1>3, <2>2 DEF Rollback
<1>4. ASSUME NEW r \in Rows, Age(r) PROVE FlushInv'
      BY <1>4 DEF Age, Staging
<1>5. ASSUME NEW m \in Modes, EditMode(m) PROVE FlushInv'
      BY <1>5 DEF EditMode, Staging
<1>6. CASE DeleteChannel
      BY <1>6 DEF DeleteChannel, Staging
<1>7. ASSUME NEW S \in SUBSET Flushes, ClaimDueActions(S) PROVE FlushInv'
  <2>1. OneWriter' /\ FlushStillThere'
        BY <1>7, <1>c DEF ClaimDueActions, Staging
  <2>2. PICK f \in S : f \in claimed' /\ dispatch'.flush # f
        BY <1>7, <1>a DEF ClaimDueActions, Idle, NoDispatch
  <2> QED
      BY <1>7, <2>1, <2>2 DEF ClaimDueActions
<1>8. ASSUME NEW S \in SUBSET Flushes, RecoverStaleClaims(S) PROVE FlushInv'
  <2>1. pending' # {}
        BY <1>8 DEF RecoverStaleClaims
  <2> QED
      BY <1>8, <1>c, <2>1 DEF RecoverStaleClaims, Staging
<1>9. ASSUME NEW f \in Flushes, Dispatch(f) PROVE FlushInv'
  <2>1. ~deleted => dispatch'.parked = Parked
        BY <1>9 DEF Dispatch
  <2>2. ASSUME NEW r \in Rows, place'[r] = "parked", ~deleted'
        PROVE  \/ pending' # {}
               \/ \E g \in claimed' : dispatch'.flush = g => r \in dispatch'.parked
        BY <1>9, <2>1, <2>2 DEF Dispatch, Parked
  <2>3. OneWriter' /\ FlushStillThere'
        BY <1>9 DEF Dispatch, Staging
  <2> QED
      BY <2>2, <2>3
<1>10. CASE Settle
  <2>1. OneWriter' /\ FlushStillThere'
        BY <1>10 DEF Settle, Staging
  <2>2. ASSUME NEW r \in Rows, place'[r] = "parked", ~deleted', pending' = {}
        PROVE  \E g \in claimed' : dispatch'.flush = g => r \in dispatch'.parked
    <3>1. place[r] = "parked" /\ r \notin dispatch.parked
          BY <1>10, <2>2 DEF Settle, TypeOK
    <3>2. PICK g \in claimed : dispatch.flush = g => r \in dispatch.parked
          BY <1>10, <2>2, <3>1 DEF Settle
    <3>3. g \in claimed' /\ g # NoFlush
          BY <1>10, <1>a, <3>1, <3>2 DEF Settle, TypeOK
    <3> QED
        BY <1>10, <3>3 DEF Settle, NoDispatch
  <2> QED
      BY <2>1, <2>2
<1>11. CASE Retry
  <2>1. pending' # {}
        BY <1>11 DEF Retry
  <2> QED
      BY <1>11, <1>c, <2>1 DEF Retry, Staging
<1>12. CASE LoseDispatch
  <2>1. \A g \in claimed : dispatch'.flush # g
        BY <1>12, <1>a DEF LoseDispatch, NoDispatch, TypeOK
  <2> QED
      BY <1>12, <2>1 DEF LoseDispatch, Staging
<1>13. CASE Crash
  <2>1. \A g \in claimed : dispatch'.flush # g
        BY <1>13, <1>a DEF Crash, NoDispatch, TypeOK
  <2>2. OneWriter' /\ FlushStillThere'
        BY <1>13 DEF Crash, Staging
  <2> QED
      BY <1>13, <2>1, <2>2 DEF Crash
<1>14. CASE UNCHANGED vars
      BY <1>14 DEF vars, Staging
<1> QED
    BY <1>1, <1>2, <1>3, <1>4, <1>5, <1>6, <1>7, <1>8, <1>9, <1>10, <1>11, <1>12, <1>13,
       <1>14 DEF Next, DispatchStep

(* With a single writer (SQLite) no parked row is forgotten: there is      *)
(* always a flush that has yet to read what is parked, or that has read    *)
(* the row and not committed yet.                                          *)
THEOREM ParkedRowsHaveAFlush ==
  ASSUME Exclusive
  PROVE  Spec => []NoRowForgotten
<1>1. Init => TypeOK /\ FlushInv
      BY TypeInit, FlushInit
<1>2. (TypeOK /\ FlushInv) /\ [Next]_vars => (TypeOK /\ FlushInv)'
      BY TypeNext, FlushNext
<1>3. FlushInv => NoRowForgotten
      BY DEF FlushInv
<1> QED
    BY <1>1, <1>2, <1>3, PTL DEF Spec

-----------------------------------------------------------------------------
(* The limit, with a single writer.                                        *)

(* A row that is about to be queued at once still finds room in the hour.  *)
RoomForStaged ==
  \A s \in Senders :
    Staging(s) /\ ~sender[s].park /\ edits = 0 /\ mode = "auto"
      => Cardinality(recent \cap direct) < Limit

DirectIsStaged == \A r \in direct : place[r] # "absent"

CalmInv ==
  OneWriter /\ IsFiniteSet(recent) /\ DirectIsStaged /\ RoomForStaged /\ StormIsCalmed

LEMMA AddOne ==
  ASSUME NEW S, IsFiniteSet(S), NEW x
  PROVE  /\ Cardinality(S \cup {x}) \in Nat
         /\ Cardinality(S \cup {x}) <= Cardinality(S) + 1
<1>1. Cardinality(S) \in Nat
      BY FS_CardinalityType
<1>2. Cardinality(S \cup {x}) = IF x \in S THEN Cardinality(S) ELSE Cardinality(S) + 1
      BY FS_AddElement
<1> QED
    BY <1>1, <1>2

LEMMA CalmInit == Init => CalmInv
<1> SUFFICES ASSUME Init PROVE CalmInv
    OBVIOUS
<1>1. recent = {} /\ recent \cap direct = {} /\ \A s \in Senders : ~Staging(s)
      BY DEF Init, Staging
<1> QED
    BY <1>1, FS_EmptySet, StormAssumption
    DEF Init, CalmInv, OneWriter, DirectIsStaged, RoomForStaged, StormIsCalmed

LEMMA CalmNext ==
  ASSUME Exclusive
  PROVE  TypeOK /\ StagedIsNew /\ CalmInv /\ [Next]_vars => CalmInv'
<1> SUFFICES ASSUME TypeOK, StagedIsNew, CalmInv, [Next]_vars PROVE CalmInv'
    OBVIOUS
<1> USE DEF CalmInv, OneWriter, DirectIsStaged, RoomForStaged, StormIsCalmed, rowVars, timerVars
<1>a. Limit \in Nat /\ NoRow \notin Rows
      BY StormAssumption
<1>b. /\ Cardinality(recent) \in Nat
      /\ Cardinality(recent \cap direct) \in Nat
      /\ Cardinality(recent \cap direct) <= Cardinality(recent)
      /\ IsFiniteSet(recent \cap direct)
      BY FS_Subset, FS_CardinalityType
<1>1. ASSUME NEW s \in Senders, NEW r \in Rows, Stage(s, r) PROVE CalmInv'
  <2>1. \A t \in Senders : ~Staging(t)
        BY <1>1 DEF Stage, MayWrite
  <2>2. \A t \in Senders : t # s => sender'[t] = sender[t]
        BY <1>1 DEF Stage, TypeOK
  <2>3. sender'[s].park <=> NeedsParking
        BY <1>1 DEF Stage, TypeOK
  <2>4. ~NeedsParking /\ mode = "auto" => Cardinality(recent) < Limit
        BY <1>a, <1>b DEF NeedsParking
  <2>5. /\ recent' = recent /\ direct' = direct /\ mode' = mode /\ edits' = edits
        BY <1>1 DEF Stage
  <2>6. OneWriter'
        BY <2>1, <2>2 DEF Staging
  <2>7. RoomForStaged'
        BY <1>a, <1>b, <2>1, <2>2, <2>3, <2>4, <2>5 DEF Staging
  <2>8. DirectIsStaged'
        BY <1>1 DEF Stage
  <2> QED
      BY <2>5, <2>6, <2>7, <2>8
<1>2. ASSUME NEW s \in Senders, CommitStaged(s) PROVE CalmInv'
  <2> DEFINE r == sender[s].row
  <2>1. Staging(s) /\ \A t \in Senders : t # s => ~Staging(t)
        BY <1>2 DEF CommitStaged
  <2>2. \A t \in Senders : ~Staging(t)'
        BY <1>2, <2>1 DEF CommitStaged, Staging, TypeOK
  <2>3. IsFiniteSet(recent')
        BY <1>2, FS_AddElement DEF CommitStaged
  <2>4. mode' = mode /\ edits' = edits
        BY <1>2 DEF CommitStaged
  <2>5. r \in Rows /\ place[r] = "absent" /\ r \notin direct
        BY <2>1 DEF StagedIsNew, Staging, TypeOK
  <2>6. DirectIsStaged'
        BY <1>2, <2>5 DEF CommitStaged, TypeOK
  <2>7. StormIsCalmed'
    <3>1. CASE sender[s].park
      <4>1. recent' \cap direct' = recent \cap direct
            BY <1>2, <2>5, <3>1 DEF CommitStaged
      <4> QED
          BY <2>4, <4>1
    <3>2. CASE ~sender[s].park
      <4>1. \/ recent' \cap direct' = recent \cap direct
            \/ recent' \cap direct' = (recent \cap direct) \cup {r}
            BY <1>2, <2>5, <3>2 DEF CommitStaged
      <4>2. /\ Cardinality((recent \cap direct) \cup {r}) \in Nat
            /\ Cardinality((recent \cap direct) \cup {r}) <= Cardinality(recent \cap direct) + 1
            BY <1>b, AddOne
      <4>3. edits = 0 /\ mode = "auto" => Cardinality(recent \cap direct) < Limit
            BY <2>1, <3>2
      <4>4. edits = 0 /\ mode = "auto" => Cardinality(recent' \cap direct') <= Limit
        <5> DEFINE n == Cardinality(recent \cap direct)
                   m == Cardinality((recent \cap direct) \cup {r})
                   k == Cardinality(recent' \cap direct')
        <5>1. k = n \/ k = m
              BY <4>1
        <5>2. n \in Nat /\ m \in Nat /\ m <= n + 1 /\ Limit \in Nat
              BY <1>a, <1>b, <4>2
        <5>3. edits = 0 /\ mode = "auto" => n < Limit
              BY <4>3
        <5> HIDE DEF n, m, k
        <5>4. edits = 0 /\ mode = "auto" => k <= Limit
              BY <5>1, <5>2, <5>3
        <5> QED
            BY <5>4 DEF k
      <4> QED
          BY <2>4, <4>4
    <3> QED
        BY <3>1, <3>2
  <2> QED
      BY <2>2, <2>3, <2>6, <2>7
<1>3. ASSUME NEW s \in Senders, Rollback(s) PROVE CalmInv'
  <2>1. /\ sender'[s] = NoSender
        /\ \A t \in Senders : t # s => sender'[t] = sender[t]
        BY <1>3 DEF Rollback, TypeOK
  <2>2. \A t \in Senders : Staging(t)' => Staging(t) /\ sender'[t] = sender[t]
        BY <2>1 DEF Staging
  <2> QED
      BY <1>3, <2>2 DEF Rollback
<1>4. ASSUME NEW r \in Rows, Age(r) PROVE CalmInv'
  <2>1. IsFiniteSet(recent')
        BY <1>4, FS_Subset DEF Age
  <2>2. /\ Cardinality(recent' \cap direct') <= Cardinality(recent \cap direct)
        /\ Cardinality(recent' \cap direct') \in Nat
    <3>1. recent' \cap direct' \in SUBSET (recent \cap direct)
          BY <1>4 DEF Age
    <3> QED
        BY <1>b, <3>1, FS_Subset, FS_CardinalityType
  <2> QED
      BY <1>4, <1>a, <1>b, <2>1, <2>2 DEF Age, Staging
<1>5. ASSUME NEW m \in Modes, EditMode(m) PROVE CalmInv'
  <2>1. edits' # 0
        BY <1>5 DEF EditMode, TypeOK
  <2> QED
      BY <1>5, <2>1 DEF EditMode, Staging
<1>6. CASE DeleteChannel
  <2>1. edits' # 0
        BY <1>6 DEF DeleteChannel, TypeOK
  <2> QED
      BY <1>6, <2>1 DEF DeleteChannel, Staging
<1>7. ASSUME NEW S \in SUBSET Flushes, ClaimDueActions(S) PROVE CalmInv'
      BY <1>7 DEF ClaimDueActions, Staging
<1>8. ASSUME NEW S \in SUBSET Flushes, RecoverStaleClaims(S) PROVE CalmInv'
      BY <1>8 DEF RecoverStaleClaims, Staging
<1>9. ASSUME NEW f \in Flushes, Dispatch(f) PROVE CalmInv'
      BY <1>9 DEF Dispatch, Staging
<1>10. CASE Settle
  <2>1. \A r \in Rows : place[r] # "absent" => place'[r] # "absent"
        BY <1>10 DEF Settle, TypeOK
  <2> QED
      BY <1>10, <2>1 DEF Settle, Staging, TypeOK
<1>11. CASE Retry
      BY <1>11 DEF Retry, Staging
<1>12. CASE LoseDispatch
      BY <1>12 DEF LoseDispatch, Staging
<1>13. CASE Crash
  <2>1. \A t \in Senders : ~Staging(t)'
        BY <1>13 DEF Crash, Staging
  <2> QED
      BY <1>13, <2>1 DEF Crash
<1>14. CASE UNCHANGED vars
      BY <1>14 DEF vars, Staging
<1> QED
    BY <1>1, <1>2, <1>3, <1>4, <1>5, <1>6, <1>7, <1>8, <1>9, <1>10, <1>11, <1>12, <1>13,
       <1>14 DEF Next, DispatchStep

(* With a single writer storm control keeps its limit: of the rows of the  *)
(* trailing hour, no more than rate_limit_per_hour went out without being  *)
(* parked, whatever number of requests staged them.                        *)
THEOREM LimitIsKept ==
  ASSUME Exclusive
  PROVE  Spec => []StormIsCalmed
<1>1. Init => TypeOK /\ DigestInv /\ CalmInv
      BY TypeInit, DigestInit, CalmInit
<1>2. (TypeOK /\ DigestInv /\ CalmInv) /\ [Next]_vars => (TypeOK /\ DigestInv /\ CalmInv)'
      BY TypeNext, DigestNext, CalmNext DEF DigestInv
<1>3. CalmInv => StormIsCalmed
      BY DEF CalmInv
<1> QED
    BY <1>1, <1>2, <1>3, PTL DEF Spec
=============================================================================
