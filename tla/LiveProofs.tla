----------------------------- MODULE LiveProofs -----------------------------
(* Proofs about the live feed, for any number of topics and clients, any   *)
(* size of the queues, and any number of changes and mishaps; about the    *)
(* rendering of templates, for any pool and any number of renders; and     *)
(* about the deadman switch, for every timeout and any number of webhooks  *)
(* in flight.                                                              *)
EXTENDS Heartbeat, LiveFeed, Rendering, FiniteSetTheorems, TLAPS

-----------------------------------------------------------------------------
(* The live feed.                                                          *)

(* What is shown was read before what is in flight, and that before now.   *)
InOrder ==
  \A c \in Clients : \A t \in Topics :
    /\ view[c][t] <= committed[t]
    /\ fetch[c] = "answered" => view[c][t] <= answer[c][t] /\ answer[c][t] <= committed[t]

(* The inductive invariant.  NoSilentStaleness alone is not: what is shown *)
(* next is the answer in flight, which must be covered as well, and what a *)
(* lost queue would have told is known from what is shown only because the *)
(* answer in flight is no older.                                           *)
FeedInv == FeedTypeOK /\ NoSilentStaleness /\ AnswerIsCovered /\ InOrder

-----------------------------------------------------------------------------
(* _deliver yields a queue that is not empty, whatever it drops.           *)
LEMMA DeliveredIsAQueue ==
  ASSUME NEW q \in Seq(Topics), NEW t \in Topics
  PROVE  Delivered(q, t) \in Seq(Topics) /\ Delivered(q, t) # <<>>
<1>1. CASE Len(q) = QueueSize
  <2>1. q # <<>>
    BY <1>1, LiveFeedAssumption
  <2>2. Tail(q) \in Seq(Topics)
    BY <2>1
  <2> QED
    BY <1>1, <2>2 DEF Delivered
<1>2. CASE Len(q) # QueueSize
  BY <1>2 DEF Delivered
<1> QED
  BY <1>1, <1>2

(* The types are kept by every action, and hold of the initial state.      *)
LEMMA TypeStep ==
  FeedTypeOK /\ [FeedNext]_feedVars => FeedTypeOK'
<1> SUFFICES ASSUME FeedTypeOK, [FeedNext]_feedVars
             PROVE  FeedTypeOK'
  OBVIOUS
<1> USE DEF FeedTypeOK
<1>1. ASSUME NEW t \in Topics, Stage(t) PROVE FeedTypeOK'
  BY <1>1, LiveFeedAssumption DEF Stage, Miss, hubVars, clientVars
<1>2. ASSUME NEW t \in Topics, CommitChange(t) PROVE FeedTypeOK'
  BY <1>2, LiveFeedAssumption DEF CommitChange, Miss, hubVars, clientVars
<1>3. ASSUME NEW t \in Topics, Rollback(t) PROVE FeedTypeOK'
  BY <1>3, LiveFeedAssumption DEF Rollback, Miss, hubVars, clientVars
<1>4. ASSUME NEW t \in Topics, CommitSilently(t) PROVE FeedTypeOK'
  BY <1>4, LiveFeedAssumption DEF CommitSilently, Miss, hubVars, clientVars
<1>5. ASSUME NEW t \in Topics, Publish(t) PROVE FeedTypeOK'
  <2>1. ASSUME NEW d \in Clients PROVE Delivered(queue[d], t) \in Seq(Topics)
    BY DeliveredIsAQueue
  <2>2. queue' \in [Clients -> Seq(Topics)]
    BY <1>5, <2>1 DEF Publish
  <2>3. missed' \in [Clients -> SUBSET Topics]
    BY <1>5 DEF Publish, Miss
  <2> QED
    BY <1>5, <2>2, <2>3 DEF Publish, clientVars
<1>6. ASSUME NEW t \in Topics, LosePublication(t) PROVE FeedTypeOK'
  BY <1>6, LiveFeedAssumption DEF LosePublication, Miss, hubVars, clientVars
<1>7. CASE RestartProcess
  BY <1>7 DEF RestartProcess, Untold, clientVars
<1>8. ASSUME NEW c \in Clients, NEW S \in Scopes, ChangeMembership(c, S) PROVE FeedTypeOK'
  BY <1>8, LiveFeedAssumption DEF ChangeMembership, hubVars, clientVars
<1>9. ASSUME NEW c \in Clients, Subscribe(c) PROVE FeedTypeOK'
  BY <1>9, LiveFeedAssumption DEF Subscribe, Untold, hubVars, clientVars
<1>10. ASSUME NEW c \in Clients, Unsubscribe(c) PROVE FeedTypeOK'
  BY <1>10, LiveFeedAssumption DEF Unsubscribe, Untold, hubVars, clientVars
<1>11. ASSUME NEW c \in Clients, Hear(c) PROVE FeedTypeOK'
  BY <1>11, LiveFeedAssumption DEF Hear, Untold, hubVars, clientVars
<1>12. ASSUME NEW c \in Clients, Flush(c) PROVE FeedTypeOK'
  BY <1>12, LiveFeedAssumption DEF Flush, Untold, hubVars, clientVars
<1>13. ASSUME NEW c \in Clients, Poll(c) PROVE FeedTypeOK'
  BY <1>13, LiveFeedAssumption DEF Poll, Untold, hubVars, clientVars
<1>14. ASSUME NEW c \in Clients, Answer(c) PROVE FeedTypeOK'
  BY <1>14, LiveFeedAssumption DEF Answer, Untold, hubVars, clientVars
<1>15. ASSUME NEW c \in Clients, Show(c) PROVE FeedTypeOK'
  BY <1>15, LiveFeedAssumption DEF Show, Untold, hubVars, clientVars
<1>16. ASSUME NEW c \in Clients, FailFetch(c) PROVE FeedTypeOK'
  BY <1>16, LiveFeedAssumption DEF FailFetch, Untold, hubVars, clientVars
<1>17. CASE UNCHANGED feedVars
  BY <1>17 DEF feedVars, hubVars, clientVars
<1> QED
  BY <1>1, <1>2, <1>3, <1>4, <1>5, <1>6, <1>7, <1>8, <1>9, <1>10, <1>11, <1>12, <1>13, <1>14, <1>15, <1>16, <1>17 DEF FeedNext

-----------------------------------------------------------------------------
(* Nobody becomes out of date unnoticed in a step.                         *)
Covered == NoSilentStaleness /\ AnswerIsCovered /\ InOrder

LEMMA CoveredStep ==
  FeedInv /\ [FeedNext]_feedVars => Covered'
<1> SUFFICES ASSUME FeedInv, [FeedNext]_feedVars
             PROVE  Covered'
  OBVIOUS
<1> USE DEF FeedInv, FeedTypeOK, Covered, NoSilentStaleness, AnswerIsCovered, InOrder, UnderWay
<1>1. ASSUME NEW t \in Topics, Stage(t) PROVE Covered'
  BY <1>1 DEF Stage, Miss, hubVars, clientVars
<1>2. ASSUME NEW t \in Topics, CommitChange(t) PROVE Covered'
  BY <1>2 DEF CommitChange, Miss, hubVars, clientVars
<1>3. ASSUME NEW t \in Topics, Rollback(t) PROVE Covered'
  BY <1>3 DEF Rollback, Miss, hubVars, clientVars
<1>4. ASSUME NEW t \in Topics, CommitSilently(t) PROVE Covered'
  BY <1>4 DEF CommitSilently, Miss, hubVars, clientVars
<1>5. ASSUME NEW t \in Topics, Publish(t) PROVE Covered'
  <2>1. UNCHANGED <<committed, belongs, clientVars>>
    BY <1>5 DEF Publish
  <2>2. ASSUME NEW u \in Topics, u # t, unpublished[u] > 0 PROVE unpublished'[u] > 0
    BY <1>5, <2>2 DEF Publish
  <2>3. ASSUME NEW d \in Clients, d \in Subscribers(t) \/ queue[d] # <<>>
        PROVE  queue'[d] # <<>>
    <3>1. Delivered(queue[d], t) # <<>>
      BY DeliveredIsAQueue
    <3> QED
      BY <1>5, <2>3, <3>1 DEF Publish
  <2>4. ASSUME NEW d \in Clients PROVE missed[d] \subseteq missed'[d]
    BY <1>5 DEF Publish, Miss
  <2>5. ASSUME NEW d \in Clients, d \notin Subscribers(t) PROVE t \in missed'[d]
    BY <1>5, <2>5 DEF Publish, Miss
  <2> QED
    BY <2>1, <2>2, <2>3, <2>4, <2>5 DEF clientVars
<1>6. ASSUME NEW t \in Topics, LosePublication(t) PROVE Covered'
  BY <1>6 DEF LosePublication, Miss, hubVars, clientVars
<1>7. CASE RestartProcess
  <2>1. UNCHANGED <<committed, belongs, clientVars>>
    BY <1>7 DEF RestartProcess
  <2>2. ASSUME NEW d \in Clients, NEW u \in Topics,
               \/ u \in missed[d]
               \/ unpublished[u] > 0
               \/ queue[d] # <<>> /\ view[d][u] # committed[u]
        PROVE  u \in missed'[d]
    BY <1>7, <2>2 DEF RestartProcess, Untold
  <2> QED
    BY <2>1, <2>2 DEF clientVars
<1>8. ASSUME NEW c \in Clients, NEW S \in Scopes, ChangeMembership(c, S) PROVE Covered'
  BY <1>8, LiveFeedAssumption DEF ChangeMembership, hubVars, clientVars
<1>9. ASSUME NEW c \in Clients, Subscribe(c) PROVE Covered'
  BY <1>9 DEF Subscribe, Untold, hubVars, clientVars
<1>10. ASSUME NEW c \in Clients, Unsubscribe(c) PROVE Covered'
  <2>1. UNCHANGED <<hubVars, belongs, clientVars>>
    BY <1>10 DEF Unsubscribe
  <2>2. ASSUME NEW d \in Clients, NEW u \in Topics,
               \/ u \in missed[d]
               \/ queue[d] # <<>> /\ view[d][u] # committed[u]
        PROVE  u \in missed'[d] \/ queue'[d] # <<>>
    BY <1>10, <2>2 DEF Unsubscribe, Untold
  <2> QED
    BY <2>1, <2>2 DEF hubVars, clientVars
<1>11. ASSUME NEW c \in Clients, Hear(c) PROVE Covered'
  BY <1>11 DEF Hear, Untold, hubVars, clientVars
<1>12. ASSUME NEW c \in Clients, Flush(c) PROVE Covered'
  BY <1>12 DEF Flush, Untold, hubVars, clientVars
<1>13. ASSUME NEW c \in Clients, Poll(c) PROVE Covered'
  BY <1>13 DEF Poll, Untold, hubVars, clientVars
<1>14. ASSUME NEW c \in Clients, Answer(c) PROVE Covered'
  BY <1>14 DEF Answer, Untold, hubVars, clientVars
<1>15. ASSUME NEW c \in Clients, Show(c) PROVE Covered'
  BY <1>15 DEF Show, Untold, hubVars, clientVars
<1>16. ASSUME NEW c \in Clients, FailFetch(c) PROVE Covered'
  BY <1>16 DEF FailFetch, Untold, hubVars, clientVars
<1>17. CASE UNCHANGED feedVars
  BY <1>17 DEF feedVars, hubVars, clientVars
<1> QED
  BY <1>1, <1>2, <1>3, <1>4, <1>5, <1>6, <1>7, <1>8, <1>9, <1>10, <1>11, <1>12, <1>13, <1>14, <1>15, <1>16, <1>17 DEF FeedNext

-----------------------------------------------------------------------------
LEMMA FeedInvariance == FeedSpec => []FeedInv
<1>1. FeedInit => FeedInv
  BY DEF FeedInit, FeedInv, FeedTypeOK, NoSilentStaleness, AnswerIsCovered, InOrder
<1>2. FeedInv /\ [FeedNext]_feedVars => FeedInv'
  BY TypeStep, CoveredStep DEF FeedInv, Covered
<1> QED
  BY <1>1, <1>2, PTL DEF FeedSpec

(* Every state of the live feed is well typed.                             *)
THEOREM TypeCorrect == FeedSpec => []FeedTypeOK
<1>1. FeedInv => FeedTypeOK
  BY DEF FeedInv
<1> QED
  BY <1>1, FeedInvariance, PTL

(* However many clients, topics, changes, drops and disconnections: no     *)
(* browser is out of date without something under way that brings it up    *)
(* to date, unless no event could tell it of the change.                   *)
THEOREM NobodyIsStaleInSilence == FeedSpec => []NoSilentStaleness
<1>1. FeedInv => NoSilentStaleness
  BY DEF FeedInv
<1> QED
  BY <1>1, FeedInvariance, PTL

-----------------------------------------------------------------------------
(* Rendering.                                                              *)

InFlightRenders == At("queued") \cup At("running")

(* The inductive invariant: permits are never more than threads.           *)
RenderInv ==
  /\ call \in [Renders -> CallType]
  /\ stuck \in Nat
  /\ Cardinality(InFlightRenders) <= Pool

LEMMA CallFacts ==
  /\ NoRender \in CallType /\ NoRender.at = "idle"
  /\ \A c \in CallType, at \in {"idle", "waiting", "queued", "running"} :
       [c EXCEPT !.at = at] \in CallType /\ [c EXCEPT !.at = at].at = at
  /\ \A c \in CallType : c.slot < Slots => [c EXCEPT !.slot = @ + 1] \in CallType
  /\ \A c \in CallType, purpose \in {"delivery", "preview"} :
       [c EXCEPT !.purpose = purpose] \in CallType
  /\ \A c \in CallType, source \in Sources :
       /\ [c EXCEPT !.at = "queued", !.source = source] \in CallType
       /\ [c EXCEPT !.at = "queued", !.source = source].at = "queued"
  /\ \A c \in CallType : [c EXCEPT !.fell = TRUE, !.slot = 1] \in CallType
<1>1. NoRender \in CallType /\ NoRender.at = "idle"
  BY RenderingAssumption DEF NoRender, CallType, Sources
<1>2. \A c \in CallType, at \in {"idle", "waiting", "queued", "running"} :
        [c EXCEPT !.at = at] \in CallType /\ [c EXCEPT !.at = at].at = at
  BY DEF CallType
<1>3. \A c \in CallType : c.slot < Slots => [c EXCEPT !.slot = @ + 1] \in CallType
  BY RenderingAssumption DEF CallType
<1>4. \A c \in CallType, purpose \in {"delivery", "preview"} :
        [c EXCEPT !.purpose = purpose] \in CallType
  BY DEF CallType
<1>5. \A c \in CallType, source \in Sources :
        /\ [c EXCEPT !.at = "queued", !.source = source] \in CallType
        /\ [c EXCEPT !.at = "queued", !.source = source].at = "queued"
  BY DEF CallType
<1>6. \A c \in CallType : [c EXCEPT !.fell = TRUE, !.slot = 1] \in CallType
  <2>1. 1 \in 1 .. Slots
    BY RenderingAssumption
  <2>2. ASSUME NEW c \in CallType, NEW fell \in BOOLEAN, NEW slot \in 1 .. Slots
        PROVE  [c EXCEPT !.fell = fell, !.slot = slot] \in CallType
    BY DEF CallType
  <2> QED
    BY <2>1, <2>2
<1> QED
  BY <1>1, <1>2, <1>3, <1>4, <1>5, <1>6

(* What becomes of one render, the others being left alone.                *)
Becomes(r, where) ==
  /\ call' \in [Renders -> CallType]
  /\ call'[r].at \in where
  /\ \A q \in Renders : q # r => call'[q] = call[q]

LEMMA Waits ==
  ASSUME call \in [Renders -> CallType], NEW r \in Renders, NEW c \in CallType, WaitFor(r, c)
  PROVE  Becomes(r, {"waiting"})
<1>1. call' = [call EXCEPT ![r] = [c EXCEPT !.at = "waiting"]]
  BY DEF WaitFor
<1> QED
  BY <1>1, CallFacts DEF Becomes

LEMMA Ends ==
  ASSUME call \in [Renders -> CallType], NEW r \in Renders, End(r)
  PROVE  Becomes(r, {"idle"})
  BY CallFacts DEF End, Becomes

LEMMA Fails ==
  ASSUME call \in [Renders -> CallType], NEW r \in Renders, Failed(r)
  PROVE  Becomes(r, {"waiting", "idle"})
<1>1. [call[r] EXCEPT !.fell = TRUE, !.slot = 1] \in CallType
  BY CallFacts
<1>2. WaitFor(r, [call[r] EXCEPT !.fell = TRUE, !.slot = 1]) => Becomes(r, {"waiting"})
  BY <1>1, Waits
<1>3. End(r) => Becomes(r, {"idle"})
  BY Ends
<1> QED
  BY <1>2, <1>3 DEF Failed, Becomes

(* A render that takes no permit leaves no more of them taken; and one     *)
(* that takes a permit takes one.                                          *)
LEMMA PermitsAreKept ==
  ASSUME RenderInv, NEW r \in Renders, NEW where, Becomes(r, where), stuck' \in Nat,
         \/ where \cap {"queued", "running"} = {}
         \/ call[r].at \in {"queued", "running"}
         \/ InFlight < Pool
  PROVE  RenderInv'
<1>1. IsFiniteSet(InFlightRenders) /\ IsFiniteSet(InFlightRenders')
  <2>1. InFlightRenders \subseteq Renders /\ InFlightRenders' \subseteq Renders
    BY DEF InFlightRenders, At
  <2> QED
    BY <2>1, FS_Subset, RenderingAssumption
<1>2. Cardinality(InFlightRenders) \in Nat /\ Cardinality(InFlightRenders') \in Nat /\ Pool \in Nat
  BY <1>1, FS_CardinalityType, RenderingAssumption
<1>3. Cardinality(InFlightRenders') <= Pool
  <2>1. CASE InFlightRenders' \subseteq InFlightRenders
    <3>1. Cardinality(InFlightRenders') <= Cardinality(InFlightRenders)
      BY <1>1, <2>1, FS_Subset
    <3> QED
      BY <1>2, <3>1 DEF RenderInv
  <2>2. CASE ~(InFlightRenders' \subseteq InFlightRenders)
    <3>1. r \in InFlightRenders' /\ r \notin InFlightRenders
      BY <2>2 DEF Becomes, InFlightRenders, At
    <3>2. InFlight < Pool
      BY <3>1 DEF Becomes, InFlightRenders, At
    <3>3. InFlightRenders' = InFlightRenders \cup {r}
      BY <3>1 DEF Becomes, InFlightRenders, At
    <3>4. Cardinality(InFlightRenders') = Cardinality(InFlightRenders) + 1
      BY <1>1, <3>1, <3>3, FS_AddElement
    <3>5. Cardinality(InFlightRenders) < Pool
      BY <3>2 DEF InFlight, InFlightRenders
    <3> QED
      BY <1>2, <3>4, <3>5
  <2> QED
    BY <2>1, <2>2
<1> QED
  BY <1>3 DEF RenderInv, Becomes

LEMMA RenderInvariance == RenderSpec => []RenderInv
<1>1. RenderInit => RenderInv
  <2> SUFFICES ASSUME RenderInit PROVE RenderInv
    OBVIOUS
  <2>1. InFlightRenders = {}
    BY CallFacts DEF RenderInit, InFlightRenders, At
  <2>2. Cardinality(InFlightRenders) = 0
    BY <2>1, FS_EmptySet
  <2>3. call \in [Renders -> CallType] /\ stuck \in Nat
    BY CallFacts DEF RenderInit
  <2>4. 0 <= Pool
    BY RenderingAssumption
  <2> QED
    BY <2>2, <2>3, <2>4 DEF RenderInv
<1>2. RenderInv /\ [RenderNext]_renderVars => RenderInv'
  <2> SUFFICES ASSUME RenderInv, [RenderNext]_renderVars PROVE RenderInv'
    OBVIOUS
  <2>0. call \in [Renders -> CallType] /\ stuck \in Nat
    BY DEF RenderInv
  <2>1. ASSUME NEW r \in Renders, Ask(r) PROVE RenderInv'
    <3>1. Becomes(r, {"waiting"})
      BY <2>0, <2>1, CallFacts, Waits DEF Ask
    <3> QED
      BY <2>0, <2>1, <3>1, PermitsAreKept DEF Ask
  <2>2. ASSUME NEW r \in Renders, Submit(r) PROVE RenderInv'
    <3>1. PICK source \in Sources :
            call' = [call EXCEPT ![r] = [call[r] EXCEPT !.at = "queued", !.source = source]]
      BY <2>0, <2>2 DEF Submit
    <3>2. /\ [call[r] EXCEPT !.at = "queued", !.source = source] \in CallType
          /\ [call[r] EXCEPT !.at = "queued", !.source = source].at = "queued"
      <4>1. call[r] \in CallType
        BY <2>0
      <4> QED
        BY <4>1 DEF CallType
    <3>3. Becomes(r, {"queued"})
      BY <2>0, <3>1, <3>2 DEF Becomes
    <3> QED
      BY <2>0, <2>2, <3>3, PermitsAreKept DEF Submit
  <2>3. ASSUME NEW r \in Renders, Start(r) PROVE RenderInv'
    <3>1. Becomes(r, {"running"})
      BY <2>0, <2>3, CallFacts DEF Start, Becomes
    <3> QED
      BY <2>0, <2>3, <3>1, PermitsAreKept DEF Start
  <2>4. ASSUME NEW r \in Renders, Rendered(r) PROVE RenderInv'
    <3>1. CASE call[r].slot < Slots
      <4>1. Becomes(r, {"waiting"})
        BY <2>0, <2>4, <3>1, CallFacts, Waits DEF Rendered
      <4> QED
        BY <2>0, <2>4, <4>1, PermitsAreKept DEF Rendered
    <3>2. CASE ~(call[r].slot < Slots)
      <4>1. Becomes(r, {"idle"})
        BY <2>0, <2>4, <3>2, Ends DEF Rendered
      <4> QED
        BY <2>0, <2>4, <4>1, PermitsAreKept DEF Rendered
    <3> QED
      BY <3>1, <3>2
  <2>5. ASSUME NEW r \in Renders, Raise(r) PROVE RenderInv'
    BY <2>0, <2>5, Fails, PermitsAreKept DEF Raise
  <2>6. ASSUME NEW r \in Renders, GiveUp(r) PROVE RenderInv'
    BY <2>0, <2>6, Fails, PermitsAreKept DEF GiveUp
  <2>7. ASSUME NEW r \in Renders, ExpireInQueue(r) PROVE RenderInv'
    BY <2>0, <2>7, Fails, PermitsAreKept DEF ExpireInQueue
  <2>8. CASE Unstick
    BY <2>8 DEF Unstick, RenderInv, InFlightRenders, At
  <2>9. CASE UNCHANGED renderVars
    BY <2>9 DEF renderVars, RenderInv, InFlightRenders, At
  <2> QED
    BY <2>1, <2>2, <2>3, <2>4, <2>5, <2>6, <2>7, <2>8, <2>9 DEF RenderNext, RenderStep
<1> QED
  BY <1>1, <1>2, PTL DEF RenderSpec

(* For any pool and any number of renders: one is given up before a thread *)
(* took it only when threads are held by renders that hung.                *)
THEOREM TimeoutMeasuresExecution == RenderSpec => OnlyHungRendersCost
<1>1. ASSUME RenderInv, RenderNext, NEW r \in Renders,
             call[r].at = "queued", call'[r].at \in {"waiting", "idle"}
      PROVE  stuck > 0
  <2>0. call \in [Renders -> CallType] /\ stuck \in Nat
    BY <1>1 DEF RenderInv
  <2>1. ASSUME NEW q \in Renders, NEW where, Becomes(q, where) PROVE q = r
    BY <1>1, <2>1 DEF Becomes
  <2>2. ASSUME NEW q \in Renders, Ask(q) PROVE FALSE
    <3>1. Becomes(q, {"waiting"})
      BY <2>0, <2>2, CallFacts, Waits DEF Ask
    <3> QED
      BY <1>1, <2>1, <2>2, <3>1 DEF Ask
  <2>3. ASSUME NEW q \in Renders, Submit(q) PROVE FALSE
    BY <1>1, <2>0, <2>3 DEF Submit, CallType
  <2>4. ASSUME NEW q \in Renders, Start(q) PROVE FALSE
    BY <1>1, <2>0, <2>4 DEF Start, CallType
  <2>5. ASSUME NEW q \in Renders, Rendered(q) PROVE FALSE
    <3>1. Becomes(q, {"waiting"}) \/ Becomes(q, {"idle"})
      BY <2>0, <2>5, CallFacts, Waits, Ends DEF Rendered
    <3> QED
      BY <1>1, <2>1, <2>5, <3>1 DEF Rendered
  <2>6. ASSUME NEW q \in Renders, Raise(q) \/ GiveUp(q) PROVE FALSE
    <3>1. Becomes(q, {"waiting", "idle"}) /\ call[q].at = "running"
      BY <2>0, <2>6, Fails DEF Raise, GiveUp
    <3> QED
      BY <1>1, <2>1, <3>1
  <2>7. ASSUME NEW q \in Renders, ExpireInQueue(q) PROVE stuck > 0
    <3>1. IsFiniteSet(InFlightRenders) /\ IsFiniteSet(At("running"))
      <4>1. InFlightRenders \subseteq Renders /\ At("running") \subseteq Renders
        BY DEF InFlightRenders, At
      <4> QED
        BY <4>1, FS_Subset, RenderingAssumption
    <3>2. /\ Cardinality(InFlightRenders) \in Nat /\ Cardinality(At("running")) \in Nat
          /\ Pool \in Nat
      BY <3>1, FS_CardinalityType, RenderingAssumption
    <3>3. q \in InFlightRenders /\ q \notin At("running") /\ At("running") \subseteq InFlightRenders
      BY <2>7 DEF ExpireInQueue, InFlightRenders, At
    <3>4. Cardinality(At("running")) < Cardinality(InFlightRenders)
      <4>1. /\ Cardinality(At("running")) <= Cardinality(InFlightRenders)
            /\ Cardinality(At("running")) = Cardinality(InFlightRenders)
                 => At("running") = InFlightRenders
        BY <3>1, <3>3, FS_Subset
      <4> QED
        BY <3>2, <3>3, <4>1
    <3>5. Pool - stuck - Cardinality(At("running")) = 0
      BY <2>7 DEF ExpireInQueue, IdleThreads
    <3>6. Cardinality(InFlightRenders) <= Pool
      BY <1>1 DEF RenderInv
    <3> QED
      BY <2>0, <3>2, <3>4, <3>5, <3>6
  <2>8. ASSUME Unstick PROVE FALSE
    BY <1>1, <2>8 DEF Unstick
  <2> QED
    BY <1>1, <2>2, <2>3, <2>4, <2>5, <2>6, <2>7, <2>8 DEF RenderNext, RenderStep
<1>2. RenderInv /\ [RenderNext]_renderVars =>
        [\A r \in Renders :
           call[r].at = "queued" /\ call'[r].at \in {"waiting", "idle"} => stuck > 0]_renderVars
  BY <1>1
<1> QED
  BY <1>2, RenderInvariance, PTL DEF RenderSpec, OnlyHungRendersCost

-----------------------------------------------------------------------------
(* The deadman switch.  No lock protects the row of the cluster; what the  *)
(* invariant says is why stale reads do no harm as long as transactions    *)
(* are short: whoever holds one can only have been overtaken by a          *)
(* heartbeat, and right after a heartbeat nothing is overdue.              *)

Resets == admin # NoUpdate /\ admin.resets

(* The sweep is about to declare missing only what is still 'ok', and no   *)
(* update is about to reset it.                                            *)
SweepIsCurrent == sweep => (state = "ok" /\ ~Resets)

(* An update that will reset a missing cluster, or a webhook that has read *)
(* 'unknown', has been overtaken by a heartbeat at most.                   *)
UpdateIsCurrent == Resets => (state = "missing" \/ age = 0)

BeatIsCurrent ==
  \A b \in Beats : beat[b] = "unknown" =>
    /\ ~sweep
    /\ state = "unknown" \/ (state = "ok" /\ age = 0)

OkIsUnalarmed == state = "ok" => alarms = 0

HeartbeatInv ==
  /\ TypeOK
  /\ MissingMeansOneIncident
  /\ OneAlarmPerOutage
  /\ SweepIsCurrent
  /\ UpdateIsCurrent
  /\ BeatIsCurrent
  /\ OkIsUnalarmed

USE DEF States, Fields, NoUpdate, Resets

LEMMA HeartbeatInit == Init => HeartbeatInv
<1> SUFFICES ASSUME Init PROVE HeartbeatInv
    OBVIOUS
<1> USE HeartbeatAssumption DEF Init
<1>1. TypeOK
  <2>1. /\ enabled \in BOOLEAN /\ tracked \in BOOLEAN /\ named \in BOOLEAN
        /\ sweep \in BOOLEAN
        OBVIOUS
  <2>2. state \in States /\ beat \in [Beats -> States \cup {"none"}]
        OBVIOUS
  <2>3. age \in 0..(Timeout + 1) /\ open \in Nat /\ alarms \in Nat
        OBVIOUS
  <2>4. faults \in 0..MaxFaults /\ edits \in 0..MaxEdits
        OBVIOUS
  <2> QED
      BY <2>1, <2>2, <2>3, <2>4 DEF TypeOK
<1>2. /\ MissingMeansOneIncident
      /\ OneAlarmPerOutage
      /\ OkIsUnalarmed
      BY DEF MissingMeansOneIncident, OneAlarmPerOutage, OkIsUnalarmed
<1>3. /\ SweepIsCurrent
      /\ UpdateIsCurrent
      /\ BeatIsCurrent
      BY DEF SweepIsCurrent, UpdateIsCurrent, BeatIsCurrent
<1> QED
    BY <1>1, <1>2, <1>3 DEF HeartbeatInv

(* Each step on its own: the invariant is disturbed where one transaction  *)
(* overtakes another.                                                      *)
LEMMA HeartbeatNext == HeartbeatInv /\ [Next]_vars => HeartbeatInv'
<1> SUFFICES ASSUME HeartbeatInv, [Next]_vars PROVE HeartbeatInv'
    OBVIOUS
<1> USE HeartbeatAssumption
    DEF HeartbeatInv, TypeOK, MissingMeansOneIncident, OneAlarmPerOutage, SweepIsCurrent,
        UpdateIsCurrent, BeatIsCurrent, OkIsUnalarmed
<1>1. ASSUME NEW b \in Beats, Receive(b) PROVE HeartbeatInv'
      BY <1>1 DEF Receive
<1>2. ASSUME NEW b \in Beats, CommitBeat(b) PROVE HeartbeatInv'
      BY <1>2 DEF CommitBeat
<1>3. ASSUME NEW b \in Beats, AbortBeat(b) PROVE HeartbeatInv'
      BY <1>3 DEF AbortBeat
<1>4. CASE Look
      BY <1>4 DEF Look, Overdue
<1>5. CASE DeclareMissing
  <2> USE <1>5 DEF DeclareMissing
  <2>1. TypeOK'
    <3>1. sweep' \in BOOLEAN
          BY Zenon
    <3>2. state' \in States /\ open' \in Nat /\ alarms' \in Nat
          OBVIOUS
    <3> QED
        BY <3>1, <3>2, Zenon
  <2>2. /\ MissingMeansOneIncident'
        /\ OneAlarmPerOutage'
        /\ OkIsUnalarmed'
        OBVIOUS
  <2>3. UpdateIsCurrent' /\ SweepIsCurrent'
        OBVIOUS
  <2>4. BeatIsCurrent'
        OBVIOUS
  <2> QED
      BY <2>1, <2>2, <2>3, <2>4
<1>6. CASE FailSweep
  <2> USE <1>6 DEF FailSweep
  <2>1. TypeOK'
    <3>1. sweep' \in BOOLEAN
          BY Zenon
    <3>2. faults' \in 0..MaxFaults
          OBVIOUS
    <3> QED
        BY <3>1, <3>2, Zenon
  <2>2. /\ MissingMeansOneIncident'
        /\ OneAlarmPerOutage'
        /\ OkIsUnalarmed'
        OBVIOUS
  <2>3. UpdateIsCurrent' /\ SweepIsCurrent'
        OBVIOUS
  <2>4. BeatIsCurrent'
        OBVIOUS
  <2> QED
      BY <2>1, <2>2, <2>3, <2>4
<1>7. ASSUME NEW f \in Fields, NEW v \in BOOLEAN, BeginUpdate(f, v) PROVE HeartbeatInv'
  <2> USE <1>7 DEF BeginUpdate
  <2>1. admin' \in [field : Fields, value : BOOLEAN, resets : BOOLEAN]
        OBVIOUS
  <2>2. edits' \in 0..MaxEdits
        OBVIOUS
  <2>3. TypeOK'
        BY <2>1, <2>2
  <2>4. /\ MissingMeansOneIncident'
        /\ OneAlarmPerOutage'
        /\ OkIsUnalarmed'
        OBVIOUS
  <2>5. UpdateIsCurrent' /\ SweepIsCurrent'
        OBVIOUS
  <2>6. BeatIsCurrent'
        OBVIOUS
  <2> QED
      BY <2>3, <2>4, <2>5, <2>6
<1>8. CASE CommitUpdate
      BY <1>8 DEF CommitUpdate
<1>9. CASE Tick
      BY <1>9 DEF Tick, Quiescent
<1>10. CASE UNCHANGED vars
      BY <1>10 DEF vars
<1> QED
    BY <1>1, <1>2, <1>3, <1>4, <1>5, <1>6, <1>7, <1>8, <1>9, <1>10 DEF Next, SweepStep

(* Every reachable state is well typed.                                    *)
THEOREM HeartbeatTypeCorrect == Spec => []TypeOK
<1>1. HeartbeatInv => TypeOK
      BY DEF HeartbeatInv
<1> QED
    BY <1>1, HeartbeatInit, HeartbeatNext, PTL DEF Spec

(* The state of the cluster and its synthetic alert agree in every         *)
(* interleaving of heartbeats, sweep and updates, and there is never a     *)
(* second open incident.                                                   *)
THEOREM StateAndIncidentAgree == Spec => []MissingMeansOneIncident
<1>1. HeartbeatInv => MissingMeansOneIncident
      BY DEF HeartbeatInv
<1> QED
    BY <1>1, HeartbeatInit, HeartbeatNext, PTL DEF Spec

(* Between two heartbeats a cluster raises no second alarm, whatever an    *)
(* administrator does to it.                                               *)
THEOREM NoSecondAlarm == Spec => []OneAlarmPerOutage
<1>1. HeartbeatInv => OneAlarmPerOutage
      BY DEF HeartbeatInv
<1> QED
    BY <1>1, HeartbeatInit, HeartbeatNext, PTL DEF Spec
=============================================================================
