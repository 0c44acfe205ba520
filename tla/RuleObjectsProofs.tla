-------------------------- MODULE RuleObjectsProofs --------------------------
(***************************************************************************)
(* The guard on the rule objects, for any number of names, requests and    *)
(* changes by others.                                                      *)
(*                                                                         *)
(* A request looks at the labels of an object when it reads it, and writes *)
(* later.  What keeps a relabelled object safe in between is the version:  *)
(* an object of the version that was read has the labels that were read.   *)
(***************************************************************************)
EXTENDS RuleObjects, TLAPS

(* Versions only grow, so a version that was read does not come back.      *)
ReadVersionsAreOwned ==
  \A h \in Requests :
    Calling(h) /\ request[h].call.version # Unread =>
      LET c == request[h].call IN
        /\ c.version <= version[c.place]
        /\ c.version = version[c.place] => owner[c.place] = "team"

LEMMA TypeInit == Init => TypeOK
BY RuleObjectsAssumption DEF Init, TypeOK, Owners, Calling, Active

(* A call leaves the requests well typed.                                  *)
LEMMA CallType ==
  ASSUME TypeOK, NEW h \in Requests, Active(h), NEW p \in Places, NEW q \in Places,
         NEW verb \in {"create", "replace", "delete"}, Call(h, p, verb, q)
  PROVE  /\ request' \in [Requests -> RequestType \cup {NoRequest}]
         /\ \A g \in Requests : Calling(g)' => request'[g].call.place \in request'[g].taken
<1> DEFINE c == [verb |-> verb, place |-> q, version |-> Unread]
           r == [request[h] EXCEPT !.todo = @ \ {p}, !.taken = @ \cup {q}, !.call = c]
<1>1. request[h] \in RequestType
      BY DEF TypeOK, Active
<1>2. c \in Calls
      BY DEF Calls
<1>3. r \in RequestType
      BY <1>1, <1>2 DEF RequestType
<1>4. request' = [request EXCEPT ![h] = r]
      BY DEF Call, TypeOK
<1> HIDE DEF c
<1>5. request' \in [Requests -> RequestType \cup {NoRequest}]
      BY <1>3, <1>4 DEF TypeOK
<1>6. ASSUME NEW g \in Requests, Calling(g)'
      PROVE  request'[g].call.place \in request'[g].taken
  <2>1. CASE g = h
        BY <2>1, <1>4 DEF TypeOK, c
  <2>2. CASE g # h
        BY <2>2, <1>4, <1>6 DEF TypeOK, Calling, Active
  <2> QED
      BY <2>1, <2>2
<1> QED
    BY <1>5, <1>6

(* A decision makes a call or leaves the calls alone.                      *)
LEMMA DecisionShape ==
  ASSUME NEW h \in Requests, NEW p \in Places, Decide(h, p)
  PROVE  \/ \E q \in Places, verb \in {"create", "replace", "delete"} : Call(h, p, verb, q)
         \/ \E S \in SUBSET Places :
              request' = [request EXCEPT ![h].todo = @ \ {p}, ![h].taken = @ \cup S]
         \/ request' = [request EXCEPT ![h].todo = @ \ {p}]
<1>1. {p} \in SUBSET Places
      OBVIOUS
<1> QED
    BY <1>1 DEF Decide

LEMMA TypeNext == TypeOK /\ [Next]_vars => TypeOK'
<1> SUFFICES ASSUME TypeOK, [Next]_vars PROVE TypeOK'
    OBVIOUS
<1> USE RuleObjectsAssumption DEF TypeOK, Active, Calling, Return, NoRequest, NoCall
<1>1. ASSUME NEW h \in Requests, NEW op \in Operations \ {"delete_team"},
             NEW S \in SUBSET Places, Begin(h, op, S)
      PROVE  TypeOK'
      BY <1>1 DEF Begin, RequestType
<1>2. ASSUME NEW h \in Requests, BeginTeamDeletion(h) PROVE TypeOK'
      BY <1>2 DEF BeginTeamDeletion, RequestType, Owned, Operations
<1>3. ASSUME NEW h \in Requests, NEW p \in Places, Decide(h, p) PROVE TypeOK'
  <2>1. \/ \E q \in Places, verb \in {"create", "replace", "delete"} : Call(h, p, verb, q)
        \/ \E S \in SUBSET Places :
             request' = [request EXCEPT ![h].todo = @ \ {p}, ![h].taken = @ \cup S]
        \/ request' = [request EXCEPT ![h].todo = @ \ {p}]
        BY <1>3, DecisionShape
  <2>2. CASE \E q \in Places, verb \in {"create", "replace", "delete"} : Call(h, p, verb, q)
    <3>1. PICK q \in Places, verb \in {"create", "replace", "delete"} : Call(h, p, verb, q)
          BY <2>2
    <3>2. /\ request' \in [Requests -> RequestType \cup {NoRequest}]
          /\ \A g \in Requests : Calling(g)' => request'[g].call.place \in request'[g].taken
          BY <1>3, <3>1, CallType DEF Decide
    <3> QED
        BY <1>3, <3>2 DEF Decide
  <2>3. CASE \E S \in SUBSET Places :
               request' = [request EXCEPT ![h].todo = @ \ {p}, ![h].taken = @ \cup S]
        BY <1>3, <2>3 DEF Decide, RequestType
  <2>4. CASE request' = [request EXCEPT ![h].todo = @ \ {p}]
        BY <1>3, <2>4 DEF Decide, RequestType
  <2> QED
      BY <2>1, <2>2, <2>3, <2>4
<1>4. ASSUME NEW h \in Requests, Read(h) PROVE TypeOK'
      BY <1>4 DEF Read, RequestType, Calls
<1>5. ASSUME NEW h \in Requests, Create(h) PROVE TypeOK'
      BY <1>5 DEF Create, Write, RequestType, Calls, Owners
<1>6. ASSUME NEW h \in Requests, Change(h) PROVE TypeOK'
      BY <1>6 DEF Change, Write, RequestType, Calls, Owners
<1>7. ASSUME NEW h \in Requests, Refuse(h) PROVE TypeOK'
      BY <1>7 DEF Refuse, RequestType, Calls
<1>8. ASSUME NEW h \in Requests, Unreachable(h) PROVE TypeOK'
      BY <1>8 DEF Unreachable, RequestType
<1>9. ASSUME NEW h \in Requests, Finish(h) PROVE TypeOK'
      BY <1>9 DEF Finish
<1>10. ASSUME NEW p \in Places, NEW o \in Owners, Edit(p, o) PROVE TypeOK'
      BY <1>10 DEF Edit, Write
<1>11. CASE UNCHANGED vars
      BY <1>11 DEF vars
<1> QED
    BY <1>1, <1>2, <1>3, <1>4, <1>5, <1>6, <1>7, <1>8, <1>9, <1>10, <1>11 DEF Next, Step

(* Every reachable state is well typed; in particular a request has always *)
(* claimed the name it is writing to.                                      *)
THEOREM TypeCorrect == Spec => []TypeOK
BY TypeInit, TypeNext, PTL DEF Spec

-----------------------------------------------------------------------------
(* Foreign objects.                                                        *)

LEMMA ReadInit == Init => ReadVersionsAreOwned
BY DEF Init, ReadVersionsAreOwned, Calling, Active

(* What the invariant says of a call is kept by every step that leaves the *)
(* call as it is and writes objects only under a new version.              *)
LEMMA ReadStays ==
  ASSUME TypeOK, ReadVersionsAreOwned,
         NEW h \in Requests, Calling(h), request'[h].call = request[h].call,
         \A p \in Places : \/ version'[p] = version[p] /\ owner'[p] = owner[p]
                          \/ version'[p] = version[p] + 1,
         request[h].call.version # Unread
  PROVE  LET c == request'[h].call IN
           /\ c.version <= version'[c.place]
           /\ c.version = version'[c.place] => owner'[c.place] = "team"
<1> DEFINE c == request[h].call
<1>1. c \in Calls
      BY DEF TypeOK, Calling, Active, RequestType
<1>2. /\ c.place \in Places /\ c.version \in Nat
      /\ version[c.place] \in Nat
      BY <1>1 DEF Calls, TypeOK
<1>3. /\ c.version <= version[c.place]
      /\ c.version = version[c.place] => owner[c.place] = "team"
      BY DEF ReadVersionsAreOwned
<1> HIDE DEF c
<1>4. /\ c.version <= version'[c.place]
      /\ c.version = version'[c.place] => owner'[c.place] = "team"
      BY <1>2, <1>3
<1> QED
    BY <1>4 DEF c

(* Every step writes objects only under a new version.                     *)
LEMMA NewVersions ==
  ASSUME TypeOK, [Next]_vars
  PROVE  \A p \in Places : \/ version'[p] = version[p] /\ owner'[p] = owner[p]
                          \/ version'[p] = version[p] + 1
<1>1. ASSUME NEW q \in Places, NEW o \in Owners, Write(q, o)
      PROVE  \A p \in Places : \/ version'[p] = version[p] /\ owner'[p] = owner[p]
                              \/ version'[p] = version[p] + 1
      BY <1>1 DEF Write, TypeOK
<1>2. ASSUME NEW h \in Requests, Create(h) \/ Change(h)
      PROVE  \E q \in Places, o \in Owners : Write(q, o)
  <2>1. request[h].call.place \in Places
        BY <1>2 DEF Create, Change, Calling, Active, RequestType, Calls, TypeOK
  <2> QED
      BY <1>2, <2>1 DEF Create, Change, Owners
<1>3. ASSUME NEW p \in Places, NEW o \in Owners, Edit(p, o)
      PROVE  \E q \in Places, u \in Owners : Write(q, u)
      BY <1>3 DEF Edit
<1>4. ASSUME NEW h \in Requests, NEW op \in Operations, NEW S \in SUBSET Places, Begin(h, op, S)
      PROVE  UNCHANGED <<owner, version>>
      BY <1>4, Zenon DEF Begin
<1>5. ASSUME NEW h \in Requests, BeginTeamDeletion(h)
      PROVE  UNCHANGED <<owner, version>>
      BY <1>5, Zenon DEF BeginTeamDeletion
<1>6. ASSUME NEW h \in Requests,
             \/ \E p \in Places : Decide(h, p)
             \/ Read(h) \/ Refuse(h) \/ Unreachable(h) \/ Finish(h)
      PROVE  UNCHANGED <<owner, version>>
  <2>1. CASE \E p \in Places : Decide(h, p)
        BY <2>1, Zenon DEF Decide
  <2>2. CASE Read(h)
        BY <2>2, Zenon DEF Read
  <2>3. CASE Refuse(h)
        BY <2>3, Zenon DEF Refuse
  <2>4. CASE Unreachable(h)
        BY <2>4, Zenon DEF Unreachable
  <2>5. CASE Finish(h)
        BY <2>5, Zenon DEF Finish
  <2> QED
      BY <1>6, <2>1, <2>2, <2>3, <2>4, <2>5
<1>7. (UNCHANGED <<owner, version>>) \/ (\E q \in Places, o \in Owners : Write(q, o))
  <2>1. CASE \E h \in Requests : Step(h)
    <3> PICK h \in Requests : Step(h)
        BY <2>1
    <3> QED
        BY <1>2, <1>6 DEF Step
  <2>2. CASE \E h \in Requests :
               (\E op \in Operations \ {"delete_team"}, S \in SUBSET Places : Begin(h, op, S))
                 \/ BeginTeamDeletion(h)
        BY <1>4, <1>5, <2>2
  <2>3. CASE \E p \in Places, o \in Owners : Edit(p, o)
        BY <1>3, <2>3
  <2>4. CASE UNCHANGED vars
        BY <2>4 DEF vars
  <2> QED
      BY <2>1, <2>2, <2>3, <2>4, Zenon DEF Next
<1> QED
    BY <1>1, <1>7

LEMMA ReadNext == TypeOK /\ TypeOK' /\ ReadVersionsAreOwned /\ [Next]_vars => ReadVersionsAreOwned'
<1> SUFFICES ASSUME TypeOK, TypeOK', ReadVersionsAreOwned, [Next]_vars,
                    NEW g \in Requests, Calling(g)', request'[g].call.version # Unread
             PROVE  LET c == request'[g].call IN
                      /\ c.version <= version'[c.place]
                      /\ c.version = version'[c.place] => owner'[c.place] = "team"
    BY DEF ReadVersionsAreOwned
<1>1. CASE Calling(g) /\ request'[g].call = request[g].call
      BY <1>1, NewVersions, ReadStays
<1>2. CASE Read(g)
  <2>1. request[g] \in RequestType /\ request[g].call \in Calls
        BY <1>2 DEF Read, TypeOK, Calling, Active, RequestType
  <2>2. CASE owner[request[g].call.place] = "team"
    <3>1. /\ request'[g].call.version = version[request[g].call.place]
          /\ request'[g].call.place = request[g].call.place
          /\ version' = version /\ owner' = owner
          BY <1>2, <2>1, <2>2 DEF Read, TypeOK, RequestType, Calls
    <3>2. version[request[g].call.place] \in Nat
          BY <2>1 DEF TypeOK, Calls
    <3> QED
        BY <3>1, <3>2, <2>2
  <2>3. CASE owner[request[g].call.place] # "team"
        BY <1>2, <2>1, <2>3 DEF Read, Return, TypeOK, RequestType, Calling
  <2> QED
      BY <2>2, <2>3
<1>3. (Calling(g) /\ request'[g].call = request[g].call) \/ Read(g)
  <2> USE DEF TypeOK, Calling, Active, RequestType
  <2>1. ASSUME NEW h \in Requests, NEW op \in Operations \ {"delete_team"},
               NEW S \in SUBSET Places, Begin(h, op, S)
        PROVE  request'[g].call = request[g].call /\ Calling(g)
        BY <2>1 DEF Begin
  <2>2. ASSUME NEW h \in Requests, BeginTeamDeletion(h)
        PROVE  request'[g].call = request[g].call /\ Calling(g)
        BY <2>2 DEF BeginTeamDeletion
  <2>3. ASSUME NEW h \in Requests, NEW p \in Places, Decide(h, p)
        PROVE  request'[g].call = request[g].call /\ Calling(g)
    <3>1. CASE g # h
          BY <2>3, <3>1 DEF Decide, Call
    <3>2. CASE g = h
      <4>1. request[h] \in RequestType /\ request[h].call = NoCall
            BY <2>3 DEF Decide
      <4>2. request'[h].call.version = Unread \/ request'[h].call = NoCall
        <5>1. CASE \E q \in Places, verb \in {"create", "replace", "delete"} :
                      Call(h, p, verb, q)
              BY <4>1, <5>1 DEF Call
        <5>2. CASE \/ \E S \in SUBSET Places :
                        request' = [request EXCEPT ![h].todo = @ \ {p}, ![h].taken = @ \cup S]
                   \/ request' = [request EXCEPT ![h].todo = @ \ {p}]
              BY <4>1, <5>2
        <5> QED
            BY <2>3, <5>1, <5>2, DecisionShape
      <4> QED
          BY <3>2, <4>2
    <3> QED
        BY <3>1, <3>2
  <2>4. ASSUME NEW h \in Requests, Read(h), h # g
        PROVE  request'[g].call = request[g].call /\ Calling(g)
        BY <2>4 DEF Read, Return
  <2>5. ASSUME NEW h \in Requests, Create(h) \/ Change(h) \/ Refuse(h)
        PROVE  request'[g].call = request[g].call /\ Calling(g)
        BY <2>5 DEF Create, Change, Refuse, Return
  <2>6. ASSUME NEW h \in Requests, Unreachable(h) \/ Finish(h)
        PROVE  request'[g].call = request[g].call /\ Calling(g)
        BY <2>6 DEF Unreachable, Finish
  <2>7. ASSUME request' = request
        PROVE  request'[g].call = request[g].call /\ Calling(g)
        BY <2>7
  <2> QED
      BY <2>1, <2>2, <2>3, <2>4, <2>5, <2>6, <2>7 DEF Next, Step, Edit, vars
<1> QED
    BY <1>1, <1>2, <1>3

(* A step that writes a foreign object is one of the others.               *)
LEMMA ForeignStep ==
  TypeOK /\ ReadVersionsAreOwned /\ [Next]_vars =>
    [\A p \in Places :
       owner[p] = "other" /\ version'[p] # version[p] => edits' # edits]_vars
<1> SUFFICES ASSUME TypeOK, ReadVersionsAreOwned, [Next]_vars,
                    NEW p \in Places, owner[p] = "other", version'[p] # version[p]
             PROVE  edits' # edits
    OBVIOUS
<1> USE DEF TypeOK
<1>1. ASSUME NEW h \in Requests, Create(h) PROVE FALSE
  <2>1. request[h].call.place \in Places
        BY <1>1 DEF Create, Calling, Active, RequestType, Calls
  <2> QED
      BY <1>1, <2>1 DEF Create, Write
<1>2. ASSUME NEW h \in Requests, Change(h) PROVE FALSE
  <2>1. request[h].call.place \in Places
        BY <1>2 DEF Change, Calling, Active, RequestType, Calls
  <2>2. owner[request[h].call.place] = "team"
        BY <1>2 DEF Change, Unchanged, ReadVersionsAreOwned
  <2> QED
      BY <1>2, <2>1, <2>2 DEF Change, Write
<1>3. ASSUME NEW q \in Places, NEW o \in Owners, Edit(q, o) PROVE edits' # edits
      BY <1>3 DEF Edit
<1>4. ASSUME version' = version PROVE FALSE
      BY <1>4
<1> QED
    BY <1>1, <1>2, <1>3, <1>4 DEF Next, Step, Begin, BeginTeamDeletion, Decide, Read,
       Refuse, Unreachable, Finish, vars

(* No interleaving makes a request change an object whose labels do not    *)
(* name the team, not even one relabelled while the request was under way. *)
THEOREM ForeignObjectsAreSafe == Spec => ForeignUntouched
<1>1. Init => TypeOK /\ ReadVersionsAreOwned
      BY TypeInit, ReadInit
<1>2. (TypeOK /\ ReadVersionsAreOwned) /\ [Next]_vars => (TypeOK /\ ReadVersionsAreOwned)'
      BY TypeNext, ReadNext
<1> QED
    BY <1>1, <1>2, ForeignStep, PTL DEF Spec, ForeignUntouched

-----------------------------------------------------------------------------
(* The deletion of the team.                                               *)

Called(h) == IF Calling(h) THEN {request[h].call.place} ELSE {}

IsTeamDeletion(h) == Active(h) /\ request[h].op = "delete_team"

(* A team deletion knows of every object of the team: it will come to it,  *)
(* is about to delete it, has passed it over, or it was written since.     *)
Accounted(h) ==
  /\ Calling(h) => request[h].call.verb = "delete"
  /\ Owned \subseteq request[h].todo \cup Called(h) \cup skipped \cup late

DeletionInv ==
  /\ DeletionIsComplete
  /\ \A h \in Requests : IsTeamDeletion(h) => Accounted(h)

LEMMA DeletionInit == Init => DeletionInv
BY DEF Init, DeletionInv, DeletionIsComplete, IsTeamDeletion, Active

(* Deleting, with requests that are known to be well typed.                *)
LEMMA TeamDeletionDeletes ==
  ASSUME TypeOK, NEW h \in Requests, IsTeamDeletion(h)
  PROVE  Deleting
BY DEF Deleting, IsTeamDeletion

(* While a team deletion is under way, or after it, an object becomes the  *)
(* team's only by a write that is remembered.                              *)
LEMMA NewlyOwnedIsLate ==
  ASSUME TypeOK, [Next]_vars, Deleting
  PROVE  /\ Owned' \subseteq Owned \cup late'
         /\ late \subseteq late' /\ skipped \subseteq skipped'
<1> USE DEF TypeOK
<1>1. ASSUME NEW p \in Places, NEW o \in Owners, Write(p, o)
      PROVE  Owned' \subseteq Owned \cup late' /\ late \subseteq late'
      BY <1>1 DEF Write, Owned
<1>2. ASSUME NEW h \in Requests, Create(h) \/ Change(h)
      PROVE  \E q \in Places, o \in Owners : Write(q, o)
  <2>1. request[h].call.place \in Places
        BY <1>2 DEF Create, Change, Calling, Active, RequestType, Calls, TypeOK
  <2> QED
      BY <1>2, <2>1 DEF Create, Change, Owners
<1>3. ASSUME NEW p \in Places, NEW o \in Owners, Edit(p, o)
      PROVE  \E q \in Places, u \in Owners : Write(q, u)
      BY <1>3 DEF Edit
<1>4. \/ UNCHANGED <<owner, late>>
      \/ \E q \in Places, o \in Owners : Write(q, o)
  <2>1. ASSUME NEW h \in Requests,
               \/ \E op \in Operations \ {"delete_team"}, S \in SUBSET Places : Begin(h, op, S)
               \/ BeginTeamDeletion(h)
        PROVE  UNCHANGED <<owner, late>>
        BY <2>1, Zenon DEF Begin, BeginTeamDeletion
  <2>2. ASSUME NEW h \in Requests,
               \/ \E p \in Places : Decide(h, p)
               \/ Read(h) \/ Refuse(h) \/ Unreachable(h) \/ Finish(h)
        PROVE  UNCHANGED <<owner, late>>
        BY <2>2, Zenon DEF Decide, Read, Refuse, Unreachable, Finish
  <2>3. CASE UNCHANGED vars
        BY <2>3, Zenon DEF vars
  <2> QED
      BY <1>2, <1>3, <2>1, <2>2, <2>3, Zenon DEF Next, Step
<1>5. skipped \subseteq skipped'
  <2>1. ASSUME NEW h \in Requests, NEW failed \in BOOLEAN, Return(h, failed)
        PROVE  skipped \subseteq skipped'
        BY <2>1 DEF Return
  <2>2. ASSUME NEW h \in Requests, Read(h) \/ Create(h) \/ Change(h) \/ Refuse(h)
        PROVE  skipped \subseteq skipped'
    <3>1. skipped' = skipped \/ \E failed \in BOOLEAN : Return(h, failed)
          BY <2>2 DEF Read, Create, Change, Refuse
    <3> QED
        BY <2>1, <3>1
  <2> QED
      BY <2>2 DEF Next, Step, Begin, BeginTeamDeletion, Decide, Unreachable, Finish, Edit, vars
<1> QED
    BY <1>1, <1>4, <1>5 DEF Owned

(* What a team deletion accounts for stays accounted for while it does     *)
(* nothing itself.                                                         *)
LEMMA OthersStep ==
  ASSUME TypeOK, [Next]_vars, NEW g \in Requests, IsTeamDeletion(g), Accounted(g),
         request'[g] = request[g]
  PROVE  Accounted(g)'
<1>1. /\ Owned' \subseteq Owned \cup late'
      /\ late \subseteq late' /\ skipped \subseteq skipped'
      BY NewlyOwnedIsLate, TeamDeletionDeletes
<1>2. Called(g)' = Called(g) /\ Calling(g)' = Calling(g)
      BY DEF Called, Calling, Active
<1> QED
    BY <1>1, <1>2 DEF Accounted

(* A step of a team deletion accounts for the object it was dealing with.  *)
LEMMA OwnStep ==
  ASSUME TypeOK, TypeOK', NEW g \in Requests, IsTeamDeletion(g), Accounted(g), Step(g),
         IsTeamDeletion(g)'
  PROVE  Accounted(g)'
<1> USE DEF TypeOK, IsTeamDeletion, Active, Calling
<1>0. request[g] \in RequestType /\ request[g].op = "delete_team"
      OBVIOUS
<1>1. ASSUME NEW p \in Places, Decide(g, p) PROVE Accounted(g)'
  <2>1. Call(g, p, "delete", p) /\ UNCHANGED <<owner, skipped, late>>
        BY <1>1, <1>0 DEF Decide, Imports
  <2>2. /\ request'[g].todo = request[g].todo \ {p}
        /\ request'[g].call.place = p /\ request'[g].call.verb = "delete"
        /\ request'[g].call # NoCall
        BY <2>1, <1>0 DEF Call, RequestType, NoCall
  <2>3. Called(g) = {} /\ Called(g)' = {p}
        BY <1>1, <2>2 DEF Called, Decide
  <2> QED
      BY <2>1, <2>2, <2>3 DEF Accounted, Owned
<1>2. ASSUME Return(g, TRUE), Calling(g), UNCHANGED <<owner, late>> PROVE Accounted(g)'
  <2>1. /\ request'[g].todo = request[g].todo /\ request'[g].call = NoCall
        /\ skipped' = skipped \cup {request[g].call.place}
        BY <1>2, <1>0 DEF Return, RequestType
  <2>2. Called(g) = {request[g].call.place} /\ Called(g)' = {}
        BY <1>2, <2>1 DEF Called
  <2> QED
      BY <1>2, <2>1, <2>2 DEF Accounted, Owned
<1>3. ASSUME Return(g, FALSE), Calling(g), late \subseteq late',
             Owned' \subseteq Owned \ {request[g].call.place}
      PROVE  Accounted(g)'
  <2>1. /\ request'[g].todo = request[g].todo /\ request'[g].call = NoCall
        /\ skipped' = skipped
        BY <1>3, <1>0 DEF Return, RequestType
  <2>2. Called(g) = {request[g].call.place} /\ Called(g)' = {}
        BY <1>3, <2>1 DEF Called
  <2> QED
      BY <1>3, <2>1, <2>2 DEF Accounted
<1>4. CASE Read(g)
  <2>1. CASE owner[request[g].call.place] = "team"
    <3>1. /\ request'[g].todo = request[g].todo
          /\ request'[g].call.place = request[g].call.place
          /\ request'[g].call.verb = request[g].call.verb
          /\ UNCHANGED <<owner, skipped, late>>
          BY <1>4, <1>0, <2>1 DEF Read, RequestType, Calls
    <3>2. Called(g)' \subseteq Called(g) /\ Called(g) \subseteq Called(g)'
      <4>1. request'[g].call # NoCall
            BY <1>4, <1>0, <3>1 DEF Read, RequestType, Calls, NoCall
      <4> QED
          BY <1>4, <3>1, <4>1 DEF Called, Read
    <3> QED
        BY <1>4, <3>1, <3>2 DEF Accounted, Owned, Read
  <2>2. CASE owner[request[g].call.place] # "team"
        BY <1>2, <1>4, <2>2 DEF Read
  <2> QED
      BY <2>1, <2>2
<1>5. CASE Create(g)
      BY <1>5, <1>0 DEF Accounted, Create
<1>6. CASE Change(g)
  <2>1. request[g].call.verb = "delete" /\ request[g].call.place \in Places
        BY <1>6, <1>0 DEF Change, Accounted, RequestType, Calls
  <2>2. /\ Owned' \subseteq Owned \ {request[g].call.place}
        /\ late \subseteq late'
        BY <1>6, <2>1 DEF Change, Write, Owned
  <2> QED
      BY <1>3, <1>6, <2>2 DEF Change
<1>7. CASE Refuse(g)
  <2>1. CASE owner[request[g].call.place] = "absent"
    <3>1. Return(g, FALSE) /\ UNCHANGED <<owner, late>>
          BY <1>7, <2>1 DEF Refuse, Accounted
    <3> QED
        BY <1>3, <1>7, <2>1, <3>1 DEF Refuse, Owned
  <2>2. CASE owner[request[g].call.place] # "absent"
        BY <1>2, <1>7, <2>2 DEF Refuse
  <2> QED
      BY <2>1, <2>2
<1>8. CASE Unreachable(g)
      BY <1>8, <1>0 DEF Unreachable, Imports
<1>9. CASE Finish(g)
      BY <1>9 DEF Finish
<1> QED
    BY <1>1, <1>4, <1>5, <1>6, <1>7, <1>8, <1>9 DEF Step

LEMMA DeletionNext == TypeOK /\ TypeOK' /\ DeletionInv /\ [Next]_vars => DeletionInv'
<1> SUFFICES ASSUME TypeOK, TypeOK', DeletionInv, [Next]_vars PROVE DeletionInv'
    OBVIOUS
<1>1. DeletionIsComplete'
  <2>1. CASE team = "deleted"
    <3>1. Deleting
          BY <2>1 DEF Deleting
    <3> QED
        BY <2>1, <3>1, NewlyOwnedIsLate DEF DeletionInv, DeletionIsComplete
  <2>2. CASE team # "deleted"
    <3>1. ASSUME NEW h \in Requests, Finish(h), request[h].op = "delete_team"
          PROVE  DeletionIsComplete'
      <4>1. Accounted(h)
            BY <3>1 DEF DeletionInv, IsTeamDeletion, Finish
      <4>2. request[h].todo = {} /\ Called(h) = {} /\ UNCHANGED <<owner, skipped, late>>
            BY <3>1 DEF Finish, Called
      <4> QED
          BY <4>1, <4>2 DEF Accounted, DeletionIsComplete, Owned
    <3>2. CASE team' = team
          BY <2>2, <3>2 DEF DeletionIsComplete
    <3> QED
        BY <3>1, <3>2 DEF Next, Step, Begin, BeginTeamDeletion, Decide, Read, Create, Change,
           Refuse, Unreachable, Finish, Edit, vars
  <2> QED
      BY <2>1, <2>2
<1>2. ASSUME NEW g \in Requests, IsTeamDeletion(g)' PROVE Accounted(g)'
  <2>1. CASE request'[g] = request[g]
    <3>1. IsTeamDeletion(g)
          BY <1>2, <2>1 DEF IsTeamDeletion, Active
    <3> QED
        BY <2>1, <3>1, OthersStep DEF DeletionInv
  <2>2. CASE Step(g)
    <3>1. IsTeamDeletion(g)
      <4>1. Active(g)
            BY <2>2 DEF Step, Decide, Read, Create, Change, Refuse, Unreachable, Finish,
               Calling
      <4>2. request'[g].op = request[g].op \/ request'[g] = NoRequest
        <5>1. request[g] \in RequestType
              BY <4>1 DEF TypeOK, Active
        <5>2. ASSUME NEW p \in Places, Decide(g, p) PROVE request'[g].op = request[g].op
          <6>1. CASE \E q \in Places, verb \in {"create", "replace", "delete"} :
                        Call(g, p, verb, q)
                BY <5>1, <6>1 DEF Call, TypeOK, RequestType
          <6>2. CASE \E S \in SUBSET Places :
                        request' = [request EXCEPT ![g].todo = @ \ {p}, ![g].taken = @ \cup S]
                BY <5>1, <6>2 DEF TypeOK, RequestType
          <6>3. CASE request' = [request EXCEPT ![g].todo = @ \ {p}]
                BY <5>1, <6>3 DEF TypeOK, RequestType
          <6> QED
              BY <5>2, <6>1, <6>2, <6>3, DecisionShape
        <5>3. CASE Read(g)
              BY <5>1, <5>3 DEF Read, Return, TypeOK, RequestType
        <5>4. CASE Create(g) \/ Change(g) \/ Refuse(g)
              BY <5>1, <5>4 DEF Create, Change, Refuse, Return, TypeOK, RequestType
        <5>5. CASE Unreachable(g) \/ Finish(g)
              BY <5>1, <5>5 DEF Unreachable, Finish, TypeOK, RequestType
        <5> QED
            BY <2>2, <5>2, <5>3, <5>4, <5>5 DEF Step
      <4> QED
          BY <1>2, <4>1, <4>2 DEF IsTeamDeletion, Active
    <3> QED
        BY <1>2, <2>2, <3>1, OwnStep DEF DeletionInv
  <2>3. CASE BeginTeamDeletion(g)
    <3>1. /\ request'[g].todo = Owned /\ request'[g].call = NoCall /\ owner' = owner
          BY <2>3 DEF BeginTeamDeletion, TypeOK
    <3> QED
        BY <3>1 DEF Accounted, Owned, Calling
  <2>4. ASSUME NEW op \in Operations \ {"delete_team"}, NEW S \in SUBSET Places,
               Begin(g, op, S)
        PROVE  FALSE
        BY <1>2, <2>4 DEF Begin, IsTeamDeletion, TypeOK
  <2>5. \/ request'[g] = request[g] \/ Step(g) \/ BeginTeamDeletion(g)
        \/ \E op \in Operations \ {"delete_team"}, S \in SUBSET Places : Begin(g, op, S)
    <3>1. ASSUME NEW h \in Requests, h # g, Step(h)
          PROVE  request'[g] = request[g]
          BY <3>1 DEF Step, Decide, Call, Read, Create, Change, Refuse, Return,
             Unreachable, Finish, TypeOK
    <3>2. ASSUME NEW h \in Requests, h # g, BeginTeamDeletion(h)
          PROVE  request'[g] = request[g]
          BY <3>2 DEF BeginTeamDeletion, TypeOK
    <3>3. ASSUME NEW h \in Requests, h # g, NEW op \in Operations \ {"delete_team"},
                 NEW S \in SUBSET Places, Begin(h, op, S)
          PROVE  request'[g] = request[g]
          BY <3>3 DEF Begin, TypeOK
    <3> QED
        BY <3>1, <3>2, <3>3 DEF Next, Edit, vars
  <2> QED
      BY <2>1, <2>2, <2>3, <2>4, <2>5
<1> QED
    BY <1>1, <1>2 DEF DeletionInv

(* When the team is gone, none of its rules is left that the deletion did  *)
(* not pass over and nobody wrote meanwhile.                               *)
THEOREM DeletionLeavesNothingUnnoticed == Spec => []DeletionIsComplete
<1>1. Init => TypeOK /\ DeletionInv
      BY TypeInit, DeletionInit
<1>2. (TypeOK /\ DeletionInv) /\ [Next]_vars => (TypeOK /\ DeletionInv)'
      BY TypeNext, DeletionNext
<1>3. DeletionInv => DeletionIsComplete
      BY DEF DeletionInv
<1> QED
    BY <1>1, <1>2, <1>3, PTL DEF Spec
=============================================================================
