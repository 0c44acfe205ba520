---------------------------- MODULE ConsoleProofs ----------------------------
(* Proofs about the silences, the memberships and the routing rules, for   *)
(* any number of them, of overlapping requests, and of calls; and about    *)
(* the export of the history, for any table, pages and cap.                *)
EXTENDS Silences, Memberships, RouteConfig, Export, FiniteSetTheorems, TLAPS

-----------------------------------------------------------------------------
(* Silences.                                                               *)

SilencesTypeOK ==
  /\ silence \in [Silences -> {"none", "active", "expired"}]
  /\ attribution \in [Silences -> {"none", "team", "external"}]
  /\ saga \in [Callers -> [at : {"idle", "creating", "recording", "compensating", "expiring"},
                           of : SUBSET Silences]]
  /\ told \in [Silences -> {"nothing", "created", "failed"}]
  /\ stray \subseteq Silences
  /\ teamExists \in BOOLEAN
  /\ calls \in Nat

(* A creation holds one silence, alone, and has not answered for it yet.   *)
Holds(c, s) == saga[c].at \in {"recording", "compensating"} /\ s \in saga[c].of

SagasAreDisjoint ==
  \A c \in Callers : \A s \in Silences : Holds(c, s) =>
    /\ silence[s] # "none" /\ told[s] = "nothing"
    /\ saga[c].of = {s}
    /\ \A d \in Callers : Holds(d, s) => d = c

FreshIsUntold == \A s \in Silences : silence[s] = "none" => told[s] = "nothing"

(* The inductive invariant: the answer that one request gives is about a   *)
(* silence that no other request is creating.                              *)
SilencesInv == SilencesTypeOK /\ SagasAreDisjoint /\ FreshIsUntold /\ SilencesAreOwned

LEMMA SilencesTypeStep ==
  SilencesTypeOK /\ [SilencesNext]_silenceVars => SilencesTypeOK'
<1> SUFFICES ASSUME SilencesTypeOK, [SilencesNext]_silenceVars
             PROVE  SilencesTypeOK'
  OBVIOUS
<1> USE DEF SilencesTypeOK, NoSaga
<1>1. ASSUME NEW c \in Callers, CreateSilence(c) PROVE SilencesTypeOK'
  BY <1>1 DEF CreateSilence, OpenSaga
<1>2. ASSUME NEW c \in Callers, NotCreated(c) PROVE SilencesTypeOK'
  BY <1>2 DEF NotCreated
<1>3. ASSUME NEW c \in Callers, NEW s \in Silences, Created(c, s) PROVE SilencesTypeOK'
  BY <1>3 DEF Created
<1>4. ASSUME NEW c \in Callers, NEW s \in Silences, CreatedUnheard(c, s) PROVE SilencesTypeOK'
  BY <1>4 DEF CreatedUnheard
<1>5. ASSUME NEW c \in Callers, NEW s \in Silences, Recorded(c, s) PROVE SilencesTypeOK'
  BY <1>5 DEF Recorded
<1>6. ASSUME NEW c \in Callers, NEW s \in Silences, NotRecorded(c, s) PROVE SilencesTypeOK'
  BY <1>6 DEF NotRecorded
<1>7. ASSUME NEW c \in Callers, NEW s \in Silences, Compensate(c, s) PROVE SilencesTypeOK'
  BY <1>7 DEF Compensate
<1>8. ASSUME NEW c \in Callers, NEW s \in Silences, ExpireSilence(c, s) PROVE SilencesTypeOK'
  BY <1>8 DEF ExpireSilence, OpenSaga
<1>9. ASSUME NEW c \in Callers, NEW s \in Silences, Expired(c, s) PROVE SilencesTypeOK'
  BY <1>9 DEF Expired
<1>10. ASSUME NEW s \in Silences, Lapse(s) PROVE SilencesTypeOK'
  BY <1>10 DEF Lapse
<1>11. CASE RemoveTeam
  BY <1>11 DEF RemoveTeam
<1>12. CASE CrashSagas
  BY <1>12 DEF CrashSagas
<1>13. CASE UNCHANGED silenceVars
  BY <1>13 DEF silenceVars
<1> QED
  BY <1>1, <1>2, <1>3, <1>4, <1>5, <1>6, <1>7, <1>8, <1>9, <1>10, <1>11, <1>12, <1>13 DEF SilencesNext

LEMMA SilencesStep ==
  SilencesInv /\ [SilencesNext]_silenceVars => (SagasAreDisjoint /\ FreshIsUntold /\ SilencesAreOwned)'
<1> SUFFICES ASSUME SilencesInv, [SilencesNext]_silenceVars
             PROVE  (SagasAreDisjoint /\ FreshIsUntold /\ SilencesAreOwned)'
  OBVIOUS
<1> USE DEF SilencesInv, SilencesTypeOK, SagasAreDisjoint, FreshIsUntold, SilencesAreOwned,
            Holds, Creating, NoSaga
<1>1. ASSUME NEW c \in Callers, CreateSilence(c) PROVE (SagasAreDisjoint /\ FreshIsUntold /\ SilencesAreOwned)'
  BY <1>1 DEF CreateSilence, OpenSaga
<1>2. ASSUME NEW c \in Callers, NotCreated(c) PROVE (SagasAreDisjoint /\ FreshIsUntold /\ SilencesAreOwned)'
  BY <1>2 DEF NotCreated
<1>3. ASSUME NEW c \in Callers, NEW s \in Silences, Created(c, s) PROVE (SagasAreDisjoint /\ FreshIsUntold /\ SilencesAreOwned)'
  BY <1>3 DEF Created
<1>4. ASSUME NEW c \in Callers, NEW s \in Silences, CreatedUnheard(c, s) PROVE (SagasAreDisjoint /\ FreshIsUntold /\ SilencesAreOwned)'
  BY <1>4 DEF CreatedUnheard
<1>5. ASSUME NEW c \in Callers, NEW s \in Silences, Recorded(c, s) PROVE (SagasAreDisjoint /\ FreshIsUntold /\ SilencesAreOwned)'
  BY <1>5 DEF Recorded
<1>6. ASSUME NEW c \in Callers, NEW s \in Silences, NotRecorded(c, s) PROVE (SagasAreDisjoint /\ FreshIsUntold /\ SilencesAreOwned)'
  BY <1>6 DEF NotRecorded
<1>7. ASSUME NEW c \in Callers, NEW s \in Silences, Compensate(c, s) PROVE (SagasAreDisjoint /\ FreshIsUntold /\ SilencesAreOwned)'
  BY <1>7 DEF Compensate
<1>8. ASSUME NEW c \in Callers, NEW s \in Silences, ExpireSilence(c, s) PROVE (SagasAreDisjoint /\ FreshIsUntold /\ SilencesAreOwned)'
  BY <1>8 DEF ExpireSilence, OpenSaga
<1>9. ASSUME NEW c \in Callers, NEW s \in Silences, Expired(c, s) PROVE (SagasAreDisjoint /\ FreshIsUntold /\ SilencesAreOwned)'
  BY <1>9 DEF Expired
<1>10. ASSUME NEW s \in Silences, Lapse(s) PROVE (SagasAreDisjoint /\ FreshIsUntold /\ SilencesAreOwned)'
  BY <1>10 DEF Lapse
<1>11. CASE RemoveTeam
  BY <1>11 DEF RemoveTeam
<1>12. CASE CrashSagas
  BY <1>12 DEF CrashSagas
<1>13. CASE UNCHANGED silenceVars
  BY <1>13 DEF silenceVars
<1> QED
  BY <1>1, <1>2, <1>3, <1>4, <1>5, <1>6, <1>7, <1>8, <1>9, <1>10, <1>11, <1>12, <1>13 DEF SilencesNext

LEMMA SilencesInvariance == SilencesSpec => []SilencesInv
<1>1. SilencesInit => SilencesInv
  BY SilencesAssumption DEF SilencesInit, SilencesInv, SilencesTypeOK, SagasAreDisjoint, Holds, FreshIsUntold,
     SilencesAreOwned, NoSaga
<1>2. SilencesInv /\ [SilencesNext]_silenceVars => SilencesInv'
  BY SilencesTypeStep, SilencesStep DEF SilencesInv
<1> QED
  BY <1>1, <1>2, PTL DEF SilencesSpec

(* However many creations overlap, with lost answers, failed commits and   *)
(* crashes: no silence is active that nobody was told of, unless an answer *)
(* was lost on the way, and each one that was reported has its row.        *)
THEOREM EverySilenceIsOwned == SilencesSpec => []SilencesAreOwned
<1>1. SilencesInv => SilencesAreOwned
  BY DEF SilencesInv
<1> QED
  BY <1>1, SilencesInvariance, PTL

-----------------------------------------------------------------------------
(* Memberships.                                                            *)

Rows == {Outside} \cup MembershipType

LoginType ==
  [at : {"idle", "bound", "staged"}, groups : SUBSET Groups, creates : BOOLEAN,
   promotes : BOOLEAN, seen : [Teams -> Rows], grants : [Teams -> Roles \cup {"none"}],
   current : BOOLEAN]

MembershipsTypeOK ==
  /\ groups \in SUBSET Groups
  /\ mappings \in SUBSET [inTeam : Teams, group : Groups, role : Roles]
  /\ member \in [Teams -> Rows]
  /\ nextId \in Nat \ {0}
  /\ login \in [Logins -> LoginType]

(* An id names one row forever, and its origin does not change.            *)
IdsAreOld ==
  \A t \in Teams :
    /\ member[t].id < nextId
    /\ \A l \in Logins : login[l].seen[t].id < nextId

OriginsStay ==
  \A l \in Logins : \A t \in Teams :
    member[t].id = login[l].seen[t].id => member[t].origin = login[l].seen[t].origin

(* What a login has staged while nobody else did anything.                 *)
CurrentIsUpToDate ==
  \A l \in Logins : login[l].at = "staged" /\ login[l].current =>
    \A t \in Teams :
      /\ login[l].seen[t] = member[t]
      /\ LET roles == Granted(t, login[l].groups)
         IN IF roles = {} THEN login[l].grants[t] = "none" ELSE login[l].grants[t] \in roles

MembershipsInv == MembershipsTypeOK /\ IdsAreOld /\ OriginsStay /\ CurrentIsUpToDate

(* What the proofs need to know of a row.                                  *)
LEMMA RowFacts ==
  /\ Outside \in Rows /\ Outside.id = 0 /\ Outside.origin = "none"
  /\ \A r \in Rows : r.id \in Nat /\ (r.id = 0 => r = Outside)
  /\ \A role \in Roles, origin \in {"ldap", "manual"}, n \in Nat \ {0} :
       [id |-> n, role |-> role, origin |-> origin] \in Rows
  /\ \A r \in Rows, role \in Roles : r # Outside =>
       /\ [r EXCEPT !.role = role] \in Rows
       /\ [r EXCEPT !.role = role].id = r.id
       /\ [r EXCEPT !.role = role].role = role
       /\ [r EXCEPT !.role = role].origin = r.origin
  BY DEF Rows, Outside, MembershipType, Roles

LEMMA NoLoginFacts ==
  /\ NoLogin \in LoginType
  /\ NoLogin.at = "idle"
  /\ \A t \in Teams : NoLogin.seen[t] = Outside
<1>1. [t \in Teams |-> Outside] \in [Teams -> Rows]
  BY RowFacts
<1>2. [t \in Teams |-> "none"] \in [Teams -> Roles \cup {"none"}]
  OBVIOUS
<1> QED
  BY <1>1, <1>2 DEF NoLogin, LoginType

LEMMA StagedFacts ==
  ASSUME NEW r \in LoginType, NEW s \in [Teams -> Rows],
         NEW g \in [Teams -> Roles \cup {"none"}], NEW b \in BOOLEAN, NEW d \in BOOLEAN
  PROVE  [r EXCEPT !.at = "staged", !.seen = s, !.grants = g, !.creates = b, !.promotes = d]
           \in LoginType
  BY DEF LoginType

LEMMA OutdateFacts ==
  ASSUME login \in [Logins -> LoginType]
  PROVE  /\ Outdate \in [Logins -> LoginType]
         /\ \A l \in Logins : Outdate[l].current = FALSE /\ Outdate[l].seen = login[l].seen
<1>1. ASSUME NEW l \in Logins
      PROVE  /\ [login[l] EXCEPT !.current = FALSE] \in LoginType
             /\ [login[l] EXCEPT !.current = FALSE].current = FALSE
             /\ [login[l] EXCEPT !.current = FALSE].seen = login[l].seen
  BY DEF LoginType
<1> QED
  BY <1>1 DEF Outdate

(* The row that a login leaves: the one that was there, perhaps with a     *)
(* role of its own, or none, or a new one.                                 *)
LEMMA AfterFacts ==
  ASSUME MembershipsTypeOK, NEW l \in Logins, Commits(l), NEW t \in Teams
  PROVE  /\ After(l, t) \in Rows
         /\ \/ After(l, t).id = member[t].id /\ After(l, t).origin = member[t].origin
            \/ After(l, t) = Outside
            \/ After(l, t).id = nextId
<1> DEFINE seen == login[l].seen[t]
           grant == login[l].grants[t]
<1>1. /\ seen \in Rows /\ member[t] \in Rows
      /\ grant \in Roles \cup {"none"}
      /\ nextId \in Nat \ {0}
  BY DEF MembershipsTypeOK, LoginType
<1>2. seen.origin = "ldap" => seen # Outside /\ seen.id # 0
  BY <1>1, RowFacts
<1>3. CASE seen = Outside /\ grant # "none"
  <2>1. After(l, t) = [id |-> nextId, role |-> grant, origin |-> "ldap"]
    BY <1>3 DEF After
  <2> QED
    BY <1>1, <1>3, <2>1, RowFacts
<1>4. CASE ~(seen = Outside /\ grant # "none") /\ seen.origin = "ldap" /\ member[t].id = seen.id
  <2>1. member[t] # Outside
    BY <1>2, <1>4, RowFacts
  <2>2. After(l, t) = IF grant = "none" THEN Outside
                      ELSE IF grant # seen.role THEN [member[t] EXCEPT !.role = grant]
                      ELSE member[t]
    BY <1>4 DEF After
  <2> QED
    BY <1>1, <2>1, <2>2, RowFacts
<1>5. CASE ~(seen = Outside /\ grant # "none") /\ ~(seen.origin = "ldap" /\ member[t].id = seen.id)
  <2>1. After(l, t) = member[t]
    BY <1>5 DEF After
  <2> QED
    BY <1>1, <2>1
<1> QED
  BY <1>3, <1>4, <1>5

LEMMA MembershipsTypeStep ==
  MembershipsTypeOK /\ [MembershipsNext]_memberVars => MembershipsTypeOK'
<1> SUFFICES ASSUME MembershipsTypeOK, [MembershipsNext]_memberVars
             PROVE  MembershipsTypeOK'
  OBVIOUS
<1> USE DEF MembershipsTypeOK
<1>1. ASSUME NEW l \in Logins, Authenticate(l) PROVE MembershipsTypeOK'
  <2>1. [NoLogin EXCEPT !.at = "bound", !.groups = groups, !.current = TRUE] \in LoginType
    BY NoLoginFacts DEF LoginType
  <2> QED
    BY <1>1, <2>1 DEF Authenticate
<1>2. ASSUME NEW l \in Logins, Sync(l) PROVE MembershipsTypeOK'
  <2>1. PICK grants \in [Teams -> Roles \cup {"none"}] :
          login' = [login EXCEPT ![l].at = "staged", ![l].seen = member, ![l].grants = grants,
                                 ![l].creates = (account = "absent"),
                                 ![l].promotes = (login[l].groups \cap AdminGroups # {})]
    BY <1>2 DEF Sync
  <2> DEFINE staged == [login[l] EXCEPT !.at = "staged", !.seen = member, !.grants = grants,
                                        !.creates = (account = "absent"),
                                        !.promotes = (login[l].groups \cap AdminGroups # {})]
  <2>2. staged \in LoginType
    <3>1. (account = "absent") \in BOOLEAN /\ (login[l].groups \cap AdminGroups # {}) \in BOOLEAN
      OBVIOUS
    <3>2. login[l] \in LoginType /\ member \in [Teams -> Rows]
      OBVIOUS
    <3> HIDE DEF MembershipsTypeOK
    <3> QED
      BY <3>1, <3>2, StagedFacts
  <2>3. login' = [login EXCEPT ![l] = staged]
    BY <2>1
  <2> QED
    BY <1>2, <2>2, <2>3 DEF Sync
<1>3. ASSUME NEW l \in Logins, CommitLogin(l) PROVE MembershipsTypeOK'
  <2>1. login' \in [Logins -> LoginType]
    BY <1>3, OutdateFacts, NoLoginFacts DEF CommitLogin
  <2>2. \A t \in Teams : After(l, t) \in Rows
    BY <1>3, AfterFacts DEF CommitLogin
  <2>3. member' \in [Teams -> Rows]
    BY <1>3, <2>2 DEF CommitLogin
  <2> QED
    BY <1>3, <2>1, <2>3 DEF CommitLogin
<1>4. ASSUME NEW l \in Logins, FailLogin(l) PROVE MembershipsTypeOK'
  BY <1>4, NoLoginFacts DEF FailLogin
<1>5. ASSUME NEW t \in Teams, NEW role \in Roles, AddMember(t, role) PROVE MembershipsTypeOK'
  <2>1. [id |-> nextId, role |-> role, origin |-> "manual"] \in Rows
    BY RowFacts
  <2>2. member' \in [Teams -> Rows]
    BY <1>5, <2>1 DEF AddMember
  <2>3. login' \in [Logins -> LoginType]
    BY <1>5, OutdateFacts DEF AddMember, Act
  <2> QED
    BY <1>5, <2>2, <2>3 DEF AddMember
<1>6. ASSUME NEW t \in Teams, NEW role \in Roles, NEW g \in Groups, AddMapping(t, g, role)
      PROVE  MembershipsTypeOK'
  <2>1. mappings' \in SUBSET [inTeam : Teams, group : Groups, role : Roles]
    BY <1>6 DEF AddMapping
  <2>2. login' \in [Logins -> LoginType]
    BY <1>6, OutdateFacts DEF AddMapping, Act
  <2> QED
    BY <1>6, <2>1, <2>2 DEF AddMapping
<1>7. ASSUME NEW t \in Teams, RemoveMember(t) PROVE MembershipsTypeOK'
  BY <1>7, OutdateFacts, RowFacts DEF RemoveMember, Act
<1>8. ASSUME NEW m \in mappings, RemoveMapping(m) PROVE MembershipsTypeOK'
  BY <1>8, OutdateFacts DEF RemoveMapping, Act
<1>9. ASSUME NEW isAdmin \in BOOLEAN, NEW status \in {"active", "inactive"},
             UpdateUser(isAdmin, status)
      PROVE  MembershipsTypeOK'
  BY <1>9, OutdateFacts DEF UpdateUser, Act
<1>10. ASSUME NEW gs \in SUBSET Groups, Regroup(gs) PROVE MembershipsTypeOK'
  BY <1>10, OutdateFacts DEF Regroup, Act
<1>11. CASE UNCHANGED memberVars
  BY <1>11 DEF memberVars
<1> QED
  BY <1>1, <1>2, <1>3, <1>4, <1>5, <1>6, <1>7, <1>8, <1>9, <1>10, <1>11 DEF MembershipsNext

(* Ids and origins survive a step that leaves each row, takes it away or   *)
(* gives it a new id, and in which a login forgets what it has seen, or    *)
(* sees what is there.                                                     *)
LEMMA IdsStep ==
  ASSUME MembershipsTypeOK, MembershipsTypeOK', IdsAreOld, OriginsStay,
         nextId' >= nextId,
         \A t \in Teams :
           \/ member'[t].id = member[t].id /\ member'[t].origin = member[t].origin
           \/ member'[t] = Outside
           \/ member'[t].id = nextId /\ nextId' = nextId + 1,
         \A l \in Logins :
           \/ login'[l].seen = login[l].seen
           \/ \A t \in Teams : login'[l].seen[t] = Outside
           \/ login'[l].seen = member /\ member' = member
  PROVE  IdsAreOld' /\ OriginsStay'
<1>1. ASSUME NEW l \in Logins, NEW t \in Teams
      PROVE  /\ login[l].seen[t] \in Rows /\ login'[l].seen[t] \in Rows
             /\ member[t] \in Rows /\ member'[t] \in Rows
             /\ nextId \in Nat \ {0} /\ nextId' \in Nat \ {0}
  BY DEF MembershipsTypeOK, LoginType
<1>2. ASSUME NEW t \in Teams PROVE member[t] \in Rows /\ member'[t] \in Rows
  BY DEF MembershipsTypeOK
<1>3. nextId \in Nat \ {0} /\ nextId' \in Nat \ {0}
  BY DEF MembershipsTypeOK
<1>4. IdsAreOld'
  BY <1>1, <1>2, <1>3, RowFacts DEF IdsAreOld
<1>5. OriginsStay'
  BY <1>1, <1>2, <1>3, RowFacts DEF IdsAreOld, OriginsStay
<1> QED
  BY <1>4, <1>5

(* The requests of everybody else outdate what the logins have read.       *)
LEMMA ActStep ==
  ASSUME MembershipsInv, MembershipsTypeOK', login' = Outdate, nextId' >= nextId,
         \A t \in Teams :
           \/ member'[t].id = member[t].id /\ member'[t].origin = member[t].origin
           \/ member'[t] = Outside
           \/ member'[t].id = nextId /\ nextId' = nextId + 1
  PROVE  MembershipsInv'
<1>1. \A l \in Logins : login'[l].current = FALSE /\ login'[l].seen = login[l].seen
  BY OutdateFacts DEF MembershipsInv, MembershipsTypeOK
<1>2. IdsAreOld' /\ OriginsStay'
  BY <1>1, IdsStep DEF MembershipsInv
<1>3. CurrentIsUpToDate'
  BY <1>1 DEF CurrentIsUpToDate
<1> QED
  BY <1>2, <1>3 DEF MembershipsInv

(* A login that is as it was is as up to date as it was.                   *)
LEMMA UpToDateStep ==
  ASSUME CurrentIsUpToDate, UNCHANGED <<mappings, member>>,
         \A l \in Logins :
           login'[l] = login[l] \/ ~(login'[l].at = "staged" /\ login'[l].current)
  PROVE  CurrentIsUpToDate'
<1>1. ASSUME NEW t \in Teams, NEW l \in Logins, login'[l] = login[l]
      PROVE  Granted(t, login[l].groups)' = Granted(t, login[l].groups)
  BY <1>1 DEF Granted
<1> QED
  BY <1>1 DEF CurrentIsUpToDate

LEMMA MembershipsStep ==
  MembershipsInv /\ [MembershipsNext]_memberVars => MembershipsInv'
<1> SUFFICES ASSUME MembershipsInv, [MembershipsNext]_memberVars
             PROVE  MembershipsInv'
  OBVIOUS
<1>a. MembershipsTypeOK /\ MembershipsTypeOK'
  BY MembershipsTypeStep DEF MembershipsInv
<1>b. /\ login \in [Logins -> LoginType] /\ login' \in [Logins -> LoginType]
      /\ member \in [Teams -> Rows] /\ nextId \in Nat \ {0}
  BY <1>a DEF MembershipsTypeOK
<1>1. ASSUME NEW l \in Logins, Authenticate(l) PROVE MembershipsInv'
  <2>1. /\ UNCHANGED <<mappings, member, nextId>>
        /\ \A q \in Logins : q # l => login'[q] = login[q]
    BY <1>1, <1>b DEF Authenticate
  <2>2. login'[l].at = "bound" /\ login'[l].seen = NoLogin.seen
    BY <1>1, <1>b, NoLoginFacts DEF Authenticate, LoginType
  <2>3. IdsAreOld' /\ OriginsStay'
    BY <1>a, <1>b, <2>1, <2>2, NoLoginFacts, IdsStep DEF MembershipsInv
  <2>4. CurrentIsUpToDate'
    BY <2>1, <2>2, UpToDateStep DEF MembershipsInv
  <2> QED
    BY <1>a, <2>3, <2>4 DEF MembershipsInv
<1>2. ASSUME NEW l \in Logins, Sync(l) PROVE MembershipsInv'
  <2>1. /\ UNCHANGED <<mappings, member, nextId>>
        /\ \A q \in Logins : q # l => login'[q] = login[q]
    BY <1>2, <1>b DEF Sync
  <2>2. PICK grants \in [Teams -> Roles \cup {"none"}] :
          /\ \A t \in Teams :
               LET roles == Granted(t, login[l].groups)
               IN IF roles = {} THEN grants[t] = "none" ELSE grants[t] \in roles
          /\ login' = [login EXCEPT ![l].at = "staged", ![l].seen = member, ![l].grants = grants,
                                    ![l].creates = (account = "absent"),
                                    ![l].promotes = (login[l].groups \cap AdminGroups # {})]
    BY <1>2 DEF Sync
  <2>3. /\ login'[l].seen = member /\ login'[l].grants = grants
        /\ login'[l].groups = login[l].groups
    BY <1>b, <2>2 DEF LoginType
  <2>4. IdsAreOld' /\ OriginsStay'
    BY <1>a, <1>b, <2>1, <2>3, IdsStep DEF MembershipsInv
  <2>5. CurrentIsUpToDate'
    <3>1. ASSUME NEW t \in Teams, NEW q \in Logins
          PROVE  Granted(t, login[q].groups)' = Granted(t, login[q].groups)
      <4>1. login'[q].groups = login[q].groups
        BY <2>1, <2>3
      <4> QED
        BY <2>1, <4>1 DEF Granted
    <3>2. SUFFICES ASSUME NEW q \in Logins, login'[q].at = "staged" /\ login'[q].current,
                          NEW t \in Teams
                   PROVE  /\ login'[q].seen[t] = member'[t]
                          /\ IF Granted(t, login[q].groups)' = {}
                               THEN login'[q].grants[t] = "none"
                               ELSE login'[q].grants[t] \in Granted(t, login[q].groups)'
      BY DEF CurrentIsUpToDate
    <3>3. CASE q = l
      BY <2>1, <2>2, <2>3, <3>1, <3>3
    <3>4. CASE q # l
      BY <2>1, <3>1, <3>2, <3>4 DEF MembershipsInv, CurrentIsUpToDate
    <3> QED
      BY <3>3, <3>4
  <2> QED
    BY <1>a, <2>4, <2>5 DEF MembershipsInv
<1>3. ASSUME NEW l \in Logins, CommitLogin(l) PROVE MembershipsInv'
  <2>1. \A q \in Logins : q # l =>
          login'[q].current = FALSE /\ login'[q].seen = login[q].seen
    BY <1>3, <1>b, OutdateFacts DEF CommitLogin
  <2>2. login'[l] = NoLogin
    BY <1>3, <1>b, OutdateFacts DEF CommitLogin
  <2>3. nextId' = nextId + 1 /\ member' = [t \in Teams |-> After(l, t)]
    BY <1>3 DEF CommitLogin
  <2>4. \A t \in Teams :
          \/ member'[t].id = member[t].id /\ member'[t].origin = member[t].origin
          \/ member'[t] = Outside
          \/ member'[t].id = nextId /\ nextId' = nextId + 1
    BY <1>3, <1>a, <2>3, AfterFacts DEF CommitLogin
  <2>5. IdsAreOld' /\ OriginsStay'
    BY <1>a, <1>b, <2>1, <2>2, <2>3, <2>4, NoLoginFacts, IdsStep DEF MembershipsInv
  <2>6. CurrentIsUpToDate'
    BY <2>1, <2>2, NoLoginFacts DEF CurrentIsUpToDate
  <2> QED
    BY <1>a, <2>5, <2>6 DEF MembershipsInv
<1>4. ASSUME NEW l \in Logins, FailLogin(l) PROVE MembershipsInv'
  <2>1. /\ UNCHANGED <<mappings, member, nextId>>
        /\ \A q \in Logins : q # l => login'[q] = login[q]
        /\ login'[l] = NoLogin
    BY <1>4, <1>b DEF FailLogin
  <2>2. IdsAreOld' /\ OriginsStay'
    BY <1>a, <1>b, <2>1, NoLoginFacts, IdsStep DEF MembershipsInv
  <2>3. CurrentIsUpToDate'
    BY <2>1, NoLoginFacts, UpToDateStep DEF MembershipsInv
  <2> QED
    BY <1>a, <2>2, <2>3 DEF MembershipsInv
<1>5. ASSUME NEW t \in Teams, NEW role \in Roles, AddMember(t, role) PROVE MembershipsInv'
  <2>1. \A u \in Teams : member'[u] = member[u] \/ member'[u].id = nextId
    BY <1>5, <1>b DEF AddMember
  <2> QED
    BY <1>5, <1>a, <1>b, <2>1, ActStep DEF AddMember, Act
<1>6. ASSUME NEW t \in Teams, NEW role \in Roles, NEW g \in Groups, AddMapping(t, g, role)
      PROVE  MembershipsInv'
  BY <1>6, <1>a, <1>b, ActStep DEF AddMapping, Act
<1>7. ASSUME NEW t \in Teams, RemoveMember(t) PROVE MembershipsInv'
  <2>1. \A u \in Teams : member'[u] = member[u] \/ member'[u] = Outside
    BY <1>7, <1>b DEF RemoveMember
  <2> QED
    BY <1>7, <1>a, <1>b, <2>1, ActStep DEF RemoveMember, Act
<1>8. ASSUME NEW m \in mappings, RemoveMapping(m) PROVE MembershipsInv'
  BY <1>8, <1>a, <1>b, ActStep DEF RemoveMapping, Act
<1>9. ASSUME NEW isAdmin \in BOOLEAN, NEW status \in {"active", "inactive"},
             UpdateUser(isAdmin, status)
      PROVE  MembershipsInv'
  BY <1>9, <1>a, <1>b, ActStep DEF UpdateUser, Act
<1>10. ASSUME NEW gs \in SUBSET Groups, Regroup(gs) PROVE MembershipsInv'
  BY <1>10, <1>a, <1>b, ActStep DEF Regroup, Act
<1>11. CASE UNCHANGED memberVars
  <2>1. CurrentIsUpToDate'
    BY <1>11, UpToDateStep DEF memberVars, MembershipsInv
  <2>2. IdsAreOld' /\ OriginsStay'
    BY <1>11 DEF memberVars, MembershipsInv, IdsAreOld, OriginsStay
  <2> QED
    BY <1>a, <2>1, <2>2 DEF MembershipsInv
<1> QED
  BY <1>1, <1>2, <1>3, <1>4, <1>5, <1>6, <1>7, <1>8, <1>9, <1>10, <1>11 DEF MembershipsNext

LEMMA MembershipsInvariance == MembershipsSpec => []MembershipsInv
<1>1. MembershipsInit => MembershipsInv
  <2> SUFFICES ASSUME MembershipsInit PROVE MembershipsInv
    OBVIOUS
  <2>1. \A t \in Teams : member[t] \in Rows /\ member[t].id < 2
    BY DEF MembershipsInit, Rows, MembershipType, Roles, Outside
  <2>2. \A l \in Logins : login[l] = NoLogin
    BY DEF MembershipsInit
  <2>3. MembershipsTypeOK
    BY <2>1, NoLoginFacts DEF MembershipsInit, MembershipsTypeOK, Rows, MembershipType, Roles
  <2>4. IdsAreOld /\ OriginsStay
    BY <2>1, <2>2, NoLoginFacts, RowFacts DEF MembershipsInit, IdsAreOld, OriginsStay
  <2>5. CurrentIsUpToDate
    BY <2>2, NoLoginFacts DEF CurrentIsUpToDate
  <2> QED
    BY <2>3, <2>4, <2>5 DEF MembershipsInv
<1> QED
  BY <1>1, MembershipsStep, PTL DEF MembershipsSpec

(* However many logins and other requests overlap: a login that commits    *)
(* changes no membership that was given by hand and takes nobody's         *)
(* administration away, and when nothing came in between, it leaves what   *)
(* the groups of the directory give.                                       *)
THEOREM LoginsRespectMemberships == MembershipsSpec => LoginGivesWhatTheDirectoryGives
<1> DEFINE Right(l) ==
             /\ \A t \in Teams : member[t].origin = "manual" => member'[t] = member[t]
             /\ admin => admin'
             /\ login[l].current => GivesExactly(l)
<1>1. ASSUME MembershipsInv, NEW l \in Logins, login[l].at = "staged", CommitLogin(l)
      PROVE  Right(l)
  <2>a. /\ member \in [Teams -> Rows] /\ login[l] \in LoginType /\ nextId \in Nat \ {0}
        /\ member' = [t \in Teams |-> After(l, t)]
    BY <1>1 DEF MembershipsInv, MembershipsTypeOK, CommitLogin
  <2>b. \A t \in Teams : login[l].seen[t] \in Rows
    BY <2>a DEF LoginType
  <2>1. ASSUME NEW t \in Teams, member[t].origin = "manual" PROVE member'[t] = member[t]
    <3>1. member[t] # Outside
      BY <2>1, RowFacts
    <3>2. ~(login[l].seen[t] = Outside /\ login[l].grants[t] # "none")
      BY <1>1, <3>1 DEF CommitLogin, Commits
    <3>3. ~(login[l].seen[t].origin = "ldap" /\ member[t].id = login[l].seen[t].id)
      BY <1>1, <2>1 DEF MembershipsInv, OriginsStay
    <3> QED
      BY <2>a, <3>2, <3>3 DEF After
  <2>2. admin => admin'
    BY <1>1 DEF CommitLogin
  <2>3. ASSUME login[l].current PROVE GivesExactly(l)
    <3> SUFFICES ASSUME NEW t \in Teams, member[t].origin # "manual"
                 PROVE  IF Granted(t, login[l].groups) = {} THEN member'[t] = Outside
                        ELSE /\ member'[t].origin = "ldap"
                             /\ member'[t].role \in Granted(t, login[l].groups)
      BY DEF GivesExactly
    <3> DEFINE roles == Granted(t, login[l].groups)
               grant == login[l].grants[t]
    <3>1. /\ login[l].seen[t] = member[t]
          /\ IF roles = {} THEN grant = "none" ELSE grant \in roles
      BY <1>1, <2>3 DEF MembershipsInv, CurrentIsUpToDate
    <3>2. grant \in Roles \cup {"none"}
      BY <2>a DEF LoginType
    <3>3. roles \subseteq Roles
      BY <1>1 DEF MembershipsInv, MembershipsTypeOK, Granted
    <3>4. member'[t] = After(l, t)
      BY <2>a
    <3> HIDE DEF roles, grant
    <3>5. grant = "none" <=> roles = {}
      BY <3>1, <3>3 DEF Roles
    <3>6. CASE member[t] = Outside
      <4>1. After(l, t) = IF grant # "none" THEN [id |-> nextId, role |-> grant, origin |-> "ldap"]
                          ELSE Outside
        BY <3>1, <3>6, RowFacts DEF After, grant
      <4> QED
        BY <3>1, <3>4, <3>5, <4>1 DEF roles
    <3>7. CASE member[t] # Outside
      <4>1. member[t].origin = "ldap"
        BY <2>a, <3>7 DEF Rows, MembershipType
      <4>2. After(l, t) = IF grant = "none" THEN Outside
                          ELSE IF grant # member[t].role THEN [member[t] EXCEPT !.role = grant]
                          ELSE member[t]
        BY <3>1, <3>7, <4>1 DEF After, grant
      <4>3. CASE grant = "none"
        BY <3>4, <3>5, <4>2, <4>3 DEF roles
      <4>4. CASE grant # "none"
        <5>1. member'[t].origin = "ldap" /\ member'[t].role = grant
          <6>1. member[t] \in Rows /\ grant \in Roles
            BY <2>a, <3>2, <4>4
          <6>2. CASE grant = member[t].role
            BY <3>4, <4>1, <4>2, <4>4, <6>2
          <6>3. CASE grant # member[t].role
            <7>1. member'[t] = [member[t] EXCEPT !.role = grant]
              BY <3>4, <4>2, <4>4, <6>3
            <7> QED
              BY <3>7, <4>1, <6>1, <7>1, RowFacts
          <6> QED
            BY <6>2, <6>3
        <5> QED
          BY <3>1, <3>5, <4>4, <5>1 DEF roles
      <4> QED
        BY <4>3, <4>4
    <3> QED
      BY <3>6, <3>7
  <2> QED
    BY <2>1, <2>2, <2>3
<1>2. MembershipsInv /\ [MembershipsNext]_memberVars =>
        [\A l \in Logins : login[l].at = "staged" /\ CommitLogin(l) => Right(l)]_memberVars
  BY <1>1
<1> QED
  BY <1>2, MembershipsInvariance, PTL DEF MembershipsSpec, LoginGivesWhatTheDirectoryGives

-----------------------------------------------------------------------------
(* Routing rules.                                                          *)

(* The rows of rules: those that are saved, and those that are not there.  *)
RuleRows ==
  [action : {"none", "gone", "notify", "suppress"},
   channels : SUBSET OwnChannels,
   escalates : BOOLEAN,
   targets : SUBSET AllChannels,
   template : Templates \cup {NoTemplate}]

EditType ==
  [op : {"none", "save", "delete", "revoke"}, route : SUBSET Routes,
   channel : SUBSET AllChannels, loaded : RuleRows, body : RuleRows,
   strip : SUBSET Routes, cleared : SUBSET Routes, crossed : BOOLEAN]

ConfigTypeOK ==
  /\ route \in [Routes -> RuleRows]
  /\ channel \in [AllChannels -> {"kept", "open", "deleted"}]
  /\ kind \in [Templates -> {"alert", "report", "gone"}]
  /\ edit \in [Editors -> EditType]
  /\ raced \in SUBSET Routes
  /\ retyped \in SUBSET Templates

(* A rule that is not there names nothing.                                 *)
AbsentNamesNothing ==
  \A q \in Routes \ Live : route[q].channels = {} /\ route[q].targets = {}

(* The kind of a template that a rule names changes by Retype only.        *)
TemplatesStay ==
  /\ \A q \in Routes : route[q].template \in Templates => kind[route[q].template] # "gone"
  /\ \A m \in Templates \ retyped : kind[m] \in {"alert", "gone"}

(* What the channels of a rule, as they are in ch, must be like.           *)
Savable(r, ch) ==
  IF r.action = "suppress" THEN r.channels = {} /\ ~r.escalates /\ r.targets = {}
  ELSE /\ \A k \in r.channels : ch[k] # "deleted"
       /\ r.escalates => /\ r.targets # {}
                         /\ \A k \in r.targets : /\ ch[k] # "deleted"
                                                 /\ k \in ForeignChannels => ch[k] = "open"

RulesAreSavable == \A q \in Live \ raced : Savable(route[q], channel)

(* Two rows agree, but for the template.                                   *)
Same(r, s) ==
  /\ r.action = s.action /\ r.channels = s.channels
  /\ r.escalates = s.escalates /\ r.targets = s.targets

(* What a save that was not overtaken has read and checked still holds.    *)
SaveIsCurrent(x, rows, ch) ==
  \E q \in Routes :
    /\ x.route = {q} /\ x.strip = {} /\ x.channel = {}
    /\ x.body.action \in {"notify", "suppress"}
    /\ ~x.crossed => /\ rows[q].action = "gone" \/ Same(rows[q], x.loaded)
                     /\ Savable(x.body, ch)

SavesAreCurrent ==
  \A e \in Editors : edit[e].op = "save" => SaveIsCurrent(edit[e], route, channel)

(* A deletion, or a withdrawal, that was not overtaken has found every     *)
(* rule to strip, and every one that it empties.                           *)
Finds(x, k, q, r) ==
  /\ k \in r.targets => q \in x.strip
  /\ x.op = "delete" /\ k \in r.channels => q \in x.strip
  /\ q \in x.strip /\ r.escalates /\ r.targets = {k} => q \in x.cleared

StripIsCurrent(x, rows) ==
  \E k \in AllChannels :
    /\ x.route = {} /\ x.channel = {k} /\ Named(x) = {}
    /\ x.op = "revoke" => k \in ForeignChannels
    /\ ~x.crossed => \A q \in Routes : Finds(x, k, q, rows[q])

StripsAreCurrent ==
  \A e \in Editors : edit[e].op \in {"delete", "revoke"} => StripIsCurrent(edit[e], route)

(* The inductive invariant: what a request has read still holds when it    *)
(* commits, unless one in conflict with it has committed meanwhile.        *)
ConfigInv ==
  /\ ConfigTypeOK /\ AbsentNamesNothing /\ TemplatesStay
  /\ SavesAreCurrent /\ StripsAreCurrent /\ RulesAreSavable

-----------------------------------------------------------------------------
(* Rows.                                                                   *)

LEMMA NoEditFacts ==
  /\ NoRoute \in RuleRows /\ [NoRoute EXCEPT !.action = "gone"] \in RuleRows
  /\ NoRoute.channels = {} /\ NoRoute.targets = {} /\ NoRoute.template = NoTemplate
  /\ NoEdit \in EditType /\ NoEdit.op = "none" /\ NoEdit.crossed = FALSE
  /\ NoEdit.strip = {} /\ NoEdit.route = {} /\ NoEdit.channel = {} /\ Named(NoEdit) = {}
<1>1. /\ NoRoute \in RuleRows /\ [NoRoute EXCEPT !.action = "gone"] \in RuleRows
      /\ NoRoute.channels = {} /\ NoRoute.targets = {} /\ NoRoute.template = NoTemplate
  BY DEF NoRoute, RuleRows
<1>2. /\ NoEdit \in EditType /\ NoEdit.op = "none" /\ NoEdit.crossed = FALSE
      /\ NoEdit.strip = {} /\ NoEdit.route = {} /\ NoEdit.channel = {} /\ NoEdit.body = NoRoute
  BY <1>1 DEF NoEdit, EditType
<1> QED
  BY <1>1, <1>2 DEF Named

(* What is stored of an accepted body is in order.                         *)
LEMMA NormalFacts ==
  ASSUME NEW body \in RouteType
  PROVE  /\ Normal(body) \in RuleRows
         /\ Normal(body).action = body.action
         /\ Normal(body).action \in {"notify", "suppress"}
         /\ AcceptsChannels(body) /\ AcceptsEscalation(body) => Savable(Normal(body), channel)
<1>1. CASE body.action = "notify" /\ body.escalates
  <2>1. Normal(body) = body
    BY <1>1 DEF Normal
  <2> QED
    BY <1>1, <2>1 DEF RouteType, RuleRows, AcceptsChannels, AcceptsEscalation, Savable
<1>2. CASE ~(body.action = "notify" /\ body.escalates)
  <2>1. Normal(body) = [body EXCEPT !.escalates = FALSE, !.targets = {}]
    BY <1>2 DEF Normal
  <2>2. /\ Normal(body) \in RuleRows
        /\ Normal(body).action = body.action /\ Normal(body).channels = body.channels
        /\ Normal(body).escalates = FALSE /\ Normal(body).targets = {}
    BY <2>1 DEF RouteType, RuleRows
  <2> QED
    BY <2>2 DEF RouteType, AcceptsChannels, AcceptsEscalation, Savable
<1> QED
  BY <1>1, <1>2

(* A row that is as the base was becomes the body; otherwise, no channel   *)
(* comes from anywhere but the two.                                        *)
LEMMA MergedFacts ==
  ASSUME NEW old \in RuleRows, NEW base \in RuleRows, NEW body \in RuleRows
  PROVE  /\ Merged(old, base, body) \in RuleRows
         /\ Merged(old, base, body).action \in {old.action, body.action}
         /\ body.action # base.action => Merged(old, base, body).action = body.action
         /\ Merged(old, base, body).channels \subseteq old.channels \cup body.channels
         /\ Merged(old, base, body).targets \subseteq old.targets \cup body.targets
         /\ \/ Merged(old, base, body).template = old.template
            \/ /\ Merged(old, base, body).template = body.template
               /\ body.template # base.template
         /\ Same(old, base) => Same(Merged(old, base, body), body)
  BY DEF Merged, RuleRows, Same

(* The channels of a row lose k, and the row what it escalates to.         *)
LEMMA StrippedSavable ==
  ASSUME NEW r \in RuleRows, NEW k, NEW s \in RuleRows, NEW ch,
         Savable(r, ch),
         s.action = r.action, s.channels = r.channels \ {k}, s.targets = r.targets \ {k},
         s.escalates => r.escalates /\ r.targets # {k}
  PROVE  Savable(s, ch)
<1>1. CASE r.action = "suppress"
  BY <1>1 DEF Savable
<1>2. CASE r.action # "suppress"
  <2>1. \A j \in s.channels : ch[j] # "deleted"
    BY <1>2 DEF Savable
  <2>2. ASSUME s.escalates
        PROVE  /\ s.targets # {}
               /\ \A j \in s.targets : ch[j] # "deleted" /\ (j \in ForeignChannels => ch[j] = "open")
    BY <1>2, <2>2 DEF Savable
  <2> QED
    BY <1>2, <2>1, <2>2 DEF Savable
<1> QED
  BY <1>1, <1>2

(* A channel that no rule names may change; any may be opened.             *)
LEMMA SavableElsewhere ==
  ASSUME NEW r \in RuleRows, NEW k, NEW ch \in [AllChannels -> {"kept", "open", "deleted"}],
         NEW v, Savable(r, ch), k \in r.channels \cup r.targets => ch[k] = "kept" /\ v = "open"
  PROVE  Savable(r, [ch EXCEPT ![k] = v])
BY DEF Savable, RuleRows, AllChannels

LEMMA SavableSame ==
  ASSUME NEW r, NEW s, NEW ch, Same(r, s), Savable(s, ch)
  PROVE  Savable(r, ch)
BY DEF Same, Savable

-----------------------------------------------------------------------------
(* Requests.                                                               *)

LEMMA RequestFacts ==
  ASSUME ConfigTypeOK, NEW e \in Editors, NEW x \in EditType, Request(e, x)
  PROVE  /\ edit' \in [Editors -> EditType]
         /\ edit'[e] = x
         /\ \A f \in Editors \ {e} : edit'[f] = edit[f]
         /\ UNCHANGED <<route, channel, kind, raced, retyped>>
BY DEF Request, ConfigTypeOK

(* Two open requests are alike, but for the mark.                          *)
Alike(x, y) ==
  /\ y.op = x.op /\ y.route = x.route /\ y.channel = x.channel /\ y.loaded = x.loaded
  /\ y.body = x.body /\ y.strip = x.strip /\ y.cleared = x.cleared

LEMMA Marked ==
  ASSUME NEW x \in EditType
  PROVE  /\ [x EXCEPT !.crossed = TRUE] \in EditType
         /\ [x EXCEPT !.crossed = TRUE].crossed = TRUE
         /\ Alike(x, [x EXCEPT !.crossed = TRUE])
BY DEF EditType, Alike

(* A commit: a request it leaves without the mark has no conflict with it. *)
LEMMA CommitFacts ==
  ASSUME ConfigTypeOK, NEW e \in Editors, NEW w \in SUBSET Routes, CommitEdit(e, w)
  PROVE  /\ edit' \in [Editors -> EditType]
         /\ raced' \in SUBSET Routes
         /\ edit'[e] = NoEdit
         /\ \A f \in Editors \ {e} :
              /\ Alike(edit[f], edit'[f])
              /\ ~edit'[f].crossed => ~edit[f].crossed /\ ~Conflict(edit[e], edit[f])
<1> USE DEF ConfigTypeOK
<1>1. edit' = [f \in Editors |->
                IF f = e THEN NoEdit
                ELSE IF Conflict(edit[e], edit[f]) THEN [edit[f] EXCEPT !.crossed = TRUE]
                ELSE edit[f]]
  BY DEF CommitEdit
<1>2. edit'[e] = NoEdit
  BY <1>1
<1>3. ASSUME NEW f \in Editors \ {e}
      PROVE  /\ edit'[f] \in EditType
             /\ Alike(edit[f], edit'[f])
             /\ ~edit'[f].crossed => ~edit[f].crossed /\ ~Conflict(edit[e], edit[f])
  <2>1. edit[f] \in EditType
    OBVIOUS
  <2>2. CASE Conflict(edit[e], edit[f])
    <3>1. edit'[f] = [edit[f] EXCEPT !.crossed = TRUE]
      BY <1>1, <2>2
    <3> QED
      BY <2>1, <3>1, Marked
  <2>3. CASE ~Conflict(edit[e], edit[f])
    <3>1. edit'[f] = edit[f]
      BY <1>1, <2>3
    <3> QED
      BY <2>1, <2>3, <3>1 DEF Alike
  <2> QED
    BY <2>2, <2>3
<1>4. edit' \in [Editors -> EditType]
  BY <1>1, <1>2, <1>3, NoEditFacts
<1>5. raced' \in SUBSET Routes
  BY DEF CommitEdit
<1> QED
  BY <1>2, <1>3, <1>4, <1>5


-----------------------------------------------------------------------------
(* The inductive invariant holds at first, and every step preserves it.    *)

LEMMA ConfigInvInit ==
  ConfigInit => ConfigInv
<1> SUFFICES ASSUME ConfigInit PROVE ConfigInv
  OBVIOUS
<1>1. ConfigTypeOK
  <2>1. channel \in [AllChannels -> {"kept", "open", "deleted"}]
    BY DEF ConfigInit
  <2> QED
    BY <2>1, NoEditFacts DEF ConfigInit, ConfigTypeOK
<1>2. AbsentNamesNothing
  BY NoEditFacts DEF ConfigInit, AbsentNamesNothing
<1>3. TemplatesStay
  BY NoEditFacts, RouteConfigAssumption DEF ConfigInit, TemplatesStay
<1>4. SavesAreCurrent /\ StripsAreCurrent
  BY NoEditFacts DEF ConfigInit, SavesAreCurrent, StripsAreCurrent
<1>5. RulesAreSavable
  BY DEF ConfigInit, RulesAreSavable, Live, NoRoute
<1> QED
  BY <1>1, <1>2, <1>3, <1>4, <1>5 DEF ConfigInv

(* What a request puts down to be committed.                               *)
SaveRequest(q, body) ==
  [NoEdit EXCEPT !.op = "save", !.route = {q}, !.loaded = route[q], !.body = Normal(body)]
StripRequest(op, k, S, C) ==
  [NoEdit EXCEPT !.op = op, !.channel = {k}, !.strip = S, !.cleared = C]

LEMMA SaveRequestFacts ==
  ASSUME NEW q \in Routes, NEW body, Normal(body) \in RuleRows, route[q] \in RuleRows,
         NEW x, x = SaveRequest(q, body)
  PROVE  /\ x \in EditType /\ x.op = "save" /\ x.route = {q} /\ x.channel = {}
         /\ x.strip = {} /\ x.loaded = route[q] /\ x.body = Normal(body)
BY NoEditFacts DEF SaveRequest, EditType, NoEdit

(* Save leaves a checked body with the rule as it is; the requests of the  *)
(* others, and the rows, are as they were.                                 *)
LEMMA SaveStep ==
  ASSUME ConfigInv, NEW e \in Editors, NEW q \in Routes, NEW body \in RouteType, Save(e, q, body)
  PROVE  ConfigInv'
<1> DEFINE x == SaveRequest(q, body)
<1>0. ConfigTypeOK
  BY DEF ConfigInv
<1>1. /\ Normal(body) \in RuleRows /\ Normal(body).action \in {"notify", "suppress"}
      /\ Savable(Normal(body), channel)
  BY NormalFacts DEF Save
<1>2. /\ x \in EditType /\ x.op = "save" /\ x.route = {q} /\ x.channel = {}
      /\ x.strip = {} /\ x.loaded = route[q] /\ x.body = Normal(body)
  <2>1. route[q] \in RuleRows
    BY <1>0 DEF ConfigTypeOK
  <2> QED
    BY <1>1, <2>1, SaveRequestFacts
<1>3. Request(e, x)
  BY DEF Save, SaveRequest
<1> HIDE DEF x
<1>4. /\ edit' \in [Editors -> EditType] /\ edit'[e] = x
      /\ \A f \in Editors \ {e} : edit'[f] = edit[f]
      /\ UNCHANGED <<route, channel, kind, raced, retyped>>
  BY <1>0, <1>2, <1>3, RequestFacts
<1>5. SaveIsCurrent(x, route, channel)
  BY <1>1, <1>2 DEF SaveIsCurrent, Same
<1>6. SavesAreCurrent'
  BY <1>4, <1>5 DEF ConfigInv, SavesAreCurrent
<1>7. StripsAreCurrent'
  BY <1>2, <1>4 DEF ConfigInv, StripsAreCurrent
<1> QED
  BY <1>4, <1>6, <1>7 DEF ConfigInv, ConfigTypeOK, AbsentNamesNothing, TemplatesStay,
                          RulesAreSavable, Live

(* A deletion, or a withdrawal, has found what it is to strip.             *)
LEMMA StripStep ==
  ASSUME ConfigInv, NEW e \in Editors, NEW k \in AllChannels,
         DeleteChannel(e, k) \/ Revoke(e, k)
  PROVE  ConfigInv'
<1>0. ConfigTypeOK
  BY DEF ConfigInv
<1>1. PICK x \in EditType :
        /\ Request(e, x)
        /\ x.op \in {"delete", "revoke"} /\ (x.op = "revoke" => k \in ForeignChannels)
        /\ x.route = {} /\ x.channel = {k} /\ Named(x) = {}
        /\ {q \in Live : k \in route[q].targets} \subseteq x.strip
        /\ x.op = "delete" => {q \in Live : k \in route[q].channels} \subseteq x.strip
        /\ {q \in Live : route[q].escalates /\ route[q].targets = {k}} \subseteq x.cleared
  <2>1. CASE DeleteChannel(e, k)
    <3> DEFINE S == {q \in Live : Naming(q, k)}
               C == Emptied({q \in Live : k \in route[q].targets}, k)
               x == StripRequest("delete", k, S, C)
    <3>1. Request(e, x)
      BY <2>1 DEF DeleteChannel, StripRequest
    <3>2. S \subseteq Routes /\ C \subseteq Routes
      BY DEF Live, Emptied
    <3>3. /\ {q \in Live : k \in route[q].targets} \subseteq S
          /\ {q \in Live : k \in route[q].channels} \subseteq S
          /\ {q \in Live : route[q].escalates /\ route[q].targets = {k}} \subseteq C
      BY DEF Naming, Emptied
    <3> HIDE DEF S, C
    <3>4. /\ x \in EditType /\ x.op = "delete" /\ x.route = {} /\ x.channel = {k}
          /\ x.strip = S /\ x.cleared = C /\ x.body = NoRoute
      BY <3>2, NoEditFacts DEF StripRequest, EditType, NoEdit
    <3> HIDE DEF x
    <3>5. Named(x) = {}
      BY <3>4, NoEditFacts DEF Named
    <3> QED
      BY <3>1, <3>3, <3>4, <3>5
  <2>2. CASE Revoke(e, k)
    <3> DEFINE S == {q \in Live : k \in route[q].targets}
               C == Emptied(S, k)
               x == StripRequest("revoke", k, S, C)
    <3>1. Request(e, x) /\ k \in ForeignChannels
      BY <2>2 DEF Revoke, StripRequest
    <3>2. S \subseteq Routes /\ C \subseteq Routes
      BY DEF Live, Emptied
    <3>3. /\ {q \in Live : k \in route[q].targets} \subseteq S
          /\ {q \in Live : route[q].escalates /\ route[q].targets = {k}} \subseteq C
      BY DEF Emptied
    <3> HIDE DEF S, C
    <3>4. /\ x \in EditType /\ x.op = "revoke" /\ x.route = {} /\ x.channel = {k}
          /\ x.strip = S /\ x.cleared = C /\ x.body = NoRoute
      BY <3>2, NoEditFacts DEF StripRequest, EditType, NoEdit
    <3> HIDE DEF x
    <3>5. Named(x) = {}
      BY <3>4, NoEditFacts DEF Named
    <3> QED
      BY <3>1, <3>3, <3>4, <3>5
  <2> QED
    BY <2>1, <2>2
<1>4. /\ edit' \in [Editors -> EditType] /\ edit'[e] = x
      /\ \A f \in Editors \ {e} : edit'[f] = edit[f]
      /\ UNCHANGED <<route, channel, kind, raced, retyped>>
  BY <1>0, <1>1, RequestFacts
<1>5. StripIsCurrent(x, route)
  <2>1. ASSUME NEW q \in Routes PROVE Finds(x, k, q, route[q])
    <3>1. CASE q \in Live
      BY <1>1, <3>1 DEF Finds
    <3>2. CASE q \notin Live
      BY <3>2 DEF ConfigInv, AbsentNamesNothing, Finds
    <3> QED
      BY <3>1, <3>2
  <2> QED
    BY <1>1, <2>1 DEF StripIsCurrent
<1>6. SavesAreCurrent'
  <2>1. x.op # "save"
    BY <1>1
  <2> QED
    BY <2>1, <1>4 DEF ConfigInv, SavesAreCurrent
<1>7. StripsAreCurrent'
  BY <1>4, <1>5 DEF ConfigInv, StripsAreCurrent
<1> QED
  BY <1>4, <1>6, <1>7 DEF ConfigInv, ConfigTypeOK, AbsentNamesNothing, TemplatesStay,
                          RulesAreSavable, Live

(* Aborting leaves the rest as it is.                                      *)
LEMMA AbortStep ==
  ASSUME ConfigInv, NEW e \in Editors, AbortEdit(e)
  PROVE  ConfigInv'
<1>1. /\ edit' \in [Editors -> EditType] /\ edit'[e] = NoEdit
      /\ \A f \in Editors \ {e} : edit'[f] = edit[f]
      /\ UNCHANGED <<route, channel, kind, raced, retyped>>
  BY NoEditFacts DEF ConfigInv, ConfigTypeOK, AbortEdit
<1>2. SavesAreCurrent'
  BY <1>1, NoEditFacts DEF ConfigInv, SavesAreCurrent
<1>3. StripsAreCurrent'
  BY <1>1, NoEditFacts DEF ConfigInv, StripsAreCurrent
<1> QED
  BY <1>1, <1>2, <1>3 DEF ConfigInv, ConfigTypeOK, AbsentNamesNothing, TemplatesStay,
                          RulesAreSavable, Live

(* A rule that is deleted names nothing, and nobody saves it any more.     *)
LEMMA DeleteRouteStep ==
  ASSUME ConfigInv, NEW q \in Routes, DeleteRoute(q)
  PROVE  ConfigInv'
<1> USE DEF ConfigInv
<1>1. /\ route' \in [Routes -> RuleRows]
      /\ route'[q] = [NoRoute EXCEPT !.action = "gone"]
      /\ \A p \in Routes \ {q} : route'[p] = route[p]
      /\ raced' = raced \ {q}
      /\ UNCHANGED <<channel, kind, edit, retyped>>
  BY NoEditFacts DEF ConfigTypeOK, DeleteRoute
<1>2. /\ route'[q].action = "gone" /\ route'[q].channels = {} /\ route'[q].targets = {}
      /\ route'[q].template = NoTemplate
  BY <1>1 DEF NoRoute
<1>3. ConfigTypeOK'
  BY <1>1 DEF ConfigTypeOK
<1>4. AbsentNamesNothing'
  BY <1>1, <1>2 DEF AbsentNamesNothing, Live
<1>5. TemplatesStay'
  BY <1>1, <1>2, RouteConfigAssumption DEF TemplatesStay
<1>6. SavesAreCurrent'
  <2> SUFFICES ASSUME NEW e \in Editors, edit[e].op = "save"
               PROVE  SaveIsCurrent(edit[e], route', channel)
    BY <1>1 DEF SavesAreCurrent
  <2>1. SaveIsCurrent(edit[e], route, channel)
    BY DEF SavesAreCurrent
  <2>2. ASSUME NEW p \in Routes, NEW r, route[p].action = "gone" \/ Same(route[p], r)
        PROVE  route'[p].action = "gone" \/ Same(route'[p], r)
    BY <1>1, <1>2, <2>2
  <2> QED
    BY <2>1, <2>2 DEF SaveIsCurrent
<1>7. StripsAreCurrent'
  <2> SUFFICES ASSUME NEW e \in Editors, edit[e].op \in {"delete", "revoke"}
               PROVE  StripIsCurrent(edit[e], route')
    BY <1>1 DEF StripsAreCurrent
  <2>1. ASSUME NEW k, NEW p \in Routes, Finds(edit[e], k, p, route[p])
        PROVE  Finds(edit[e], k, p, route'[p])
    BY <1>1, <1>2, <2>1 DEF Finds
  <2> QED
    BY <2>1 DEF StripsAreCurrent, StripIsCurrent
<1>8. RulesAreSavable'
  BY <1>1, <1>2 DEF RulesAreSavable, Live
<1> QED
  BY <1>3, <1>4, <1>5, <1>6, <1>7, <1>8

(* A channel that opens forbids nothing.                                   *)
LEMMA GrantStep ==
  ASSUME ConfigInv, NEW k \in AllChannels, Grant(k)
  PROVE  ConfigInv'
<1> USE DEF ConfigInv
<1>1. /\ channel' = [channel EXCEPT ![k] = "open"] /\ channel[k] = "kept"
      /\ UNCHANGED <<route, kind, edit, raced, retyped>>
  BY DEF Grant
<1>2. channel' \in [AllChannels -> {"kept", "open", "deleted"}]
  BY <1>1 DEF ConfigTypeOK
<1>3. ASSUME NEW r \in RuleRows, Savable(r, channel) PROVE Savable(r, channel')
  BY <1>1, <1>3, SavableElsewhere DEF ConfigTypeOK
<1>4. SavesAreCurrent'
  <2> SUFFICES ASSUME NEW e \in Editors, edit[e].op = "save"
               PROVE  SaveIsCurrent(edit[e], route, channel')
    BY <1>1 DEF SavesAreCurrent
  <2>1. edit[e].body \in RuleRows
    BY DEF ConfigTypeOK, EditType
  <2> QED
    BY <1>3, <2>1 DEF SavesAreCurrent, SaveIsCurrent
<1>5. RulesAreSavable'
  BY <1>1, <1>3 DEF RulesAreSavable, Live, ConfigTypeOK
<1> QED
  BY <1>1, <1>2, <1>4, <1>5 DEF ConfigTypeOK, AbsentNamesNothing, TemplatesStay,
                                StripsAreCurrent, Live

LEMMA RetypeStep ==
  ASSUME ConfigInv, NEW m \in Templates, Retype(m)
  PROVE  ConfigInv'
<1>1. /\ kind' \in [Templates -> {"alert", "report", "gone"}]
      /\ kind'[m] # "gone" /\ \A n \in Templates \ {m} : kind'[n] = kind[n]
      /\ retyped' = retyped \cup {m}
      /\ UNCHANGED <<route, channel, edit, raced>>
  BY DEF ConfigInv, ConfigTypeOK, Retype
<1>2. TemplatesStay'
  BY <1>1 DEF ConfigInv, TemplatesStay
<1> QED
  BY <1>1, <1>2 DEF ConfigInv, ConfigTypeOK, AbsentNamesNothing, SavesAreCurrent,
                    StripsAreCurrent, RulesAreSavable, Live

(* A template that is deleted leaves the rules that named it without one.  *)
LEMMA DeleteTemplateStep ==
  ASSUME ConfigInv, NEW m \in Templates, DeleteTemplate(m)
  PROVE  ConfigInv'
<1> USE DEF ConfigInv
<1>1. /\ kind' \in [Templates -> {"alert", "report", "gone"}]
      /\ kind'[m] = "gone" /\ \A n \in Templates \ {m} : kind'[n] = kind[n]
      /\ route' = [q \in Routes |-> IF route[q].template = m
                                      THEN [route[q] EXCEPT !.template = NoTemplate]
                                      ELSE route[q]]
      /\ UNCHANGED <<channel, edit, raced, retyped>>
  BY DEF ConfigTypeOK, DeleteTemplate
<1>2. ASSUME NEW q \in Routes
      PROVE  /\ route'[q] \in RuleRows /\ Same(route'[q], route[q])
             /\ route'[q].template \in {route[q].template, NoTemplate} /\ route'[q].template # m
  <2>1. route[q] \in RuleRows
    BY DEF ConfigTypeOK
  <2>2. CASE route[q].template = m
    <3>1. route'[q] = [route[q] EXCEPT !.template = NoTemplate]
      BY <1>1, <2>2
    <3> QED
      BY <2>1, <3>1, RouteConfigAssumption DEF RuleRows, Same
  <2>3. CASE route[q].template # m
    <3>1. route'[q] = route[q]
      BY <1>1, <2>3
    <3> QED
      BY <2>1, <2>3, <3>1 DEF Same
  <2> QED
    BY <2>2, <2>3
<1>3. ConfigTypeOK'
  <2>1. route' \in [Routes -> RuleRows]
    BY <1>1, <1>2
  <2> QED
    BY <1>1, <2>1 DEF ConfigTypeOK
<1>4. AbsentNamesNothing' /\ RulesAreSavable'
  BY <1>1, <1>2, SavableSame DEF AbsentNamesNothing, RulesAreSavable, Live, Same
<1>5. TemplatesStay'
  BY <1>1, <1>2, RouteConfigAssumption DEF TemplatesStay
<1>6. SavesAreCurrent'
  <2> SUFFICES ASSUME NEW e \in Editors, edit[e].op = "save"
               PROVE  SaveIsCurrent(edit[e], route', channel)
    BY <1>1 DEF SavesAreCurrent
  <2>1. SaveIsCurrent(edit[e], route, channel)
    BY DEF SavesAreCurrent
  <2>2. ASSUME NEW p \in Routes, NEW r, route[p].action = "gone" \/ Same(route[p], r)
        PROVE  route'[p].action = "gone" \/ Same(route'[p], r)
    BY <1>2, <2>2 DEF Same
  <2> QED
    BY <2>1, <2>2 DEF SaveIsCurrent
<1>7. StripsAreCurrent'
  <2> SUFFICES ASSUME NEW e \in Editors, edit[e].op \in {"delete", "revoke"}
               PROVE  StripIsCurrent(edit[e], route')
    BY <1>1 DEF StripsAreCurrent
  <2>1. ASSUME NEW k, NEW p \in Routes, Finds(edit[e], k, p, route[p])
        PROVE  Finds(edit[e], k, p, route'[p])
    BY <1>2, <2>1 DEF Finds, Same
  <2> QED
    BY <2>1 DEF StripsAreCurrent, StripIsCurrent
<1> QED
  BY <1>3, <1>4, <1>5, <1>6, <1>7

(* A save that was not overtaken replaces the rule it loaded by its body;  *)
(* the others that are not overtaken by it are about other rules, and the  *)
(* channels it brings in are not theirs.                                   *)
LEMMA CommitSaveStep ==
  ASSUME ConfigInv, NEW e \in Editors, CommitSave(e)
  PROVE  ConfigInv'
<1> DEFINE x == edit[e]
<1>0. ConfigTypeOK /\ x \in EditType /\ x.op = "save"
  BY DEF ConfigInv, ConfigTypeOK, CommitSave
<1>1. PICK q \in Routes :
        /\ x.route = {q} /\ x.strip = {} /\ x.channel = {}
        /\ x.body.action \in {"notify", "suppress"}
        /\ ~x.crossed => /\ route[q].action = "gone" \/ Same(route[q], x.loaded)
                         /\ Savable(x.body, channel)
  BY <1>0 DEF ConfigInv, SavesAreCurrent, SaveIsCurrent
<1>2. /\ Fits(route[q], x.loaded, x.body)
      /\ route' = [route EXCEPT ![q] = Merged(route[q], x.loaded, x.body)]
      /\ CommitEdit(e, {q})
      /\ UNCHANGED <<channel, kind, retyped>>
  BY <1>1 DEF CommitSave
<1>3. /\ edit' \in [Editors -> EditType] /\ raced' \in SUBSET Routes /\ edit'[e] = NoEdit
      /\ \A f \in Editors \ {e} :
           /\ Alike(edit[f], edit'[f])
           /\ ~edit'[f].crossed => ~edit[f].crossed /\ ~Conflict(x, edit[f])
  BY <1>0, <1>2, CommitFacts
<1>4. raced' = IF x.crossed THEN raced \cup {q} ELSE raced \ {q}
  BY <1>1, <1>2 DEF CommitEdit
<1> DEFINE old == route[q]
           new == Merged(old, x.loaded, x.body)
<1>5. /\ old \in RuleRows /\ x.loaded \in RuleRows /\ x.body \in RuleRows
  BY <1>0 DEF ConfigTypeOK, EditType
<1>6. /\ new \in RuleRows
      /\ new.action \in {old.action, x.body.action}
      /\ x.body.action # x.loaded.action => new.action = x.body.action
      /\ new.channels \subseteq old.channels \cup x.body.channels
      /\ new.targets \subseteq old.targets \cup x.body.targets
      /\ \/ new.template = old.template
         \/ new.template = x.body.template /\ x.body.template # x.loaded.template
      /\ Same(old, x.loaded) => Same(new, x.body)
  BY <1>5, MergedFacts
<1>7. /\ route'[q] = new /\ \A p \in Routes \ {q} : route'[p] = route[p]
      /\ route' \in [Routes -> RuleRows]
  BY <1>0, <1>2, <1>6 DEF ConfigTypeOK
<1>8. /\ old.action = "none" <=> x.loaded.action = "none"
      /\ old.action # "gone"
      /\ x.body.template \in Templates \ {x.loaded.template} => kind[x.body.template] # "gone"
  BY <1>2 DEF Fits
<1> HIDE DEF new
<1>9. new.action \in {"notify", "suppress"}
  BY <1>1, <1>5, <1>6, <1>8 DEF RuleRows
<1>10. ConfigTypeOK'
  BY <1>0, <1>2, <1>3, <1>7 DEF ConfigTypeOK
<1>11. AbsentNamesNothing'
  BY <1>7, <1>9 DEF ConfigInv, AbsentNamesNothing, Live
<1>12. TemplatesStay'
  BY <1>2, <1>6, <1>7, <1>8 DEF ConfigInv, TemplatesStay
<1>13. RulesAreSavable'
  <2>1. ~x.crossed => Savable(new, channel)
    BY <1>1, <1>6, <1>8, SavableSame
  <2> QED
    BY <1>2, <1>4, <1>7, <2>1 DEF ConfigInv, RulesAreSavable, Live
<1>14. SavesAreCurrent'
  <2> SUFFICES ASSUME NEW f \in Editors, edit'[f].op = "save"
               PROVE  SaveIsCurrent(edit'[f], route', channel)
    BY <1>2 DEF SavesAreCurrent
  <2>1. f \in Editors \ {e}
    BY <1>3, NoEditFacts
  <2>2. SaveIsCurrent(edit[f], route, channel)
    BY <1>3, <2>1 DEF Alike, ConfigInv, SavesAreCurrent
  <2>3. Alike(edit[f], edit'[f]) /\ (~edit'[f].crossed => ~edit[f].crossed /\ ~Conflict(x, edit[f]))
    BY <1>3, <2>1
  <2>4. ~edit'[f].crossed => edit[f].route \cap {q} = {}
    BY <1>1, <2>3 DEF Conflict
  <2> QED
    BY <1>7, <2>2, <2>3, <2>4 DEF SaveIsCurrent, Alike
<1>15. StripsAreCurrent'
  <2> SUFFICES ASSUME NEW f \in Editors, edit'[f].op \in {"delete", "revoke"}
               PROVE  StripIsCurrent(edit'[f], route')
    BY DEF StripsAreCurrent
  <2>1. f \in Editors \ {e}
    BY <1>3, NoEditFacts
  <2>2. StripIsCurrent(edit[f], route)
    BY <1>3, <2>1 DEF Alike, ConfigInv, StripsAreCurrent
  <2>3. Alike(edit[f], edit'[f]) /\ (~edit'[f].crossed => ~edit[f].crossed /\ ~Conflict(x, edit[f]))
    BY <1>3, <2>1
  <2>4. PICK k \in AllChannels :
          /\ edit[f].route = {} /\ edit[f].channel = {k} /\ Named(edit[f]) = {}
          /\ edit[f].op = "revoke" => k \in ForeignChannels
          /\ ~edit[f].crossed => \A p \in Routes : Finds(edit[f], k, p, route[p])
    BY <2>2 DEF StripIsCurrent
  <2>5. ASSUME ~edit'[f].crossed, NEW p \in Routes
        PROVE  Finds(edit'[f], k, p, route'[p])
    <3>1. /\ Finds(edit[f], k, p, route[p])
          /\ q \notin edit[f].strip /\ k \notin x.body.channels \cup x.body.targets
      BY <1>1, <2>3, <2>4, <2>5 DEF Conflict, Named
    <3>2. Finds(edit[f], k, p, route'[p])
      BY <1>6, <1>7, <3>1 DEF Finds
    <3> QED
      BY <2>3, <3>2 DEF Finds, Alike
  <2>6. Named(edit'[f]) = {}
    BY <2>3, <2>4 DEF Named, Alike
  <2> QED
    BY <2>3, <2>4, <2>5, <2>6 DEF StripIsCurrent, Alike
<1> QED
  BY <1>10, <1>11, <1>12, <1>13, <1>14, <1>15 DEF ConfigInv

(* A deletion, or a withdrawal, that was not overtaken strips every rule   *)
(* that names the channel; one that was overtaken leaves its mark on those *)
(* it may have missed.                                                     *)
LEMMA CommitStripStep ==
  ASSUME ConfigInv, NEW e \in Editors, CommitStrip(e)
  PROVE  ConfigInv'
<1> DEFINE x == edit[e]
<1>0. ConfigTypeOK /\ x \in EditType /\ x.op \in {"delete", "revoke"}
  BY DEF ConfigInv, ConfigTypeOK, CommitStrip
<1>1. PICK k \in AllChannels :
        /\ x.route = {} /\ x.channel = {k} /\ Named(x) = {}
        /\ x.op = "revoke" => k \in ForeignChannels
        /\ ~x.crossed => \A q \in Routes : Finds(x, k, q, route[q])
  BY <1>0 DEF ConfigInv, StripsAreCurrent, StripIsCurrent
<1> DEFINE w == x.strip \cup {q \in Live : Naming(q, k)}
<1>2. /\ channel' = [channel EXCEPT ![k] = IF x.op = "delete" THEN "deleted" ELSE "kept"]
      /\ CommitEdit(e, w)
      /\ route' = [q \in Routes |-> IF q \in x.strip
                                      THEN Stripped(route[q], {k}, q \in x.cleared)
                                      ELSE route[q]]
      /\ UNCHANGED <<kind, retyped>>
  BY <1>1 DEF CommitStrip
<1>3. /\ edit' \in [Editors -> EditType] /\ raced' \in SUBSET Routes /\ edit'[e] = NoEdit
      /\ \A f \in Editors \ {e} :
           /\ Alike(edit[f], edit'[f])
           /\ ~edit'[f].crossed => ~edit[f].crossed /\ ~Conflict(x, edit[f])
  <2>1. w \in SUBSET Routes
    BY <1>0 DEF Live, EditType
  <2> HIDE DEF w
  <2> QED
    BY <1>0, <1>2, <2>1, CommitFacts
<1>4. raced' = IF x.crossed THEN raced \cup w ELSE raced
  BY <1>1, <1>2 DEF CommitEdit
<1>5. ASSUME NEW q \in Routes
      PROVE  /\ route[q] \in RuleRows
             /\ q \in x.strip => route'[q] = Stripped(route[q], {k}, q \in x.cleared)
             /\ q \notin x.strip => route'[q] = route[q]
  BY <1>0, <1>2 DEF ConfigTypeOK
<1>6. ASSUME NEW q \in Routes
      PROVE  /\ route'[q] \in RuleRows
             /\ route'[q].action = route[q].action /\ route'[q].template = route[q].template
             /\ route'[q].channels \subseteq route[q].channels
             /\ route'[q].targets \subseteq route[q].targets
             /\ q \in x.strip =>
                  /\ route'[q].channels = route[q].channels \ {k}
                  /\ route'[q].targets = route[q].targets \ {k}
                  /\ route'[q].escalates => route[q].escalates /\ q \notin x.cleared
  <2> SUFFICES ASSUME NEW r \in RuleRows, r = route[q], NEW C, C = x.cleared, NEW s, s = route'[q]
               PROVE  /\ s \in RuleRows
                      /\ s.action = r.action /\ s.template = r.template
                      /\ s.channels \subseteq r.channels
                      /\ s.targets \subseteq r.targets
                      /\ q \in x.strip =>
                           /\ s.channels = r.channels \ {k}
                           /\ s.targets = r.targets \ {k}
                           /\ s.escalates => r.escalates /\ q \notin C
    BY <1>5
  <2>1. CASE q \in x.strip
    <3>1. s = Stripped(r, {k}, q \in C)
      BY <1>5, <2>1
    <3>2. s = [action |-> r.action, channels |-> r.channels \ {k},
               escalates |-> r.escalates /\ q \notin C,
               targets |-> r.targets \ {k}, template |-> r.template]
      BY <3>1 DEF Stripped, RuleRows
    <3>3. (r.escalates /\ q \notin C) \in BOOLEAN
      OBVIOUS
    <3>4. s \in RuleRows
      BY <3>2, <3>3 DEF RuleRows
    <3>5. /\ s.action = r.action /\ s.template = r.template
          /\ s.channels = r.channels \ {k} /\ s.targets = r.targets \ {k}
      BY <3>2
    <3>6. s.escalates => r.escalates /\ q \notin C
      BY <3>1 DEF Stripped, RuleRows
    <3> QED
      BY <3>4, <3>5, <3>6
  <2>2. CASE q \notin x.strip
    BY <1>5, <2>2
  <2> QED
    BY <2>1, <2>2
<1>7. channel' \in [AllChannels -> {"kept", "open", "deleted"}]
  BY <1>0, <1>2 DEF ConfigTypeOK
<1>8. ConfigTypeOK'
  <2>1. route' \in [Routes -> RuleRows]
    BY <1>2, <1>6
  <2> QED
    BY <1>0, <1>2, <1>3, <1>7, <2>1 DEF ConfigTypeOK
<1>9. AbsentNamesNothing'
  BY <1>6 DEF ConfigInv, AbsentNamesNothing, Live
<1>10. TemplatesStay'
  BY <1>2, <1>6 DEF ConfigInv, TemplatesStay
(* A row that does not name the channel is as savable as before.           *)
<1>11. ASSUME NEW r \in RuleRows, Savable(r, channel), k \notin r.channels \cup r.targets
       PROVE  Savable(r, channel')
  BY <1>0, <1>2, <1>11, SavableElsewhere DEF ConfigTypeOK
<1>12. RulesAreSavable'
  <2> SUFFICES ASSUME NEW q \in Routes, q \in Live', q \notin raced'
               PROVE  Savable(route'[q], channel')
    BY DEF RulesAreSavable, Live
  <2>1. q \in Live /\ q \notin raced
    BY <1>4, <1>6 DEF Live
  <2>2. Savable(route[q], channel)
    BY <2>1 DEF ConfigInv, RulesAreSavable
  <2>3. CASE q \in x.strip
    <3>1. ~x.crossed
      BY <1>4, <2>3
    <3>2. route[q].escalates /\ route[q].targets = {k} => q \in x.cleared
      BY <1>1, <2>3, <3>1 DEF Finds
    <3>3. Savable(route'[q], channel)
      BY <1>5, <1>6, <2>2, <2>3, <3>2, StrippedSavable
    <3> QED
      BY <1>6, <1>11, <2>3, <3>3
  <2>4. CASE q \notin x.strip
    <3>1. k \notin route[q].targets
      BY <1>1, <1>4, <2>1, <2>4 DEF Finds, Naming
    <3>2. k \notin route[q].channels
      <4>1. CASE x.crossed
        BY <1>4, <2>1, <4>1 DEF Naming
      <4>2. CASE ~x.crossed /\ x.op = "delete"
        BY <1>1, <2>4, <4>2 DEF Finds
      <4>3. CASE x.op = "revoke"
        BY <1>1, <1>5, <4>3, RouteConfigAssumption DEF RuleRows
      <4> QED
        BY <1>0, <4>1, <4>2, <4>3
    <3> QED
      BY <1>5, <1>11, <2>2, <2>4, <3>1, <3>2
  <2> QED
    BY <2>3, <2>4
<1>13. SavesAreCurrent'
  <2> SUFFICES ASSUME NEW f \in Editors, edit'[f].op = "save"
               PROVE  SaveIsCurrent(edit'[f], route', channel')
    BY DEF SavesAreCurrent
  <2>1. f \in Editors \ {e}
    BY <1>3, NoEditFacts
  <2>2. SaveIsCurrent(edit[f], route, channel)
    BY <1>3, <2>1 DEF Alike, ConfigInv, SavesAreCurrent
  <2>3. Alike(edit[f], edit'[f]) /\ (~edit'[f].crossed => ~edit[f].crossed /\ ~Conflict(x, edit[f]))
    BY <1>3, <2>1
  <2>4. PICK q \in Routes :
          /\ edit[f].route = {q} /\ edit[f].strip = {} /\ edit[f].channel = {}
          /\ edit[f].body.action \in {"notify", "suppress"}
          /\ ~edit[f].crossed => /\ route[q].action = "gone" \/ Same(route[q], edit[f].loaded)
                                 /\ Savable(edit[f].body, channel)
    BY <2>2 DEF SaveIsCurrent
  <2>5. ASSUME ~edit'[f].crossed
        PROVE  /\ route'[q].action = "gone" \/ Same(route'[q], edit[f].loaded)
               /\ Savable(edit[f].body, channel')
    <3>1. q \notin x.strip /\ k \notin edit[f].body.channels \cup edit[f].body.targets
      BY <1>1, <2>3, <2>4, <2>5 DEF Conflict, Named
    <3>2. edit[f].body \in RuleRows
      BY <1>0 DEF ConfigTypeOK, EditType
    <3> QED
      BY <1>5, <1>11, <2>3, <2>4, <2>5, <3>1, <3>2
  <2> QED
    BY <2>3, <2>4, <2>5 DEF SaveIsCurrent, Alike
<1>14. StripsAreCurrent'
  <2> SUFFICES ASSUME NEW f \in Editors, edit'[f].op \in {"delete", "revoke"}
               PROVE  StripIsCurrent(edit'[f], route')
    BY DEF StripsAreCurrent
  <2>1. f \in Editors \ {e}
    BY <1>3, NoEditFacts
  <2>2. StripIsCurrent(edit[f], route)
    BY <1>3, <2>1 DEF Alike, ConfigInv, StripsAreCurrent
  <2>3. Alike(edit[f], edit'[f]) /\ (~edit'[f].crossed => ~edit[f].crossed /\ ~Conflict(x, edit[f]))
    BY <1>3, <2>1
  <2>4. PICK j \in AllChannels :
          /\ edit[f].route = {} /\ edit[f].channel = {j} /\ Named(edit[f]) = {}
          /\ edit[f].op = "revoke" => j \in ForeignChannels
          /\ ~edit[f].crossed => \A p \in Routes : Finds(edit[f], j, p, route[p])
    BY <2>2 DEF StripIsCurrent
  <2>5. ASSUME ~edit'[f].crossed, NEW p \in Routes
        PROVE  Finds(edit'[f], j, p, route'[p])
    <3>1. Finds(edit[f], j, p, route[p]) /\ x.strip \cap edit[f].strip = {}
      BY <2>3, <2>4, <2>5 DEF Conflict
    <3>2. Finds(edit[f], j, p, route'[p])
      BY <1>5, <1>6, <3>1 DEF Finds
    <3> QED
      BY <2>3, <3>2 DEF Finds, Alike
  <2>6. Named(edit'[f]) = {}
    BY <2>3, <2>4 DEF Named, Alike
  <2> QED
    BY <2>3, <2>4, <2>5, <2>6 DEF StripIsCurrent, Alike
<1> QED
  BY <1>8, <1>9, <1>10, <1>12, <1>13, <1>14 DEF ConfigInv

LEMMA ConfigInvStep ==
  ConfigInv /\ [ConfigNext]_configVars => ConfigInv'
<1> SUFFICES ASSUME ConfigInv, [ConfigNext]_configVars
             PROVE  ConfigInv'
  OBVIOUS
<1>1. CASE UNCHANGED configVars
  BY <1>1 DEF configVars, ConfigInv, ConfigTypeOK, AbsentNamesNothing, TemplatesStay,
              SavesAreCurrent, StripsAreCurrent, RulesAreSavable, Live
<1>2. ASSUME NEW e \in Editors, NEW q \in Routes, NEW body \in RouteType, Save(e, q, body)
      PROVE  ConfigInv'
  BY <1>2, SaveStep
<1>3. ASSUME NEW e \in Editors, NEW k \in AllChannels, DeleteChannel(e, k) \/ Revoke(e, k)
      PROVE  ConfigInv'
  BY <1>3, StripStep
<1>4. ASSUME NEW e \in Editors, CommitSave(e) \/ CommitStrip(e) \/ AbortEdit(e)
      PROVE  ConfigInv'
  BY <1>4, CommitSaveStep, CommitStripStep, AbortStep
<1>5. ASSUME NEW q \in Routes, DeleteRoute(q) PROVE ConfigInv'
  BY <1>5, DeleteRouteStep
<1>6. ASSUME NEW k \in AllChannels, Grant(k) PROVE ConfigInv'
  BY <1>6, GrantStep
<1>7. ASSUME NEW m \in Templates, Retype(m) \/ DeleteTemplate(m) PROVE ConfigInv'
  BY <1>7, RetypeStep, DeleteTemplateStep
<1> QED
  BY <1>1, <1>2, <1>3, <1>4, <1>5, <1>6, <1>7 DEF ConfigNext

LEMMA SavableIsAccepted ==
  ConfigInv => RulesStaySavable
<1> SUFFICES ASSUME ConfigInv, NEW q \in Live \ raced
             PROVE  /\ route[q].action = "suppress" \/ route[q].channels # {}
                         => AcceptsChannels(route[q])
                    /\ AcceptsEscalation(route[q])
                    /\ route[q].template \notin retyped => AcceptsTemplate(route[q])
  BY DEF RulesStaySavable
<1>1. Savable(route[q], channel) /\ q \in Routes /\ route[q].action \in {"notify", "suppress"}
  BY DEF ConfigInv, RulesAreSavable, Live
<1>2. route[q].template \notin retyped => AcceptsTemplate(route[q])
  BY <1>1 DEF ConfigInv, TemplatesStay, AcceptsTemplate
<1> QED
  BY <1>1, <1>2 DEF Savable, AcceptsChannels, AcceptsEscalation

(* However many rules, channels and overlapping requests there are: a rule *)
(* of the team that no two conflicting requests wrote is accepted as it is *)
(* by create_route and update_route, whatever was deleted or withdrawn.    *)
THEOREM RulesStayAcceptable ==
  ConfigSpec => []RulesStaySavable
BY ConfigInvInit, ConfigInvStep, SavableIsAccepted, PTL DEF ConfigSpec

-----------------------------------------------------------------------------
(* The export of the history.                                              *)

ExportTypeOK ==
  /\ stamp \in [Ids -> 0 .. MaxTime]
  /\ inserted \in 0 .. MaxEvents
  /\ now \in 1 .. MaxTime
  /\ export \in {"none", "paging", "done"}
  /\ cursor \in [stamp : 1 .. (MaxTime + 1), id : 0 .. MaxEvents]
  /\ loaded \in [Ids -> 0 .. MaxTime]
  /\ emitted \in [Ids -> Nat]
  /\ count \in 0 .. Cap
  /\ touched \subseteq Ids
  /\ wentBack \in BOOLEAN

UnbornIsAbsent == \A e \in Ids : e > inserted => stamp[e] = 0 /\ emitted[e] = 0

LoadedIsEmitted == \A e \in Ids : loaded[e] = 0 <=> emitted[e] = 0

NotBegun ==
  export = "none" => cursor = Top /\ count = 0 /\ \A e \in Ids : emitted[e] = 0

(* While no time goes back, what was emitted stays behind the cursor.      *)
EmittedIsBehind ==
  ~wentBack => \A e \in Ids :
    /\ emitted[e] <= 1
    /\ emitted[e] # 0 /\ e \in Present => ~AfterCursor(e)

(* The rows the export still owes: those that nothing has happened to.     *)
Left == {e \in Present \ touched : emitted[e] = 0}

(* They are ahead of the cursor, and of every time a row was loaded with:  *)
(* the mapper may set the cursor back to one of those.                     *)
LeftIsAhead ==
  export = "paging" => \A e \in Left :
    /\ AfterCursor(e)
    /\ \A f \in Ids : loaded[f] # 0 => Below(e, [stamp |-> loaded[f], id |-> f])

NoneLeft == export = "done" /\ count < Cap => Left = {}

ExportInv ==
  /\ ExportTypeOK /\ UnbornIsAbsent /\ LoadedIsEmitted /\ NotBegun
  /\ EmittedIsBehind /\ LeftIsAhead /\ NoneLeft

(* The order of the stream is total.                                       *)
LEMMA StreamOrder ==
  ASSUME ExportTypeOK
  PROVE  /\ \A e \in Ids : ~Below(e, At(e))
         /\ \A e, f \in Ids : e = f \/ Below(e, At(f)) \/ Below(f, At(e))
         /\ \A e, f \in Ids : ~(Below(e, At(f)) /\ Below(f, At(e)))
         /\ \A e, f, g \in Ids : Below(e, At(f)) /\ Below(f, At(g)) => Below(e, At(g))
         /\ \A e, f \in Ids : \A c \in [stamp : Int, id : Int] :
              Below(e, At(f)) /\ Below(f, c) => Below(e, c)
         /\ cursor \in [stamp : Int, id : Int]
         /\ \A e \in Ids : stamp[e] \in Int
<1>1. /\ \A e \in Ids : e \in Int /\ stamp[e] \in Int
      /\ cursor \in [stamp : Int, id : Int]
  BY ExportAssumption DEF ExportTypeOK, Ids
<1>2. \A e, f : Below(e, At(f)) <=> stamp[e] < stamp[f] \/ (stamp[e] = stamp[f] /\ e < f)
  BY DEF Below, At
<1>3. ASSUME NEW e \in Ids, NEW f \in Ids, NEW c \in [stamp : Int, id : Int],
             Below(e, At(f)), Below(f, c)
      PROVE  Below(e, c)
  <2>1. c.stamp \in Int /\ c.id \in Int
    OBVIOUS
  <2>2. stamp[e] \in Int /\ stamp[f] \in Int /\ e \in Int /\ f \in Int
    BY <1>1
  <2>3. stamp[e] < stamp[f] \/ (stamp[e] = stamp[f] /\ e < f)
    BY <1>2, <1>3
  <2>4. stamp[f] < c.stamp \/ (stamp[f] = c.stamp /\ f < c.id)
    BY <1>3 DEF Below
  <2>5. stamp[e] < c.stamp \/ (stamp[e] = c.stamp /\ e < c.id)
    BY <2>1, <2>2, <2>3, <2>4
  <2> QED
    BY <2>5 DEF Below
<1> QED
  BY <1>1, <1>2, <1>3

Rest == {e \in Present : AfterCursor(e)}
Above(e) == {f \in Rest : Below(e, At(f))}

LEMMA IdsAreFinite ==
  ASSUME NEW S, S \subseteq Ids
  PROVE  IsFiniteSet(S) /\ Cardinality(S) \in Nat
<1>1. IsFiniteSet(Ids)
  BY ExportAssumption, FS_Interval DEF Ids
<1> QED
  BY <1>1, FS_Subset, FS_CardinalityType

LEMMA PageIs ==
  /\ Page = {e \in Rest : Cardinality(Above(e)) < Limit}
  /\ Page \subseteq Rest /\ Rest \subseteq Ids /\ \A e : Above(e) \subseteq Rest
BY DEF Page, Rest, Above, Present

(* A page takes the rest from the top.                                     *)
LEMMA PageIsTop ==
  ASSUME ExportTypeOK, NEW e \in Page, NEW f \in Rest, Below(e, At(f))
  PROVE  f \in Page
<1>1. /\ e \in Ids /\ f \in Ids
      /\ Above(f) \subseteq Ids /\ Above(e) \subseteq Ids
  BY PageIs, Zenon
<1>2. Above(f) \subseteq Above(e)
  BY <1>1, StreamOrder, PageIs DEF Above
<1>3. /\ IsFiniteSet(Above(e)) /\ Cardinality(Above(e)) \in Nat /\ Cardinality(Above(f)) \in Nat
      /\ Cardinality(Above(f)) <= Cardinality(Above(e))
  BY <1>1, <1>2, IdsAreFinite, FS_Subset
<1>4. Limit \in Int
  BY ExportAssumption DEF Limit, ExportTypeOK
<1>5. Cardinality(Above(e)) < Limit
  BY PageIs
<1> QED
  BY <1>3, <1>4, <1>5, PageIs

(* It holds Limit rows at most.                                            *)
LEMMA PageFits ==
  ASSUME ExportTypeOK, NEW last \in Page, \A e \in Page : e = last \/ Below(last, At(e))
  PROVE  Cardinality(Page) \in Nat /\ Cardinality(Page) <= Limit
<1>1. Page \subseteq Ids /\ Page \subseteq Rest /\ Above(last) \subseteq Ids
  BY PageIs
<1>2. Page \ {last} \subseteq Above(last)
  BY <1>1 DEF Above
<1>3. IsFiniteSet(Page) /\ Cardinality(Page) \in Nat /\ Cardinality(Page \ {last}) = Cardinality(Page) - 1
  BY <1>1, IdsAreFinite, FS_RemoveElement
<1>4. Cardinality(Page \ {last}) <= Cardinality(Above(last)) /\ Cardinality(Above(last)) \in Nat
  BY <1>1, <1>2, IdsAreFinite, FS_Subset
<1>5. Cardinality(Above(last)) < Limit
  BY PageIs
<1>6. Limit \in Int
  BY ExportAssumption DEF Limit, ExportTypeOK
<1> QED
  BY <1>3, <1>4, <1>5, <1>6

(* Only the last page holds less.                                          *)
LEMMA ShortPageIsAll ==
  ASSUME ExportTypeOK, Cardinality(Page) < Limit
  PROVE  Page = Rest
<1> SUFFICES ASSUME Rest \ Page # {} PROVE FALSE
  BY PageIs
<1> DEFINE A == {Above(e) : e \in Rest \ Page}
<1>1. A # {} /\ A \subseteq FiniteSubsetsOf(Ids)
  BY PageIs, IdsAreFinite DEF FiniteSubsetsOf
<1>2. PICK S \in A : \A T \in A : <<T, S>> \notin StrictSubsetOrdering(Ids)
  <2> HIDE DEF A
  <2> QED
    BY <1>1, FS_StrictSubsetOrderingWellFounded, WFMin
<1>3. PICK e \in Rest \ Page : S = Above(e)
  BY <1>2
<1>4. ASSUME NEW f \in Above(e), f \notin Page PROVE FALSE
  <2>1. /\ f \in Rest \ Page /\ f \in Ids /\ e \in Ids
        /\ Above(f) \subseteq Ids /\ Above(e) \subseteq Ids
    BY <1>4, PageIs
  <2>2. Above(f) \subseteq Above(e)
    BY <1>4, <2>1, StreamOrder, PageIs DEF Above
  <2>3. f \notin Above(f)
    BY <2>1, StreamOrder DEF Above
  <2>4. <<Above(f), Above(e)>> \in StrictSubsetOrdering(Ids)
    BY <1>4, <2>1, <2>2, <2>3 DEF StrictSubsetOrdering
  <2> QED
    BY <1>2, <1>3, <2>1, <2>4
<1>5. Above(e) \subseteq Page /\ Page \subseteq Ids /\ Above(e) \subseteq Ids
  BY <1>4, PageIs
<1>6. Cardinality(Above(e)) <= Cardinality(Page) /\ Cardinality(Above(e)) \in Nat /\ Cardinality(Page) \in Nat
  BY <1>5, IdsAreFinite, FS_Subset
<1>7. Limit \in Int
  BY ExportAssumption DEF Limit, ExportTypeOK
<1> QED
  BY <1>3, <1>6, <1>7, PageIs

LEMMA ExportInit0 == ExportInit => ExportInv /\ ExportIsFaithful
<1> SUFFICES ASSUME ExportInit PROVE ExportInv /\ ExportIsFaithful
  OBVIOUS
<1> USE ExportAssumption DEF ExportInit
<1>1. ExportTypeOK
  <2>1. stamp \in [Ids -> 0 .. MaxTime] /\ inserted \in 0 .. MaxEvents /\ now \in 1 .. MaxTime
    OBVIOUS
  <2>2. cursor \in [stamp : 1 .. (MaxTime + 1), id : 0 .. MaxEvents]
    BY DEF Top
  <2>3. loaded \in [Ids -> 0 .. MaxTime] /\ emitted \in [Ids -> Nat] /\ count \in 0 .. Cap
    OBVIOUS
  <2> QED
    BY <2>1, <2>2, <2>3, Zenon DEF ExportTypeOK
<1>2. UnbornIsAbsent
  BY <1>1 DEF UnbornIsAbsent, ExportTypeOK, Ids
<1>3. LoadedIsEmitted /\ NotBegun /\ EmittedIsBehind /\ LeftIsAhead /\ NoneLeft
  BY DEF LoadedIsEmitted, NotBegun, EmittedIsBehind, LeftIsAhead, NoneLeft
<1>4. ExportIsFaithful
  BY DEF ExportIsFaithful
<1> QED
  BY <1>1, <1>2, <1>3, <1>4 DEF ExportInv

LEMMA InvIsFaithful == ExportInv => ExportIsFaithful
<1> SUFFICES ASSUME ExportInv PROVE ExportIsFaithful
  OBVIOUS
<1>1. export = "done" /\ count < Cap => \A e \in Present \ touched : emitted[e] >= 1
  BY DEF ExportInv, NoneLeft, Left, Present, ExportTypeOK
<1>2. count <= Cap
  BY ExportAssumption DEF ExportInv, ExportTypeOK
<1> QED
  BY <1>1, <1>2 DEF ExportInv, EmittedIsBehind, ExportIsFaithful

(* What happens to one row of the table, and to no other.                  *)
Moves(e, s) ==
  /\ e \in Ids /\ s \in 0 .. MaxTime
  /\ stamp' = [stamp EXCEPT ![e] = s]
  /\ touched' = touched \cup {e}
  /\ UNCHANGED <<now, export, cursor, loaded, emitted, count>>

LEMMA TableStep ==
  ASSUME ExportInv, NEW e, NEW s, Moves(e, s), inserted' \in 0 .. MaxEvents, inserted <= inserted',
         e <= inserted', wentBack' \in BOOLEAN,
         (~wentBack' /\ s # 0 => ~wentBack /\ (e \in Present \/ emitted[e] = 0) /\ stamp[e] <= s),
         ~wentBack' => ~wentBack
  PROVE  ExportInv'
<1> USE DEF ExportInv
<1>1. /\ stamp' \in [Ids -> 0 .. MaxTime] /\ touched' \subseteq Ids
      /\ stamp'[e] = s /\ \A f \in Ids : f # e => stamp'[f] = stamp[f]
  BY DEF Moves, ExportTypeOK
<1>2. ExportTypeOK'
  BY <1>1 DEF Moves, ExportTypeOK
<1>3. UnbornIsAbsent'
  <2> SUFFICES ASSUME NEW f \in Ids, f > inserted' PROVE stamp'[f] = 0 /\ emitted[f] = 0
    BY DEF UnbornIsAbsent, Moves
  <2>1. f \in Int /\ e \in Int /\ inserted \in Int /\ inserted' \in Int
    BY ExportAssumption DEF ExportTypeOK, Moves, Ids
  <2>2. f > inserted /\ f # e
    BY <2>1
  <2> QED
    BY <1>1, <2>2 DEF UnbornIsAbsent
<1>4. LoadedIsEmitted' /\ NotBegun'
  BY DEF LoadedIsEmitted, NotBegun, Moves
<1>5. \A f \in Left' : f \in Left /\ f # e /\ stamp'[f] = stamp[f]
  BY <1>1 DEF Left, Present, Moves
<1>6. LeftIsAhead'
  BY <1>5 DEF LeftIsAhead, Moves, AfterCursor, Below
<1>7. NoneLeft'
  BY <1>5 DEF NoneLeft, Moves
<1>8. EmittedIsBehind'
  <2> SUFFICES ASSUME ~wentBack', NEW f \in Ids
               PROVE  /\ emitted[f] <= 1
                      /\ emitted[f] # 0 /\ stamp'[f] > 0 => ~AfterCursor(f)'
    BY DEF EmittedIsBehind, Moves, Present
  <2>1. emitted[f] <= 1 /\ (emitted[f] # 0 /\ stamp[f] > 0 => ~AfterCursor(f))
    BY DEF EmittedIsBehind, Present
  <2>2. cursor' = cursor /\ cursor.stamp \in Int /\ cursor.id \in Int
    BY StreamOrder DEF Moves
  <2>3. CASE f # e
    BY <1>1, <2>1, <2>2, <2>3 DEF AfterCursor, Below
  <2>4. CASE f = e /\ s # 0 /\ emitted[e] # 0
    <3>1. e \in Present /\ stamp[e] <= s /\ stamp[e] \in Int /\ s \in Int /\ e \in Int
      BY <2>4, StreamOrder, ExportAssumption DEF Moves, Ids
    <3>2. ~AfterCursor(e)
      BY <2>1, <2>4, <3>1 DEF Present
    <3>3. ~(stamp'[e] < cursor'.stamp \/ (stamp'[e] = cursor'.stamp /\ e < cursor'.id))
      BY <1>1, <2>2, <3>1, <3>2 DEF AfterCursor, Below
    <3> QED
      BY <2>1, <2>4, <3>3 DEF AfterCursor, Below
  <2> QED
    BY <1>1, <2>1, <2>3, <2>4
<1> QED
  BY <1>2, <1>3, <1>4, <1>6, <1>7, <1>8

LEMMA StreamStep ==
  ASSUME ExportInv, NextPage
  PROVE  ExportInv'
<1> USE DEF ExportInv
<1>0. PICK held \in SUBSET {e \in Page : loaded[e] # 0} :
        loaded' = [e \in Ids |-> IF e \in Page \ held THEN stamp[e] ELSE loaded[e]]
  BY DEF NextPage
<1>1. PICK last \in Page :
        /\ \A e \in Page : e = last \/ Below(last, At(e))
        /\ cursor' = [stamp |-> loaded'[last], id |-> last]
  BY DEF NextPage
<1>2. /\ \A e \in Ids : loaded'[e] = IF e \in Page \ held THEN stamp[e] ELSE loaded[e]
      /\ \A e \in held : e \in Page /\ loaded[e] # 0
      /\ \A e \in Ids : emitted'[e] = IF e \in Page THEN emitted[e] + 1 ELSE emitted[e]
      /\ stamp' = stamp /\ inserted' = inserted /\ now' = now
      /\ touched' = touched /\ wentBack' = wentBack
      /\ export = "paging" /\ count < Cap
      /\ count' = count + Cardinality(Page)
      /\ export' = IF Cardinality(Page) < Limit THEN "done" ELSE "paging"
  BY <1>0 DEF NextPage, tableVars
<1>3. /\ Page \subseteq Ids /\ Page \subseteq Rest /\ last \in Ids
      /\ \A e \in Page : stamp[e] > 0 /\ AfterCursor(e)
  BY PageIs DEF Rest, Present
<1>4. \A e \in Ids : /\ stamp[e] \in 0 .. MaxTime /\ loaded[e] \in 0 .. MaxTime
                     /\ emitted[e] \in Nat
  BY DEF ExportTypeOK
<1>5. ExportTypeOK'
  <2>1. loaded' \in [Ids -> 0 .. MaxTime] /\ emitted' \in [Ids -> Nat]
    BY <1>0, <1>4 DEF NextPage
  <2>2. loaded'[last] \in 1 .. (MaxTime + 1) /\ last \in 0 .. MaxEvents
    BY <1>2, <1>3, <1>4, ExportAssumption DEF Ids
  <2>3. cursor' \in [stamp : 1 .. (MaxTime + 1), id : 0 .. MaxEvents]
    BY <1>1, <2>2
  <2>4. count' \in 0 .. Cap
    <3>1. Cardinality(Page) \in Nat /\ Cardinality(Page) <= Limit
      BY <1>1, PageFits
    <3>2. count \in Int /\ 0 <= count /\ Limit \in Int /\ Limit <= Cap - count
      BY ExportAssumption DEF ExportTypeOK, Limit
    <3> QED
      BY <1>2, <3>1, <3>2, ExportAssumption
  <2>5. export' \in {"none", "paging", "done"}
    BY <1>2
  <2> QED
    BY <1>2, <2>1, <2>3, <2>4, <2>5 DEF ExportTypeOK
<1>6. UnbornIsAbsent'
  BY <1>2, <1>3 DEF UnbornIsAbsent
<1>7. LoadedIsEmitted'
  BY <1>2, <1>3, <1>4 DEF LoadedIsEmitted
<1>8. NotBegun'
  BY <1>2 DEF NotBegun
<1>9. EmittedIsBehind'
  <2> SUFFICES ASSUME ~wentBack, NEW e \in Ids
               PROVE  /\ emitted'[e] <= 1
                      /\ emitted'[e] # 0 /\ stamp[e] > 0 => ~AfterCursor(e)'
    BY <1>2 DEF EmittedIsBehind, Present
  <2>1. \A f \in Ids : emitted[f] <= 1 /\ (emitted[f] # 0 /\ stamp[f] > 0 => ~AfterCursor(f))
    BY DEF EmittedIsBehind, Present
  <2>2. \A f \in Page : emitted[f] = 0 /\ loaded[f] = 0
    BY <1>3, <2>1 DEF LoadedIsEmitted
  <2>3. loaded'[last] = stamp[last]
    BY <1>2, <1>3, <2>2
  <2>5. AfterCursor(e)' <=> Below(e, At(last))
    BY <1>1, <1>2, <2>3 DEF AfterCursor, Below, At
  <2>6. CASE e \in Page
    BY <1>1, <1>2, <1>3, <2>2, <2>5, <2>6, StreamOrder
  <2>7. CASE e \notin Page
    <3>1. emitted'[e] = emitted[e] /\ AfterCursor(last)
      BY <1>2, <1>3, <2>7
    <3>2. Below(e, At(last)) => AfterCursor(e)
      BY <1>3, <3>1, StreamOrder DEF AfterCursor
    <3> QED
      BY <2>1, <2>5, <3>1, <3>2
  <2> QED
    BY <2>6, <2>7
<1>10. \A e \in Left' : e \in Left /\ e \in Ids /\ e \notin Page /\ e \in Rest
  BY <1>2, <1>4 DEF Left, Present, LeftIsAhead, Rest
<1>11. LeftIsAhead'
  <2> SUFFICES ASSUME NEW e \in Left'
               PROVE  /\ AfterCursor(e)'
                      /\ \A f \in Ids : loaded'[f] # 0 =>
                           Below(e, [stamp |-> loaded[f], id |-> f])'
    BY DEF LeftIsAhead
  <2>1. /\ e \in Left /\ e \in Ids /\ e \notin Page /\ e \in Rest
        /\ \A f \in Ids : loaded[f] # 0 => Below(e, [stamp |-> loaded[f], id |-> f])
    BY <1>2, <1>10 DEF LeftIsAhead
  <2>2. ASSUME NEW f \in Page PROVE Below(e, At(f))
    BY <1>3, <2>1, <2>2, PageIsTop, StreamOrder
  <2>3. AfterCursor(e)'
    <3>1. Below(e, [stamp |-> loaded'[last], id |-> last])
      BY <1>2, <1>3, <2>1, <2>2 DEF At
    <3> QED
      BY <1>1, <1>2, <3>1 DEF AfterCursor, Below
  <2>4. ASSUME NEW f \in Ids, loaded'[f] # 0
        PROVE  Below(e, [stamp |-> loaded[f], id |-> f])'
    <3>1. Below(e, [stamp |-> loaded'[f], id |-> f])
      BY <1>2, <2>1, <2>2, <2>4 DEF At
    <3> QED
      BY <1>2, <3>1 DEF Below
  <2> QED
    BY <2>3, <2>4
<1>12. NoneLeft'
  BY <1>2, <1>10, ShortPageIsAll DEF NoneLeft
<1> QED
  BY <1>5, <1>6, <1>7, <1>8, <1>9, <1>11, <1>12

LEMMA ExportStep == ExportInv /\ [ExportNext]_exportVars => ExportInv'
<1> SUFFICES ASSUME ExportInv, [ExportNext]_exportVars PROVE ExportInv'
  OBVIOUS
<1> USE DEF ExportInv, tableVars, streamVars
<1>1. CASE Elapse
  <2>1. now' \in 1 .. MaxTime
    BY <1>1, ExportAssumption DEF Elapse, ExportTypeOK
  <2> QED
    BY <1>1, <2>1 DEF Elapse, ExportTypeOK, UnbornIsAbsent, LoadedIsEmitted, NotBegun,
       EmittedIsBehind, LeftIsAhead, NoneLeft, Left, Present, AfterCursor, Below
<1>2. ASSUME NEW s \in 1 .. MaxTime, Insertion(s) PROVE ExportInv'
  <2> DEFINE e == inserted + 1
  <2>1. /\ e \in Ids /\ inserted' = e /\ e \in 0 .. MaxEvents /\ inserted <= e /\ e <= inserted'
        /\ inserted \in Int
    BY <1>2, ExportAssumption DEF Insertion, ExportTypeOK, Ids
  <2>2. stamp[e] = 0 /\ emitted[e] = 0
    BY <2>1 DEF UnbornIsAbsent
  <2>3. Moves(e, s) /\ wentBack' = (wentBack \/ s < stamp[e])
    BY <1>2, <2>1, ExportAssumption DEF Insertion, Stamped, Moves
  <2> HIDE DEF e
  <2> QED
    BY <2>1, <2>2, <2>3, TableStep DEF ExportTypeOK
<1>3. ASSUME NEW s \in 1 .. MaxTime, NEW e \in Ids, Reception(e, s) PROVE ExportInv'
  <2>1. /\ Moves(e, s) /\ wentBack' = (wentBack \/ s < stamp[e]) /\ e \in Present
        /\ inserted' = inserted
    BY <1>3, ExportAssumption DEF Reception, Stamped, Moves
  <2>2. /\ e <= inserted' /\ inserted <= inserted' /\ inserted' \in 0 .. MaxEvents
        /\ stamp[e] \in Int /\ s \in Int
    BY <2>1, ExportAssumption DEF UnbornIsAbsent, Present, ExportTypeOK, Ids
  <2>3. /\ wentBack' \in BOOLEAN /\ (~wentBack' => ~wentBack)
        /\ (~wentBack' => ~(s < stamp[e]))
    BY <2>1 DEF ExportTypeOK
  <2>4. ~wentBack' => stamp[e] <= s
    BY <2>2, <2>3
  <2> QED
    BY <2>1, <2>2, <2>3, <2>4, TableStep
<1>4. ASSUME NEW e \in Ids, Purge(e) PROVE ExportInv'
  <2>1. /\ Moves(e, 0) /\ wentBack' = wentBack /\ e \in Present
        /\ inserted' = inserted
    BY <1>4, ExportAssumption DEF Purge, Moves
  <2>2. e <= inserted /\ inserted \in Int
    BY <2>1, ExportAssumption DEF UnbornIsAbsent, Present, ExportTypeOK, Ids
  <2> QED
    BY <2>1, <2>2, TableStep DEF ExportTypeOK
<1>5. CASE StartExport
  <2>1. /\ export' = "paging" /\ touched' = {} /\ wentBack' = FALSE
        /\ UNCHANGED <<stamp, inserted, now, cursor, loaded, emitted, count>>
        /\ cursor = Top /\ count = 0
        /\ \A e \in Ids : emitted[e] = 0 /\ loaded[e] = 0
    BY <1>5 DEF StartExport, NotBegun, LoadedIsEmitted
  <2>2. ExportTypeOK' /\ UnbornIsAbsent' /\ LoadedIsEmitted' /\ NotBegun' /\ NoneLeft'
    BY <2>1 DEF ExportTypeOK, UnbornIsAbsent, LoadedIsEmitted, NotBegun, NoneLeft
  <2>3. EmittedIsBehind'
    BY <2>1 DEF EmittedIsBehind
  <2>4. ASSUME NEW e \in Ids PROVE AfterCursor(e)'
    <3>1. stamp[e] < MaxTime + 1
      BY ExportAssumption DEF ExportTypeOK
    <3> QED
      BY <2>1, <3>1 DEF AfterCursor, Below, Top
  <2>5. LeftIsAhead'
    BY <2>1, <2>4 DEF LeftIsAhead, Left, Present
  <2> QED
    BY <2>2, <2>3, <2>5
<1>6. CASE NextPage
  BY <1>6, StreamStep
<1>7. CASE EndExport
  <2>1. /\ export = "paging" /\ export' = "done"
        /\ UNCHANGED <<stamp, inserted, now, cursor, loaded, emitted, count, touched, wentBack>>
    BY <1>7 DEF EndExport
  <2>2. /\ ExportTypeOK' /\ UnbornIsAbsent' /\ LoadedIsEmitted' /\ NotBegun' /\ EmittedIsBehind'
        /\ LeftIsAhead'
    BY <2>1 DEF ExportTypeOK, UnbornIsAbsent, LoadedIsEmitted, NotBegun, EmittedIsBehind,
       LeftIsAhead, AfterCursor, Below, Present
  <2>3. ASSUME count < Cap PROVE Left = {}
    <3>1. Page = {} /\ 0 < Limit
      BY <1>7, <2>3, ExportAssumption DEF EndExport, Limit, ExportTypeOK
    <3>2. Rest = {}
      BY <3>1, ShortPageIsAll, FS_EmptySet
    <3> QED
      BY <2>1, <3>2 DEF LeftIsAhead, Left, Rest
  <2>4. NoneLeft'
    BY <2>1, <2>3 DEF NoneLeft, Left, Present
  <2> QED
    BY <2>2, <2>4
<1>8. CASE UNCHANGED exportVars
  BY <1>8 DEF exportVars, ExportTypeOK, UnbornIsAbsent, LoadedIsEmitted, NotBegun,
     EmittedIsBehind, LeftIsAhead, NoneLeft, Left, Present, AfterCursor, Below
<1> QED
  BY <1>1, <1>2, <1>3, <1>4, <1>5, <1>6, <1>7, <1>8 DEF ExportNext

(* An export under live ingestion repeats no row, unless the time of some  *)
(* row went back; it leaves out no row that nothing happened to, unless    *)
(* its cap ended it; and it never exceeds the cap: for any table, size of  *)
(* the pages and cap.                                                      *)
THEOREM ExportStaysFaithful == ExportSpec => []ExportIsFaithful
<1>1. ExportInit => ExportInv
  BY ExportInit0
<1> QED
  BY <1>1, ExportStep, InvIsFaithful, PTL DEF ExportSpec
==============================================================================
