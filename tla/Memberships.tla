---------------------------- MODULE Memberships -----------------------------
(***************************************************************************)
(* The team memberships of one user: every login makes those that came     *)
(* from the directory agree with its groups, owners and administrators     *)
(* change them by hand (backend/app/services/auth_sync.py, api/auth.py,    *)
(* api/teams.py, api/users.py, models/team.py).                            *)
(*                                                                         *)
(* A login asks the directory, then reads and stages, then commits, each   *)
(* in a step of its own.  The requests of owners and administrators read   *)
(* and write a single row, and are one step.                               *)
(***************************************************************************)
EXTENDS Integers, FiniteSets

CONSTANTS
  Teams,
  Groups,       \* groups of the directory
  AdminGroups,  \* LDAP_ADMIN_GROUPS
  Logins,       \* logins of the user that may be under way at one time
  MaxLogins,    \* bound: logins
  MaxActs       \* bound: changes by owners, administrators, and in the directory

ASSUME MembershipsAssumption ==
  /\ AdminGroups \subseteq Groups
  /\ MaxLogins \in Nat
  /\ MaxActs \in Nat

VARIABLES
  groups,    \* the groups of the user, in the directory
  mappings,  \* TeamLdapMapping
  account,   \* the row of the user: "absent", "active", "inactive"
  admin,     \* is_admin
  member,    \* the membership of the user in each team, or Outside
  nextId,    \* the id of the next membership; only those of one team are compared
  login,
  logins,
  acts

memberVars == <<groups, mappings, account, admin, member, nextId, login, logins, acts>>

Roles == {"owner", "member"}

Outside == [id |-> 0, role |-> "none", origin |-> "none"]

MembershipType == [id : Nat \ {0}, role : Roles, origin : {"ldap", "manual"}]

(* current: has nothing that the login has read changed meanwhile?         *)
NoLogin ==
  [at |-> "idle", groups |-> {}, creates |-> FALSE, promotes |-> FALSE,
   seen |-> [t \in Teams |-> Outside], grants |-> [t \in Teams |-> "none"], current |-> FALSE]

(* The user is unknown, or has memberships from an earlier login.          *)
MembershipsInit ==
  /\ groups \in SUBSET Groups
  /\ mappings = {}
  /\ account \in {"absent", "active"}
  /\ admin = FALSE
  /\ member \in [Teams -> {Outside, [id |-> 1, role |-> "member", origin |-> "ldap"]}]
  /\ account = "absent" => \A t \in Teams : member[t] = Outside
  /\ nextId = 2
  /\ login = [l \in Logins |-> NoLogin]
  /\ logins = 0
  /\ acts = 0

-----------------------------------------------------------------------------
(* The roles that the mappings give the user in a team.                    *)
Granted(t, gs) == {m.role : m \in {n \in mappings : n.inTeam = t /\ n.group \in gs}}

(* authenticate: the bind, and the groups the directory reports.           *)
Authenticate(l) ==
  /\ login[l].at = "idle"
  /\ logins < MaxLogins
  /\ logins' = logins + 1
  /\ login' = [login EXCEPT ![l] = [NoLogin EXCEPT !.at = "bound", !.groups = groups,
                                                   !.current = TRUE]]
  /\ UNCHANGED <<groups, mappings, account, admin, member, nextId, acts>>

(* sync_user, _sync_memberships: what is read, and the role of each team.  *)
(* When several mappings match, it is the role of the last one; the query  *)
(* has no order.                                                           *)
Sync(l) ==
  /\ login[l].at = "bound"
  /\ account # "inactive"
  /\ \E grants \in [Teams -> Roles \cup {"none"}] :
       /\ \A t \in Teams :
            LET roles == Granted(t, login[l].groups)
            IN IF roles = {} THEN grants[t] = "none" ELSE grants[t] \in roles
       /\ login' = [login EXCEPT ![l].at = "staged", ![l].seen = member, ![l].grants = grants,
                                 ![l].creates = (account = "absent"),
                                 ![l].promotes = (login[l].groups \cap AdminGroups # {})]
  /\ UNCHANGED <<groups, mappings, account, admin, member, nextId, logins, acts>>

(* Mutant: the membership is found again by its team, not by its id. *)
AfterByTeam(l, t) ==
  LET seen == login[l].seen[t]  grant == login[l].grants[t]
  IN IF seen = Outside /\ grant # "none"
       THEN [id |-> nextId, role |-> grant, origin |-> "ldap"]
     ELSE IF seen.origin = "ldap"
       THEN IF grant = "none" THEN Outside
            ELSE IF grant # seen.role THEN [member[t] EXCEPT !.role = grant]
            ELSE member[t]
     ELSE member[t]

(* The membership in a team after the commit: rows are updated and deleted *)
(* by the id that was read.                                                *)
After(l, t) ==
  LET seen == login[l].seen[t]  grant == login[l].grants[t]
  IN IF seen = Outside /\ grant # "none"
       THEN [id |-> nextId, role |-> grant, origin |-> "ldap"]
     ELSE IF seen.origin = "ldap" /\ member[t].id = seen.id
       THEN IF grant = "none" THEN Outside
            ELSE IF grant # seen.role THEN [member[t] EXCEPT !.role = grant]
            ELSE member[t]
     ELSE member[t]

(* The commit violates a unique key when the user, or the membership, has  *)
(* been added meanwhile, and fails when a row to update is gone.           *)
Commits(l) ==
  /\ login[l].creates => account = "absent"
  /\ \A t \in Teams :
       LET seen == login[l].seen[t]  grant == login[l].grants[t]
       IN /\ seen = Outside /\ grant # "none" => member[t] = Outside
          /\ seen.origin = "ldap" /\ grant \notin {"none", seen.role} => member[t].id = seen.id

(* What was read before a change is no longer current.                     *)
Outdate == [l \in Logins |-> [login[l] EXCEPT !.current = FALSE]]

CommitLogin(l) ==
  /\ login[l].at = "staged"
  /\ Commits(l)
  /\ account' = IF login[l].creates THEN "active" ELSE account
  /\ admin' = (admin \/ login[l].promotes)
  /\ member' = [t \in Teams |-> After(l, t)]
  /\ nextId' = nextId + 1
  /\ login' = [Outdate EXCEPT ![l] = NoLogin]
  /\ UNCHANGED <<groups, mappings, logins, acts>>

(* The login is refused, the user is inactive, or the commit fails.        *)
FailLogin(l) ==
  /\ login[l].at # "idle"
  /\ login' = [login EXCEPT ![l] = NoLogin]
  /\ UNCHANGED <<groups, mappings, account, admin, member, nextId, logins, acts>>

-----------------------------------------------------------------------------
(* Everybody else.                                                         *)

Act ==
  /\ acts < MaxActs
  /\ acts' = acts + 1
  /\ login' = Outdate

(* add_member.                                                             *)
AddMember(t, role) ==
  /\ Act
  /\ account # "absent"
  /\ member[t] = Outside
  /\ member' = [member EXCEPT ![t] = [id |-> nextId, role |-> role, origin |-> "manual"]]
  /\ nextId' = nextId + 1
  /\ UNCHANGED <<groups, mappings, account, admin, logins>>

(* remove_member: a row of either origin.                                  *)
RemoveMember(t) ==
  /\ Act
  /\ member[t] # Outside
  /\ member' = [member EXCEPT ![t] = Outside]
  /\ UNCHANGED <<groups, mappings, account, admin, nextId, logins>>

(* create_ldap_mapping, delete_ldap_mapping: one of a team and a group.    *)
AddMapping(t, g, role) ==
  /\ Act
  /\ ~\E m \in mappings : m.inTeam = t /\ m.group = g
  /\ mappings' = mappings \cup {[inTeam |-> t, group |-> g, role |-> role]}
  /\ UNCHANGED <<groups, account, admin, member, nextId, logins>>

RemoveMapping(m) ==
  /\ Act
  /\ mappings' = mappings \ {m}
  /\ UNCHANGED <<groups, account, admin, member, nextId, logins>>

(* update_user.                                                            *)
UpdateUser(isAdmin, status) ==
  /\ Act
  /\ account # "absent"
  /\ admin' = isAdmin
  /\ account' = status
  /\ UNCHANGED <<groups, mappings, member, nextId, logins>>

(* The groups of the user change in the directory.                         *)
Regroup(gs) ==
  /\ Act
  /\ groups' = gs
  /\ UNCHANGED <<mappings, account, admin, member, nextId, logins>>

MembershipsNext ==
  \/ \E l \in Logins : Authenticate(l) \/ Sync(l) \/ CommitLogin(l) \/ FailLogin(l)
  \/ \E t \in Teams :
       \/ \E role \in Roles :
            AddMember(t, role) \/ (\E g \in Groups : AddMapping(t, g, role))
       \/ RemoveMember(t)
  \/ \E m \in mappings : RemoveMapping(m)
  \/ \E isAdmin \in BOOLEAN, status \in {"active", "inactive"} : UpdateUser(isAdmin, status)
  \/ \E gs \in SUBSET Groups : Regroup(gs)

MembershipsSpec == MembershipsInit /\ [][MembershipsNext]_memberVars

-----------------------------------------------------------------------------
(* A login that commits leaves every membership that was given by hand as  *)
(* it is, and never demotes an administrator, whatever the requests that   *)
(* overlapped with it did.  When there were none, the memberships of the   *)
(* directory are afterwards exactly those its groups give.                 *)
GivesExactly(l) ==
  \A t \in Teams : member[t].origin # "manual" =>
    LET roles == Granted(t, login[l].groups)
    IN IF roles = {} THEN member'[t] = Outside
       ELSE member'[t].origin = "ldap" /\ member'[t].role \in roles

LoginGivesWhatTheDirectoryGives ==
  [][\A l \in Logins : login[l].at = "staged" /\ CommitLogin(l) =>
       /\ \A t \in Teams : member[t].origin = "manual" => member'[t] = member[t]
       /\ admin => admin'
       /\ login[l].current => GivesExactly(l)]_memberVars
=============================================================================
