---------------------------- MODULE RouteConfig -----------------------------
(***************************************************************************)
(* The routing rules of a team and what they name: notification channels,  *)
(* escalation channels, a template (backend/app/api/routes.py,             *)
(* api/channels.py, api/templates.py).  A save is checked against the      *)
(* channels and the template as they are, and replaces the rule; the       *)
(* deletion of a channel, and the withdrawal of the consent to be another  *)
(* team's escalation, strip it from the rules.                             *)
(*                                                                         *)
(* A request reads, checks and stages in one step and commits in another,  *)
(* so that two of them overlap.  Matchers and filters play no part.        *)
(***************************************************************************)
EXTENDS Integers, FiniteSets

CONSTANTS
  Routes,     \* routing rules of the team
  OwnChannels,
  ForeignChannels,  \* channels of other teams
  Templates,
  Editors,    \* requests that may be open at one time
  MaxSaves,   \* bound: requests
  NoTemplate

ASSUME RouteConfigAssumption ==
  /\ IsFiniteSet(Editors)
  /\ OwnChannels \cap ForeignChannels = {}
  /\ NoTemplate \notin Templates
  /\ MaxSaves \in Nat

AllChannels == OwnChannels \cup ForeignChannels

VARIABLES
  route,     \* the rules: a record, or NoRoute
  channel,   \* "kept", "open" to the escalations of other teams, "deleted"
  kind,      \* of each template: "alert", "report", or "gone"
  edit,      \* the open requests
  raced,     \* rules that a request wrote after another one overtook it
  retyped,   \* templates whose kind was changed
  saves

configVars == <<route, channel, kind, edit, raced, retyped, saves>>

RouteType ==
  [action : {"notify", "suppress"},
   channels : SUBSET OwnChannels,
   escalates : BOOLEAN,
   targets : SUBSET AllChannels,
   template : Templates \cup {NoTemplate}]

NoRoute ==
  [action |-> "none", channels |-> {}, escalates |-> FALSE, targets |-> {},
   template |-> NoTemplate]

NoEdit ==
  [op |-> "none", route |-> {}, channel |-> {}, loaded |-> NoRoute, body |-> NoRoute,
   strip |-> {}, cleared |-> {}, crossed |-> FALSE]

ConfigInit ==
  /\ route = [q \in Routes |-> NoRoute]
  /\ channel \in [AllChannels -> {"kept", "open"}]
  /\ kind = [m \in Templates |-> "alert"]
  /\ edit = [e \in Editors |-> NoEdit]
  /\ raced = {}
  /\ retyped = {}
  /\ saves = 0

-----------------------------------------------------------------------------
(* What a save is checked against.                                         *)

(* _resolve_channels.                                                      *)
AcceptsChannels(body) ==
  IF body.action = "suppress" THEN body.channels = {}
  ELSE body.channels # {} /\ \A k \in body.channels : channel[k] # "deleted"

(* _validate_escalation and _resolve_escalation_channels: the targets of a *)
(* rule that does not escalate are not looked at.                          *)
AcceptsEscalation(body) ==
  IF body.action = "suppress" THEN ~body.escalates /\ body.targets = {}
  ELSE body.escalates =>
         /\ body.targets # {}
         /\ \A k \in body.targets :
              channel[k] # "deleted" /\ (k \in ForeignChannels => channel[k] = "open")

(* _validate_template.                                                     *)
AcceptsTemplate(body) == body.template \in Templates => kind[body.template] = "alert"

(* What is stored of a body that is accepted.                              *)
Normal(body) ==
  IF body.action = "notify" /\ body.escalates THEN body
  ELSE [body EXCEPT !.escalates = FALSE, !.targets = {}]

-----------------------------------------------------------------------------
(* Requests.                                                               *)

Live == {q \in Routes : route[q].action \in {"notify", "suppress"}}

Naming(q, k) == k \in route[q].channels \cup route[q].targets

Request(e, op) ==
  /\ edit[e].op = "none"
  /\ saves < MaxSaves
  /\ saves' = saves + 1
  /\ edit' = [edit EXCEPT ![e] = op]
  /\ UNCHANGED <<route, channel, kind, raced, retyped>>

(* create_route, update_route: the rule is loaded and the body checked.    *)
Save(e, q, body) ==
  /\ route[q].action # "gone"
  /\ AcceptsChannels(body) /\ AcceptsEscalation(body) /\ AcceptsTemplate(body)
  /\ Request(e, [NoEdit EXCEPT !.op = "save", !.route = {q}, !.loaded = route[q],
                               !.body = Normal(body)])

(* Mutant: the deletion forgets to clear the escalation of emptied rules. *)
NoneEmptied(rules, k) == {}

(* _clear_escalation_for_emptied_rules: those whose last target goes.      *)
Emptied(rules, k) == {q \in rules : route[q].escalates /\ route[q].targets = {k}}

(* delete_channel: what its statements find.                               *)
DeleteChannel(e, k) ==
  /\ channel[k] # "deleted"
  /\ Request(e, [NoEdit EXCEPT !.op = "delete", !.channel = {k},
                               !.strip = {q \in Live : Naming(q, k)},
                               !.cleared = Emptied({q \in Live : k \in route[q].targets}, k)])

(* update_channel, allow_cross_team_escalation withdrawn: the rules of     *)
(* other teams than its own are those of this one.                         *)
Revoke(e, k) ==
  /\ k \in ForeignChannels
  /\ channel[k] = "open"
  /\ LET affected == {q \in Live : k \in route[q].targets}
     IN Request(e, [NoEdit EXCEPT !.op = "revoke", !.channel = {k}, !.strip = affected,
                                  !.cleared = Emptied(affected, k)])

(* Do two requests touch the same rule, or one a channel the other names?  *)
Named(r) == r.body.channels \cup r.body.targets
Conflict(r, s) ==
  \/ (r.route \cup r.strip) \cap (s.route \cup s.strip) # {}
  \/ r.channel \cap Named(s) # {}
  \/ s.channel \cap Named(r) # {}

(* A request commits: those in conflict with it are overtaken, and what it *)
(* writes itself after it was overtaken is recorded.                       *)
CommitEdit(e, written) ==
  /\ edit' = [f \in Editors |->
                IF f = e THEN NoEdit
                ELSE IF Conflict(edit[e], edit[f]) THEN [edit[f] EXCEPT !.crossed = TRUE]
                ELSE edit[f]]
  /\ raced' = IF edit[e].crossed THEN raced \cup written ELSE raced \ edit[e].route

(* The mapper writes the attributes that differ from what was loaded, and  *)
(* of an association the rows to delete and the rows to insert.            *)
Merged(now, loaded, body) ==
  [action |-> IF body.action # loaded.action THEN body.action ELSE now.action,
   channels |-> (now.channels \ (loaded.channels \ body.channels))
                  \cup (body.channels \ loaded.channels),
   escalates |-> IF body.escalates # loaded.escalates THEN body.escalates ELSE now.escalates,
   targets |-> (now.targets \ (loaded.targets \ body.targets))
                 \cup (body.targets \ loaded.targets),
   template |-> IF body.template # loaded.template THEN body.template ELSE now.template]

(* It fails when a row to insert is there already, when the rule has been  *)
(* created or deleted meanwhile, or when the template is gone.             *)
Fits(now, loaded, body) ==
  /\ now.action = "none" <=> loaded.action = "none"
  /\ now.action # "gone"
  /\ now.channels \cap (body.channels \ loaded.channels) = {}
  /\ now.targets \cap (body.targets \ loaded.targets) = {}
  /\ body.template \in Templates \ {loaded.template} => kind[body.template] # "gone"

CommitSave(e) ==
  /\ edit[e].op = "save"
  /\ \E q \in edit[e].route :
       /\ Fits(route[q], edit[e].loaded, edit[e].body)
       /\ route' = [route EXCEPT ![q] = Merged(@, edit[e].loaded, edit[e].body)]
  /\ CommitEdit(e, edit[e].route)
  /\ UNCHANGED <<channel, kind, retyped, saves>>

Stripped(r, k, isCleared) ==
  [r EXCEPT !.channels = @ \ k, !.targets = @ \ k, !.escalates = @ /\ ~isCleared]

(* A deletion, or a withdrawal, commits what its statements found.         *)
CommitStrip(e) ==
  /\ edit[e].op \in {"delete", "revoke"}
  /\ \E k \in edit[e].channel :
       /\ channel[k] # "deleted"
       /\ channel' = [channel EXCEPT ![k] = IF edit[e].op = "delete" THEN "deleted" ELSE "kept"]
       /\ CommitEdit(e, edit[e].strip \cup {q \in Live : Naming(q, k)})
  /\ route' = [q \in Routes |->
                 IF q \in edit[e].strip
                   THEN Stripped(route[q], edit[e].channel, q \in edit[e].cleared)
                   ELSE route[q]]
  /\ UNCHANGED <<kind, retyped, saves>>

(* A request fails: a constraint, a row that has changed, a crash.         *)
AbortEdit(e) ==
  /\ edit[e].op # "none"
  /\ edit' = [edit EXCEPT ![e] = NoEdit]
  /\ UNCHANGED <<route, channel, kind, raced, retyped, saves>>

-----------------------------------------------------------------------------
(* Requests that change one row, or leave the rest to the database.        *)

(* delete_route: the rows of its associations go with it.                  *)
DeleteRoute(q) ==
  /\ q \in Live
  /\ route' = [route EXCEPT ![q] = [NoRoute EXCEPT !.action = "gone"]]
  /\ raced' = raced \ {q}
  /\ UNCHANGED <<channel, kind, edit, retyped, saves>>

(* update_channel, allow_cross_team_escalation granted.                    *)
Grant(k) ==
  /\ channel[k] = "kept"
  /\ channel' = [channel EXCEPT ![k] = "open"]
  /\ UNCHANGED <<route, kind, edit, raced, retyped, saves>>

(* update_template: the kind may change while the template is in use.      *)
Retype(m) ==
  /\ kind[m] # "gone"
  /\ kind' = [kind EXCEPT ![m] = IF @ = "alert" THEN "report" ELSE "alert"]
  /\ retyped' = retyped \cup {m}
  /\ UNCHANGED <<route, channel, edit, raced, saves>>

(* delete_template: ON DELETE SET NULL.                                    *)
DeleteTemplate(m) ==
  /\ kind[m] # "gone"
  /\ kind' = [kind EXCEPT ![m] = "gone"]
  /\ route' = [q \in Routes |-> IF route[q].template = m
                                  THEN [route[q] EXCEPT !.template = NoTemplate]
                                  ELSE route[q]]
  /\ UNCHANGED <<channel, edit, raced, retyped, saves>>

ConfigNext ==
  \/ \E e \in Editors :
       \/ \E q \in Routes, body \in RouteType : Save(e, q, body)
       \/ \E k \in AllChannels : DeleteChannel(e, k) \/ Revoke(e, k)
       \/ CommitSave(e) \/ CommitStrip(e) \/ AbortEdit(e)
  \/ \E q \in Routes : DeleteRoute(q)
  \/ \E k \in AllChannels : Grant(k)
  \/ \E m \in Templates : Retype(m) \/ DeleteTemplate(m)

ConfigSpec == ConfigInit /\ [][ConfigNext]_configVars

-----------------------------------------------------------------------------
(* A rule that was accepted is accepted again when it is saved as it is,   *)
(* to switch it off, say: the deletion of channels and templates and the   *)
(* withdrawal of consent, in any order, leave no rule behind that names    *)
(* what is gone or forbidden, or that escalates to nobody.  Three things   *)
(* excepted: the rule has lost its last notification channel; the kind of  *)
(* its template was changed; or two conflicting requests overlapped.       *)
RulesStaySavable ==
  \A q \in Live \ raced :
    /\ route[q].action = "suppress" \/ route[q].channels # {} => AcceptsChannels(route[q])
    /\ AcceptsEscalation(route[q])
    /\ route[q].template \notin retyped => AcceptsTemplate(route[q])
=============================================================================
