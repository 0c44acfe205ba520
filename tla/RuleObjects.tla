----------------------------- MODULE RuleObjects -----------------------------
(***************************************************************************)
(* The PrometheusRule objects of a team, and the deletion of the team      *)
(* (backend/app/services/k8s.py, services/rule_transfer.py, api/rules.py,  *)
(* delete_team in api/teams.py).                                           *)
(*                                                                         *)
(* The objects live in the clusters, where others may change them too.  A  *)
(* request reads an object, sees whether the labels name its team, and     *)
(* sends the change with the resourceVersion it has read; the cluster      *)
(* refuses it when the object has changed since.  The team itself is a row *)
(* of the database: it is deleted after its objects, and nothing but the   *)
(* order of the calls ties the two together.                               *)
(*                                                                         *)
(* The contents of the rules, and the checks of their expressions, are     *)
(* left out, and so are disabled clusters.  A team deletion reads its      *)
(* lists in one step.  The audit rows are left out.                        *)
(***************************************************************************)
EXTENDS Integers, FiniteSets

CONSTANTS
  Places,       \* a rule name in a cluster
  Requests,     \* requests in flight at once
  MaxRequests,  \* bound: requests begun
  MaxEdits      \* bound: changes by others

ASSUME RuleObjectsAssumption ==
  /\ MaxRequests \in Nat
  /\ MaxEdits \in Nat

VARIABLES
  team,      \* the row of the team
  owner,     \* whom the labels of the object name: "team", "other"; "absent" without one
  version,   \* its resourceVersion; a new object has a new one
  request,   \* the requests in flight
  skipped,   \* the places a team deletion could not clear and passed over
  late,      \* the places written while the team was being deleted or after that
  begun,
  edits

vars == <<team, owner, version, request, skipped, late, begun, edits>>

Owners == {"absent", "team", "other"}
Imports == {"skip", "overwrite", "rename"}
Operations == {"create", "update", "delete", "delete_team"} \cup Imports

(* A call to the cluster: what it is to do and, for a replace or a delete, *)
(* the version of the object as read, Unread before that.                  *)
Unread == -1
Calls == [verb : {"create", "replace", "delete"}, place : Places, version : Nat \cup {Unread}]
NoCall == [verb |-> "none"]

(* A request: the places it still has to come to, the ones it has claimed  *)
(* for itself, and the call it is making.                                  *)
RequestType == [op : Operations, todo : SUBSET Places, taken : SUBSET Places,
                call : Calls \cup {NoCall}]
NoRequest == [op |-> "none"]

Active(h) == request[h] # NoRequest
Calling(h) == Active(h) /\ request[h].call # NoCall

TypeOK ==
  /\ team \in {"live", "deleted"}
  /\ owner \in [Places -> Owners]
  /\ version \in [Places -> Nat]
  /\ request \in [Requests -> RequestType \cup {NoRequest}]
  /\ \A h \in Requests : Calling(h) => request[h].call.place \in request[h].taken
  /\ skipped \subseteq Places
  /\ late \subseteq Places
  /\ begun \in 0..MaxRequests
  /\ edits \in 0..MaxEdits

Init ==
  /\ team = "live"
  /\ owner \in [Places -> Owners]
  /\ version = [p \in Places |-> 0]
  /\ request = [h \in Requests |-> NoRequest]
  /\ skipped = {}
  /\ late = {}
  /\ begun = 0
  /\ edits = 0

Owned == {p \in Places : owner[p] = "team"}

-----------------------------------------------------------------------------
(* Requests begin: the team is there, and so is a rule to update or delete *)
(* (whoever owns it: that is looked at later).                             *)

Begin(h, op, S) ==
  /\ ~Active(h)
  /\ begun < MaxRequests
  /\ begun' = begun + 1
  /\ team = "live"
  /\ op \notin Imports => Cardinality(S) = 1
  /\ op \in {"update", "delete"} => \A p \in S : owner[p] # "absent"
  /\ request' = [request EXCEPT ![h] = [op |-> op, todo |-> S, taken |-> {}, call |-> NoCall]]
  /\ UNCHANGED <<team, owner, version, skipped, late, edits>>

(* A team deletion lists the objects of the team before it deletes any.    *)
BeginTeamDeletion(h) ==
  /\ ~Active(h)
  /\ begun < MaxRequests
  /\ begun' = begun + 1
  /\ team = "live"
  /\ request' = [request EXCEPT ![h] =
       [op |-> "delete_team", todo |-> Owned, taken |-> {}, call |-> NoCall]]
  /\ UNCHANGED <<team, owner, version, skipped, late, edits>>

Deleting == team = "deleted" \/ \E h \in Requests : request[h].op = "delete_team"

-----------------------------------------------------------------------------
(* Calls to the cluster.                                                   *)

(* Mutant: the name a rule is renamed to is not remembered. *)
CallForgetting(h, p, verb, q) ==
  request' = [request EXCEPT
    ![h].todo = @ \ {p},
    ![h].taken = @ \cup {p},
    ![h].call = [verb |-> verb, place |-> q, version |-> Unread]]

Call(h, p, verb, q) ==
  request' = [request EXCEPT
    ![h].todo = @ \ {p},
    ![h].taken = @ \cup {q},
    ![h].call = [verb |-> verb, place |-> q, version |-> Unread]]

(* An import decides what to do with a rule by looking whether there is    *)
(* one already, or whether it has put one there itself.                    *)
Decide(h, p) ==
  LET r == request[h]
      conflict == owner[p] # "absent" \/ p \in r.taken
  IN
  /\ Active(h) /\ ~Calling(h)
  /\ p \in r.todo
  /\ \/ r.op = "create" /\ Call(h, p, "create", p)
     \/ r.op = "update" /\ Call(h, p, "replace", p)
     \/ r.op \in {"delete", "delete_team"} /\ Call(h, p, "delete", p)
     \/ r.op \in Imports /\ ~conflict /\ Call(h, p, "create", p)
     \/ r.op = "overwrite" /\ conflict /\ Call(h, p, "replace", p)
     \/ /\ r.op = "rename" /\ conflict
        /\ \E q \in Places \ r.taken : owner[q] = "absent" /\ Call(h, p, "create", q)
     \/ /\ r.op = "skip" /\ conflict
        /\ request' = [request EXCEPT ![h].todo = @ \ {p}, ![h].taken = @ \cup {p}]
     \/ /\ r.op = "rename" /\ conflict
        /\ \A q \in Places \ r.taken : owner[q] # "absent"
        /\ request' = [request EXCEPT ![h].todo = @ \ {p}]
  /\ UNCHANGED <<team, owner, version, skipped, late, begun, edits>>

(* The call is over.  A team deletion remembers, for its log, what it had  *)
(* to pass over.                                                           *)
Return(h, failed) ==
  /\ request' = [request EXCEPT ![h].call = NoCall]
  /\ skipped' = IF failed /\ request[h].op = "delete_team"
                THEN skipped \cup {request[h].call.place} ELSE skipped

(* replace_rule and delete_rule read the object; one that is not the       *)
(* team's is left alone.                                                   *)
Read(h) ==
  LET c == request[h].call IN
  /\ Calling(h)
  /\ c.verb \in {"replace", "delete"} /\ c.version = Unread
  /\ IF owner[c.place] = "team"
     THEN /\ request' = [request EXCEPT ![h].call.version = version[c.place]]
          /\ UNCHANGED skipped
     ELSE Return(h, TRUE)
  /\ UNCHANGED <<team, owner, version, late, begun, edits>>

Write(p, o) ==
  /\ owner' = [owner EXCEPT ![p] = o]
  /\ version' = [version EXCEPT ![p] = @ + 1]
  /\ late' = IF o = "team" /\ Deleting THEN late \cup {p} ELSE late

Create(h) ==
  LET c == request[h].call IN
  /\ Calling(h)
  /\ c.verb = "create"
  /\ owner[c.place] = "absent"
  /\ Write(c.place, "team")
  /\ Return(h, FALSE)
  /\ UNCHANGED <<team, begun, edits>>

(* Mutant: the change is sent without a precondition. *)
StillThere(c) == owner[c.place] # "absent"

(* Does the precondition of the change hold?                               *)
Unchanged(c) == owner[c.place] # "absent" /\ version[c.place] = c.version

Change(h) ==
  LET c == request[h].call IN
  /\ Calling(h)
  /\ c.verb \in {"replace", "delete"} /\ c.version # Unread
  /\ Unchanged(c)
  /\ Write(c.place, IF c.verb = "replace" THEN "team" ELSE "absent")
  /\ Return(h, FALSE)
  /\ UNCHANGED <<team, begun, edits>>

(* The cluster refuses: there is an object already, it has changed, it is  *)
(* gone, or the request is malformed.  To a delete, gone is as good as     *)
(* deleted.                                                                *)
Refuse(h) ==
  LET c == request[h].call IN
  /\ Calling(h)
  /\ c.verb # "create" => c.version # Unread
  /\ Return(h, ~(c.verb = "delete" /\ owner[c.place] = "absent"))
  /\ UNCHANGED <<team, owner, version, late, begun, edits>>

(* Mutant: a cluster that drops out is passed over. *)
PassOver(h) ==
  /\ Calling(h)
  /\ request' = [request EXCEPT ![h].call = NoCall]
  /\ UNCHANGED <<team, owner, version, skipped, late, begun, edits>>

(* The cluster cannot be reached.  An import may go on with its next rule; *)
(* every other request ends here, a team deletion with the team in place.  *)
(* A request that dies ends the same way.                                  *)
Unreachable(h) ==
  /\ Active(h)
  /\ \/ /\ request[h].op \in Imports /\ Calling(h)
        /\ request' = [request EXCEPT ![h].call = NoCall]
     \/ request' = [request EXCEPT ![h] = NoRequest]
  /\ UNCHANGED <<team, owner, version, skipped, late, begun, edits>>

(* The request commits what it has to write to the database: the team, if  *)
(* it is there to be deleted.                                              *)
Finish(h) ==
  LET r == request[h] IN
  /\ Active(h) /\ ~Calling(h)
  /\ r.todo = {}
  /\ team' = IF r.op = "delete_team" THEN "deleted" ELSE team
  /\ request' = [request EXCEPT ![h] = NoRequest]
  /\ UNCHANGED <<owner, version, skipped, late, begun, edits>>

-----------------------------------------------------------------------------
(* Others with access to the cluster create, relabel and delete objects.   *)
Edit(p, o) ==
  /\ edits < MaxEdits
  /\ edits' = edits + 1
  /\ o # owner[p]
  /\ Write(p, o)
  /\ UNCHANGED <<team, request, skipped, begun>>

Step(h) ==
  \/ \E p \in Places : Decide(h, p)
  \/ Read(h)
  \/ Create(h)
  \/ Change(h)
  \/ Refuse(h)
  \/ Unreachable(h)
  \/ Finish(h)

Next ==
  \/ \E h \in Requests :
       \/ \E op \in Operations \ {"delete_team"}, S \in SUBSET Places : Begin(h, op, S)
       \/ BeginTeamDeletion(h)
       \/ Step(h)
  \/ \E p \in Places, o \in Owners : Edit(p, o)

Spec == Init /\ [][Next]_vars

-----------------------------------------------------------------------------
(* Properties.                                                             *)

(* "A bug or bypass in routing/RBAC code can never result in a foreign or  *)
(* unmanaged rule being mutated": what the labels do not give to the team  *)
(* is changed by others only, even when it is relabelled between the read  *)
(* and the write of a request.                                             *)
ForeignUntouched ==
  [][\A p \in Places :
       owner[p] = "other" /\ version'[p] # version[p] => edits' # edits]_vars

(* "An admin should never end up with the team gone but rules silently     *)
(* left behind because a cluster dropped out": when the team is gone, only *)
(* those of its rules are left that were passed over, which is logged, or  *)
(* written while the deletion was under way.                               *)
DeletionIsComplete == team = "deleted" => Owned \subseteq skipped \cup late
=============================================================================
