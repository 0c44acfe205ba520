------------------------------ MODULE MCConsole ------------------------------
(* Small instances of five parts of the console, each a matter of safety   *)
(* under overlapping requests: the rule objects, the routing rules and     *)
(* what they name, the memberships of a user, the export of the history,   *)
(* and the silences.  They share no state, so that one run takes them one  *)
(* by one: only the part in focus takes steps, and the others stay where   *)
(* they begin.                                                             *)
EXTENDS RuleObjects, RouteConfig, Memberships, Export, Silences, TLC

VARIABLE focus

rest == <<vars, configVars, memberVars, exportVars, silenceVars>>
console == <<rest, focus>>

(* The parts out of focus begin in one state each. *)
ConsoleInit ==
  /\ focus \in {"rules", "routes", "memberships", "export", "silences"}
  /\ Init /\ ConfigInit /\ MembershipsInit /\ ExportInit /\ SilencesInit
  /\ focus # "rules" => owner = [p \in Places |-> "absent"]
  /\ focus # "routes" => channel = [k \in AllChannels |-> "kept"]
  /\ focus # "memberships" => groups = {} /\ account = "absent"
  /\ focus # "export" => inserted = 0

ConsoleNext ==
  /\ UNCHANGED focus
  /\ \/ /\ focus = "rules" /\ Next
        /\ UNCHANGED <<configVars, memberVars, exportVars, silenceVars>>
     \/ /\ focus = "routes" /\ ConfigNext
        /\ UNCHANGED <<vars, memberVars, exportVars, silenceVars>>
     \/ /\ focus = "memberships" /\ MembershipsNext
        /\ UNCHANGED <<vars, configVars, exportVars, silenceVars>>
     \/ /\ focus = "export" /\ ExportNext
        /\ UNCHANGED <<vars, configVars, memberVars, silenceVars>>
     \/ /\ focus = "silences" /\ SilencesNext
        /\ UNCHANGED <<vars, configVars, memberVars, exportVars>>

ConsoleSpec == ConsoleInit /\ [][ConsoleNext]_console

(* Requests, editors, logins and callers are the same model values. *)
Symmetry == Permutations(Places) \cup Permutations(Requests)
=============================================================================
