------------------------------- MODULE MCLive -------------------------------
(* Small instances of four parts that wait for something to happen in the  *)
(* end: the deadman switch, the live feed, the rendering of templates and  *)
(* the report schedules.  They share no state, so that one run takes them  *)
(* one by one: only the part in focus takes steps, and the others stay     *)
(* where they begin, where none of their fair actions is possible.         *)
EXTENDS Heartbeat, LiveFeed, Rendering, Reports

VARIABLE focus

live == <<vars, feedVars, renderVars, reportVars, focus>>

LiveInit ==
  /\ focus \in {"heartbeat", "feed", "rendering", "reports"}
  /\ Init /\ FeedInit /\ RenderInit /\ ReportsInit
  /\ focus # "heartbeat" => named
  /\ now = IF focus = "reports" THEN 0 ELSE Horizon

LiveNext ==
  /\ UNCHANGED focus
  /\ \/ focus = "heartbeat" /\ Next /\ UNCHANGED <<feedVars, renderVars, reportVars>>
     \/ focus = "feed" /\ FeedNext /\ UNCHANGED <<vars, renderVars, reportVars>>
     \/ focus = "rendering" /\ RenderNext /\ UNCHANGED <<vars, feedVars, reportVars>>
     \/ focus = "reports" /\ ReportsNext /\ UNCHANGED <<vars, feedVars, renderVars>>

LiveSpec ==
  /\ LiveInit /\ [][LiveNext]_live
  /\ Fairness
  /\ FeedFairness
  /\ RenderFairness
  /\ ReportsFairness
=============================================================================
