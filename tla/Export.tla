------------------------------- MODULE Export -------------------------------
(***************************************************************************)
(* The export of the alert history as a stream of pages, each continuing   *)
(* below the last row of the one before, while webhooks move rows to the   *)
(* top and a purge takes rows away (_stream_history_ndjson and             *)
(* export_alert_history in backend/app/api/alerts.py).                     *)
(*                                                                         *)
(* The rows that match the filters are sorted by the time of their last    *)
(* reception and their id, the latest first.  A webhook takes its time     *)
(* before it waits for the lock of the row, so that a time may also go     *)
(* back.  A row that stops to match is like one that is purged.            *)
(***************************************************************************)
EXTENDS Integers, FiniteSets

CONSTANTS
  MaxEvents,  \* bound: events; they are inserted in the order of their ids
  MaxTime,    \* bound: moments at which webhooks come
  PageSize,   \* HISTORY_EXPORT_PAGE_SIZE
  Cap         \* HISTORY_EXPORT_NDJSON_CAP

ASSUME ExportAssumption ==
  /\ MaxEvents \in Nat
  /\ MaxTime \in Nat \ {0}
  /\ PageSize \in Nat \ {0}
  /\ Cap \in Nat

Ids == 1 .. MaxEvents

VARIABLES
  stamp,    \* last_received_at of each event; 0 when it is not in the table
  inserted, \* the events inserted so far
  now,
  export,   \* "none", "paging", "done"
  cursor,   \* stamp and id of the last row emitted
  loaded,   \* the stamp with which the export last loaded a row, or 0
  emitted,  \* how often it has emitted each row
  count,    \* the rows it has emitted
  touched,  \* rows that were received or purged since it began
  wentBack  \* has the time of any row gone back since then?

tableVars == <<stamp, inserted, now>>
streamVars == <<export, cursor, loaded, emitted, count>>
exportVars == <<tableVars, streamVars, touched, wentBack>>

Top == [stamp |-> MaxTime + 1, id |-> 0]

(* Some rows are there from the beginning, from one batch or another.      *)
ExportInit ==
  /\ inserted \in 0 .. MaxEvents
  /\ stamp \in [Ids -> 0 .. 1]
  /\ \A e \in Ids : stamp[e] = 1 <=> e <= inserted
  /\ now = 1
  /\ export = "none"
  /\ cursor = Top
  /\ loaded = [e \in Ids |-> 0]
  /\ emitted = [e \in Ids |-> 0]
  /\ count = 0
  /\ touched = {}
  /\ wentBack = FALSE

Present == {e \in Ids : stamp[e] > 0}

-----------------------------------------------------------------------------
(* What happens to the table.                                              *)

Elapse ==
  /\ now < MaxTime
  /\ now' = now + 1
  /\ UNCHANGED <<stamp, inserted, streamVars, touched, wentBack>>

(* A webhook, with the time it took before it got the lock.                *)
Stamped(e, s) ==
  /\ stamp' = [stamp EXCEPT ![e] = s]
  /\ touched' = touched \cup {e}
  /\ wentBack' = (wentBack \/ s < stamp[e])
  /\ UNCHANGED <<now, streamVars>>

Reception(e, s) ==
  /\ e \in Present
  /\ s \in {now - 1, now} \ {0}
  /\ Stamped(e, s)
  /\ UNCHANGED inserted

Insertion(s) ==
  /\ inserted < MaxEvents
  /\ s \in {now - 1, now} \ {0}
  /\ Stamped(inserted + 1, s)
  /\ inserted' = inserted + 1

Purge(e) ==
  /\ e \in Present
  /\ stamp' = [stamp EXCEPT ![e] = 0]
  /\ touched' = touched \cup {e}
  /\ UNCHANGED <<inserted, now, streamVars, wentBack>>

-----------------------------------------------------------------------------
(* The export.                                                             *)

(* export_alert_history: the rows are counted first.                       *)
StartExport ==
  /\ export = "none"
  /\ Cardinality(Present) <= Cap
  /\ export' = "paging"
  /\ touched' = {}
  /\ wentBack' = FALSE
  /\ UNCHANGED <<tableVars, cursor, loaded, emitted, count>>

(* The order of the stream.                                                *)
Below(e, c) == stamp[e] < c.stamp \/ (stamp[e] = c.stamp /\ e < c.id)

At(e) == [stamp |-> stamp[e], id |-> e]

(* Mutant: the condition on the cursor forgets the id. *)
EarlierThanCursor(e) == stamp[e] < cursor.stamp

(* Strictly after the last row emitted.                                    *)
AfterCursor(e) == Below(e, cursor)

Limit == IF PageSize < Cap - count THEN PageSize ELSE Cap - count

(* The rows of the next page: the first Limit rows below the cursor.       *)
Page ==
  LET rest == {e \in Present : AfterCursor(e)}
  IN {e \in rest : Cardinality({f \in rest : Below(e, At(f))}) < Limit}

(* One page.  The mapper does not load again the rows that it still holds, *)
(* so that the cursor may be set to a time with which the last row of the  *)
(* page was loaded before; rows that it has let go of are loaded again.    *)
NextPage ==
  /\ export = "paging"
  /\ count < Cap
  /\ Page # {}
  /\ \E held \in SUBSET {e \in Page : loaded[e] # 0} :
       loaded' = [e \in Ids |-> IF e \in Page \ held THEN stamp[e] ELSE loaded[e]]
  /\ \E last \in Page :
       /\ \A e \in Page : e = last \/ Below(last, At(e))
       /\ cursor' = [stamp |-> loaded'[last], id |-> last]
  /\ emitted' = [e \in Ids |-> IF e \in Page THEN emitted[e] + 1 ELSE emitted[e]]
  /\ count' = count + Cardinality(Page)
  /\ export' = IF Cardinality(Page) < Limit THEN "done" ELSE "paging"
  /\ UNCHANGED <<tableVars, touched, wentBack>>

(* There are no more rows, or the cap is reached.                          *)
EndExport ==
  /\ export = "paging"
  /\ Page = {} \/ count >= Cap
  /\ export' = "done"
  /\ UNCHANGED <<tableVars, cursor, loaded, emitted, count, touched, wentBack>>

ExportNext ==
  \/ Elapse
  \/ \E s \in 1 .. MaxTime : Insertion(s) \/ (\E e \in Ids : Reception(e, s))
  \/ \E e \in Ids : Purge(e)
  \/ StartExport \/ NextPage \/ EndExport

ExportSpec == ExportInit /\ [][ExportNext]_exportVars

-----------------------------------------------------------------------------
(* An export under live ingestion emits no row twice, unless the time of   *)
(* some row went back meanwhile; when it ends below its cap, it has left   *)
(* out no row but those that were received or purged meanwhile; and it     *)
(* never exceeds the cap, though the table may have grown since the rows   *)
(* were counted.                                                           *)
ExportIsFaithful ==
  /\ ~wentBack => \A e \in Ids : emitted[e] <= 1
  /\ export = "done" /\ count < Cap => \A e \in Present \ touched : emitted[e] >= 1
  /\ count <= Cap
=============================================================================
