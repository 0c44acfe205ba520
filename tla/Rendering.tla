----------------------------- MODULE Rendering ------------------------------
(***************************************************************************)
(* Message templates are rendered in a small pool of threads behind a      *)
(* semaphore of the same size, each slot of a template under a timeout     *)
(* (backend/app/services/templating.py; called by the deliveries of        *)
(* worker/outbox.py, by services/reports.py and by the preview of          *)
(* api/templates.py).  A thread cannot be stopped: a render that is given  *)
(* up keeps its thread, and gives its permit back.                         *)
(*                                                                         *)
(* What a source does is one of three things: it renders, it raises, or it *)
(* goes on past every timeout.  The default templates render.              *)
(***************************************************************************)
EXTENDS Integers, Sequences, FiniteSets

CONSTANTS
  Renders,    \* those who may be rendering at one time: workers, requests
  Pool,       \* RENDER_MAX_WORKERS, the threads and the permits
  Slots,      \* the slots of a template: title, body, body_html
  MaxRenders  \* bound: messages that are rendered

ASSUME RenderingAssumption ==
  /\ IsFiniteSet(Renders)
  /\ Pool \in Nat \ {0}
  /\ Slots \in Nat \ {0}
  /\ MaxRenders \in Nat

VARIABLES
  call,     \* what each of Renders is rendering
  permits,  \* the waiters of the semaphore, in order
  jobs,     \* the queue of the executor
  stuck,    \* threads that are held by renders that were given up
  asked

renderVars == <<call, permits, jobs, stuck, asked>>

Sources == {"renders", "raises", "hangs"}

CallType ==
  [purpose : {"delivery", "preview"},
   fell : BOOLEAN,       \* the fallback is being rendered: a default template
   slot : 1 .. Slots,
   at : {"idle", "waiting", "queued", "running"},
   source : Sources]

NoRender ==
  [purpose |-> "preview", fell |-> FALSE, slot |-> 1, at |-> "idle", source |-> "renders"]

RenderInit ==
  /\ call = [r \in Renders |-> NoRender]
  /\ permits = <<>>
  /\ jobs = <<>>
  /\ stuck = 0
  /\ asked = 0

At(where) == {r \in Renders : call[r].at = where}

IdleThreads == Pool - stuck - Cardinality(At("running"))

(* Mutant: a permit is held as long as its thread. *)
InFlightOrStuck == Cardinality(At("queued") \cup At("running")) + stuck

(* The permits that are taken.                                             *)
InFlight == Cardinality(At("queued") \cup At("running"))

(* _render_one asks for a permit, off any clock.                           *)
WaitFor(r, c) ==
  /\ call' = [call EXCEPT ![r] = [c EXCEPT !.at = "waiting"]]
  /\ permits' = Append(permits, r)

End(r) ==
  /\ call' = [call EXCEPT ![r] = NoRender]
  /\ UNCHANGED permits

(* render, render_context, preview: the template is one of a team, or a    *)
(* default one, which renders as well as any.                              *)
Ask(r) ==
  /\ call[r].at = "idle"
  /\ asked < MaxRenders
  /\ asked' = asked + 1
  /\ \E purpose \in {"delivery", "preview"} :
       WaitFor(r, [NoRender EXCEPT !.purpose = purpose])
  /\ UNCHANGED <<jobs, stuck>>

(* Mutant: no semaphore. *)
SubmitAtOnce(r) ==
  /\ permits # <<>> /\ r = Head(permits)
  /\ permits' = Tail(permits)
  /\ \E source \in Sources :
       /\ call[r].fell => source = "renders"
       /\ call' = [call EXCEPT ![r].at = "queued", ![r].source = source]
  /\ jobs' = Append(jobs, r)
  /\ UNCHANGED <<stuck, asked>>

(* The first waiter gets a permit, and hands its source to the executor.   *)
Submit(r) ==
  /\ permits # <<>> /\ r = Head(permits)
  /\ InFlight < Pool
  /\ permits' = Tail(permits)
  /\ \E source \in Sources :
       /\ call[r].fell => source = "renders"
       /\ call' = [call EXCEPT ![r].at = "queued", ![r].source = source]
  /\ jobs' = Append(jobs, r)
  /\ UNCHANGED <<stuck, asked>>

Start(r) ==
  /\ call[r].at = "queued"
  /\ jobs # <<>> /\ r = Head(jobs)
  /\ IdleThreads > 0
  /\ jobs' = Tail(jobs)
  /\ call' = [call EXCEPT ![r].at = "running"]
  /\ UNCHANGED <<permits, stuck, asked>>

(* A slot is rendered: the next one, or the message is complete.           *)
Rendered(r) ==
  /\ call[r].at = "running" /\ call[r].source = "renders"
  /\ IF call[r].slot < Slots
       THEN WaitFor(r, [call[r] EXCEPT !.slot = @ + 1])
       ELSE End(r)
  /\ UNCHANGED <<jobs, stuck, asked>>

(* A slot has failed: a delivery falls back to the default template, once; *)
(* a failure of the fallback, and of a preview, is the caller's.           *)
Failed(r) ==
  IF call[r].purpose = "delivery" /\ ~call[r].fell
    THEN WaitFor(r, [call[r] EXCEPT !.fell = TRUE, !.slot = 1])
    ELSE End(r)

Raise(r) ==
  /\ call[r].at = "running" /\ call[r].source = "raises"
  /\ Failed(r)
  /\ UNCHANGED <<jobs, stuck, asked>>

(* The timeout of a render that runs: its thread goes on.                  *)
GiveUp(r) ==
  /\ call[r].at = "running" /\ call[r].source = "hangs"
  /\ stuck' = stuck + 1
  /\ Failed(r)
  /\ UNCHANGED <<jobs, asked>>

(* The timeout of one that no thread has taken: its job is cancelled.      *)
ExpireInQueue(r) ==
  /\ call[r].at = "queued"
  /\ IdleThreads = 0
  /\ jobs' = SelectSeq(jobs, LAMBDA j : j # r)
  /\ Failed(r)
  /\ UNCHANGED <<stuck, asked>>

(* A render that was given up ends after all, or it never does.            *)
Unstick ==
  /\ stuck > 0
  /\ stuck' = stuck - 1
  /\ UNCHANGED <<call, permits, jobs, asked>>

RenderStep(r) ==
  \/ Submit(r) \/ Start(r) \/ Rendered(r) \/ Raise(r) \/ GiveUp(r) \/ ExpireInQueue(r)

RenderNext == (\E r \in Renders : Ask(r) \/ RenderStep(r)) \/ Unstick

RenderSpec == RenderInit /\ [][RenderNext]_renderVars

(* The event loop, the threads and the timers go on; nothing makes a       *)
(* render that hangs end.                                                  *)
RenderFairness == \A r \in Renders : WF_renderVars(RenderStep(r))

-----------------------------------------------------------------------------
(* Properties.                                                             *)

(* The timeout measures execution: a render is given up before any thread  *)
(* has taken it only when threads are held by renders that hung earlier,   *)
(* never because others are many.  The semaphore is there for this, and it *)
(* is why it has as many permits as the pool has threads.                  *)
OnlyHungRendersCost ==
  [][\A r \in Renders :
       call[r].at = "queued" /\ call'[r].at \in {"waiting", "idle"} => stuck > 0]_renderVars

(* Whatever the templates do, even when every thread is lost for good,     *)
(* each message that is asked for is rendered in the end, or its failure   *)
(* is reported: a delivery is retried or a preview answered, and the       *)
(* worker goes on with its next row.                                       *)
RenderEnds == \A r \in Renders : (call[r].at # "idle") ~> (call[r].at = "idle")
=============================================================================
