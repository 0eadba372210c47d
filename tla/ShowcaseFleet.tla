---------------------------- MODULE ShowcaseFleet ---------------------------
(***************************************************************************)
(* The showcase deployment: the producer publishes, the worker's loops     *)
(* claim, and the watchdog in the app stops and starts both their machines.*)
(***************************************************************************)
EXTENDS WorkerWakeup, IdleWatchdog

vars == <<wakeupVars, watchdogVars>>

(* Requests to the app's public URL: from dashboards, from the producer's  *)
(* loops, and from the worker, whose deliveries go to the app's receivers. *)
Traffic ==
    \/ watching
    \/ started["producer"]
    \/ \E d \in Deliveries : holder[d] # NoLoop

-----------------------------------------------------------------------------
Init == WakeupInit /\ WatchdogInit

(* _poll_loop and _trade_loop publish, if the app is there to accept it; a *)
(* publish that fails is logged and not repeated.                          *)
ProducerPublish(d) ==
    /\ started["producer"] /\ app = "up"
    /\ Publish(d)
    /\ UNCHANGED watchdogVars

DashboardRedrive(d) ==
    /\ app = "up"
    /\ Redrive(d)
    /\ UNCHANGED watchdogVars

Work == WakeupStep /\ UNCHANGED watchdogVars

Visit == (Arrive \/ LeaveDashboard \/ DashboardGet \/ VisitAges) /\ UNCHANGED wakeupVars

(* The worker's loops start and end with its machine.                      *)
WorkerFollows ==
    CASE started'["worker"] /\ ~started["worker"] -> Launch
      [] started["worker"] /\ ~started'["worker"] -> Kill
      [] OTHER -> UNCHANGED wakeupVars

BootOnRequest == Traffic /\ Boot /\ UNCHANGED wakeupVars

WakeGroup == Wake /\ WorkerFollows

Serve == Booted /\ UNCHANGED wakeupVars

Check == Patrol /\ UNCHANGED wakeupVars

Stop == StopGroup /\ WorkerFollows

IdleAppStops == ~Traffic /\ Autostop /\ UNCHANGED wakeupVars

Next ==
    \/ \E d \in Deliveries : ProducerPublish(d) \/ DashboardRedrive(d)
    \/ Work
    \/ Visit
    \/ BootOnRequest
    \/ WakeGroup
    \/ Serve
    \/ Check
    \/ Stop
    \/ IdleAppStops
    \/ AppCrash /\ UNCHANGED wakeupVars

Spec == Init /\ [][Next]_vars

(* Loops and the watchdog's task keep running, timers run out, and whoever *)
(* makes requests goes on making them.                                     *)
FairSpec ==
    /\ Spec
    /\ \A l \in Loops : WF_vars(LoopStep(l) /\ UNCHANGED watchdogVars)
    /\ WF_vars(VisitAges /\ UNCHANGED wakeupVars)
    /\ WF_vars(BootOnRequest) /\ WF_vars(WakeGroup) /\ WF_vars(Serve)
    /\ WF_vars(Check) /\ WF_vars(Stop)

-----------------------------------------------------------------------------
(* Properties.                                                             *)

(* The types, and that the loops run exactly while their machine does.     *)
TypeOK ==
    /\ WakeupTypeOK
    /\ WatchdogTypeOK
    /\ \A l \in Loops : at[l] = "off" <=> ~started["worker"]

(* Every delivery that is due is claimed while the worker's machine runs:  *)
(* worker_fallback_poll_seconds finds what no NOTIFY announces (retries,   *)
(* redrives, what a failed tick gave back) and what a broken LISTEN missed.*)
DueWorkFound ==
    \A d \in Deliveries : d \in Free ~> d \notin Free \/ ~started["worker"]

(* Once a visit has been recorded and nobody watches any more, the producer*)
(* ends up stopped, although its own requests and those of the worker keep *)
(* the app up or boot it again, which starts the producer (idle_watchdog). *)
UnwatchedSleeps ==
    <>[](~watching /\ seen # "never") => <>[](~started["producer"])

(* What docs/DEPLOY.md says: a visitor of the dashboard wakes producer and *)
(* worker up again.                                                        *)
WatchedIsServed ==
    watching ~> (started["producer"] /\ started["worker"]) \/ ~watching
=============================================================================
