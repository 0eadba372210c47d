---------------------------- MODULE IdleWatchdog ----------------------------
(***************************************************************************)
(* The scale-to-zero of the showcase deployment: the app stops producer and*)
(* worker machines when nobody has watched the dashboard for a while       *)
(* (app/services/idle_watchdog.py), the platform stops the app when it has *)
(* no traffic, starts it again on a request, and the app, as it boots,     *)
(* starts the others.  Time is kept as the age of the last visit.          *)
(***************************************************************************)
EXTENDS Naturals, Sequences

CONSTANT MaxHiccups      (* bound: failed calls and crashes of the app       *)

ASSUME WatchdogAssumption == MaxHiccups \in Nat

VARIABLES
    app,         (* the app machine: down, booting or up                     *)
    started,     (* whether the machines of each process group run           *)
    watching,    (* a dashboard is open and polls                            *)
    seen,        (* the age of demo_visitor_activity.last_seen_at            *)
    todo,        (* the groups that the boot or the tick has yet to handle   *)
    hiccups      (* ghost: failures so far                                   *)

watchdogVars == <<app, started, watching, seen, todo, hiccups>>

(* _PROCESS_GROUPS, in the order they are started and stopped.             *)
ProcessGroups == <<"producer", "worker">>

WatchdogInit ==
    /\ app = "up"
    /\ started = [g \in {"producer", "worker"} |-> TRUE]
    /\ watching = FALSE
    /\ seen = "never"
    /\ todo = <<>>
    /\ hiccups = 0

-----------------------------------------------------------------------------
Arrive ==
    /\ ~watching
    /\ watching' = TRUE
    /\ UNCHANGED <<app, started, seen, todo, hiccups>>

LeaveDashboard ==
    /\ watching
    /\ watching' = FALSE
    /\ UNCHANGED <<app, started, seen, todo, hiccups>>

(* Variant: the requests of the producer are taken for visits.             *)
RequestSeen ==
    /\ watching \/ started["producer"]
    /\ app = "up"
    /\ seen' = "recent"
    /\ UNCHANGED <<app, started, watching, todo, hiccups>>

(* GET /showcase/summary, /feed or /deliveries: each records the visit and *)
(* commits before it answers with what it reads.                           *)
DashboardGet ==
    /\ watching /\ app = "up"
    /\ seen' = "recent"
    /\ UNCHANGED <<app, started, watching, todo, hiccups>>

(* visitor_idle_minutes pass; an open dashboard polls far more often.      *)
VisitAges ==
    /\ seen = "recent" /\ ~watching
    /\ seen' = "old"
    /\ UNCHANGED <<app, started, watching, todo, hiccups>>

-----------------------------------------------------------------------------
(* A request finds the app down: it boots, and wakes before it serves.     *)
Boot ==
    /\ app = "down"
    /\ app' = "booting"
    /\ todo' = ProcessGroups
    /\ UNCHANGED <<started, watching, seen, hiccups>>

(* One group of wake_showcase_machines; _stop_if_idle's is Turned(FALSE).  *)
(* list_machine_ids and start are best-effort: a failure is not retried.   *)
Turned(on) ==
    /\ todo # <<>>
    /\ todo' = Tail(todo)
    /\ \/ started' = [started EXCEPT ![Head(todo)] = on] /\ UNCHANGED hiccups
       \/ hiccups < MaxHiccups /\ hiccups' = hiccups + 1 /\ UNCHANGED started
    /\ UNCHANGED <<app, watching, seen>>

Wake == app = "booting" /\ Turned(TRUE)

Booted ==
    /\ app = "booting" /\ todo = <<>>
    /\ app' = "up"
    /\ UNCHANGED <<started, watching, seen, todo, hiccups>>

(* is_idle on the last visit as committed; without one the fleet stays up. *)
IsIdle == seen = "old"

(* A tick of run_idle_watchdog reads the last visit once.                  *)
Patrol ==
    /\ app = "up" /\ todo = <<>>
    /\ IsIdle
    /\ todo' = ProcessGroups
    /\ UNCHANGED <<app, started, watching, seen, hiccups>>

(* It then lists and stops group after group, whatever happens meanwhile.  *)
StopGroup == app = "up" /\ Turned(FALSE)

(* The platform stops an app without traffic, after minutes: never within  *)
(* a tick, whose calls have timeouts of seconds.                           *)
Autostop ==
    /\ app = "up" /\ todo = <<>>
    /\ app' = "down"
    /\ UNCHANGED <<started, watching, seen, todo, hiccups>>

(* The app dies, at whatever point of a boot or a tick it is.              *)
AppCrash ==
    /\ app # "down"
    /\ hiccups < MaxHiccups
    /\ hiccups' = hiccups + 1
    /\ app' = "down"
    /\ todo' = <<>>
    /\ UNCHANGED <<started, watching, seen>>

-----------------------------------------------------------------------------
(* The types.                                                              *)
WatchdogTypeOK ==
    /\ app \in {"down", "booting", "up"}
    /\ started \in [{"producer", "worker"} -> BOOLEAN]
    /\ watching \in BOOLEAN
    /\ seen \in {"never", "recent", "old"}
    /\ todo \in {<<>>, <<"worker">>, ProcessGroups}
    /\ app = "down" => todo = <<>>
    /\ hiccups \in Nat
=============================================================================
