---------------------------- MODULE WorkerWakeup ----------------------------
(***************************************************************************)
(* How the claim loops of a worker process find due work: _worker_loop of  *)
(* app/worker/__main__.py, one per thread, each with a LISTEN connection of*)
(* its own.  Publishing an event sends a NOTIFY with its commit; a retry   *)
(* that becomes due and a redrive send none.  A tick is taken as a whole   *)
(* here: DeliveryQueue has its steps.                                      *)
(***************************************************************************)
EXTENDS Naturals, FiniteSets

CONSTANTS Loops,         (* the worker_concurrency claim loops               *)
          Deliveries,
          NoLoop,        (* who holds a delivery that nobody holds           *)
          BatchSize,     (* settings.worker_batch_size                       *)
          MaxBreaks,     (* bound: LISTEN connections that break             *)
          MaxErrors      (* bound: ticks that raise                          *)

ASSUME WakeupAssumption ==
    /\ NoLoop \notin Loops
    /\ BatchSize \in Nat \ {0}
    /\ MaxBreaks \in Nat
    /\ MaxErrors \in Nat

VARIABLES
    stage,     (* of each delivery, as committed                             *)
    holder,    (* the loop whose open transaction has locked it              *)
    at,        (* where each loop is                                         *)
    conn,      (* its LISTEN connection: none, open or broken                *)
    unread,    (* the deliveries whose NOTIFY waits on that connection       *)
    breaks,    (* ghost: connections that broke                              *)
    errors     (* ghost: ticks that raised                                   *)

wakeupVars == <<stage, holder, at, conn, unread, breaks, errors>>

(* fresh: published and never claimed since; due: due again, unannounced.  *)
Stages == {"unpublished", "fresh", "due", "later", "done"}

(* idle: waits after a tick that found nothing; upset: after one that      *)
(* raised, for n is 0 then too; pause: time.sleep(1) after a lost LISTEN.  *)
Places == {"off", "top", "tick", "work", "idle", "upset", "pause"}

Due(d) == stage[d] \in {"fresh", "due"}

Free == {d \in Deliveries : Due(d) /\ holder[d] = NoLoop}

Held(l) == {d \in Deliveries : holder[d] = l}

Waiting(l) == at[l] \in {"idle", "upset"}

Off == \A l \in Loops : at[l] = "off"

-----------------------------------------------------------------------------
WakeupInit ==
    /\ stage = [d \in Deliveries |-> "unpublished"]
    /\ holder = [d \in Deliveries |-> NoLoop]
    /\ at = [l \in Loops |-> "top"]
    /\ conn = [l \in Loops |-> "none"]
    /\ unread = [l \in Loops |-> {}]
    /\ breaks = 0
    /\ errors = 0

(* ingest_event commits, and with it its NOTIFY goes to whoever listens.   *)
Publish(d) ==
    /\ stage[d] = "unpublished"
    /\ stage' = [stage EXCEPT ![d] = "fresh"]
    /\ unread' = [l \in Loops |-> IF conn[l] = "open" THEN unread[l] \cup {d} ELSE unread[l]]
    /\ UNCHANGED <<holder, at, conn, breaks, errors>>

(* The backoff of a retry ends: its row is due, and nothing announces it.  *)
BecomeDue(d) ==
    /\ stage[d] = "later"
    /\ stage' = [stage EXCEPT ![d] = "due"]
    /\ UNCHANGED <<holder, at, conn, unread, breaks, errors>>

(* redrive_delivery commits a due row without a NOTIFY.                    *)
Redrive(d) ==
    /\ stage[d] = "done"
    /\ stage' = [stage EXCEPT ![d] = "due"]
    /\ UNCHANGED <<holder, at, conn, unread, breaks, errors>>

-----------------------------------------------------------------------------
GoTo(l, place) == at' = [at EXCEPT ![l] = place]

(* Variant: LISTEN is left to the wait, after the tick has looked.         *)
ListenLate(l) ==
    \/ /\ at[l] = "top"
       /\ GoTo(l, "tick")
       /\ UNCHANGED <<stage, holder, conn, unread, breaks, errors>>
    \/ /\ Waiting(l) /\ conn[l] = "none"
       /\ conn' = [conn EXCEPT ![l] = "open"]
       /\ UNCHANGED <<stage, holder, at, unread, breaks, errors>>

(* A loop without a connection tries to open one; failing that, it polls.  *)
Listen(l) ==
    /\ at[l] = "top"
    /\ GoTo(l, "tick")
    /\ \/ conn[l] = "none" /\ conn' = [conn EXCEPT ![l] = "open"]
       \/ UNCHANGED conn
    /\ UNCHANGED <<stage, holder, unread, breaks, errors>>

(* run_once locks a batch of due deliveries that nobody has locked.        *)
ClaimBatch(l) ==
    /\ at[l] = "tick" /\ Free # {}
    /\ \E B \in SUBSET Free :
          /\ B # {} /\ Cardinality(B) <= BatchSize
          /\ B = Free \/ Cardinality(B) = BatchSize
          /\ holder' = [d \in Deliveries |-> IF d \in B THEN l ELSE holder[d]]
    /\ GoTo(l, "work")
    /\ UNCHANGED <<stage, conn, unread, breaks, errors>>

FindNothing(l) ==
    /\ at[l] = "tick" /\ Free = {}
    /\ GoTo(l, "idle")
    /\ UNCHANGED <<stage, holder, conn, unread, breaks, errors>>

(* Variant: the session is not closed when a tick ends.                    *)
ReleaseNothing(l) == UNCHANGED holder

(* The end of the transaction unlocks what the loop had claimed.           *)
Release(l) == holder' = [d \in Deliveries |-> IF holder[d] = l THEN NoLoop ELSE holder[d]]

(* The batch is committed, some of it to be retried; the loop ticks again. *)
Settle(l) ==
    /\ at[l] = "work"
    /\ \E D \in SUBSET Held(l) :
          stage' = [d \in Deliveries |->
                      IF d \in D THEN "done" ELSE IF d \in Held(l) THEN "later" ELSE stage[d]]
    /\ Release(l)
    /\ GoTo(l, "top")
    /\ UNCHANGED <<conn, unread, breaks, errors>>

(* What a loop had claimed is due as before, but nobody announces it again.*)
Unclaimed(D) == [d \in Deliveries |-> IF d \in D THEN "due" ELSE stage[d]]

(* run_once raises: rolled back, n is 0 and the loop waits as if idle.  If *)
(* it is the commit that raises, n is not 0 and the loop ticks again.      *)
TickFails(l) ==
    /\ at[l] \in {"tick", "work"}
    /\ errors < MaxErrors
    /\ errors' = errors + 1
    /\ stage' = Unclaimed(Held(l))
    /\ Release(l)
    /\ \/ GoTo(l, "upset")
       \/ at[l] = "work" /\ GoTo(l, "top")
    /\ UNCHANGED <<conn, unread, breaks>>

(* _wait_for_notify returns at the first notification; those that arrived  *)
(* with it are dropped, for the tick that follows sees what they announce. *)
Notified(l) ==
    /\ Waiting(l) /\ conn[l] = "open"
    /\ \E S \in SUBSET unread[l] :
          S # {} /\ unread' = [unread EXCEPT ![l] = @ \ S]
    /\ GoTo(l, "top")
    /\ UNCHANGED <<stage, holder, conn, breaks, errors>>

(* Variant: the wait for a notification has no timeout.                    *)
WaitEndsUnheard(l) ==
    /\ Waiting(l) /\ conn[l] = "none"
    /\ GoTo(l, "top")
    /\ UNCHANGED <<stage, holder, conn, unread, breaks, errors>>

(* worker_fallback_poll_seconds have passed, with or without a connection. *)
WaitEnds(l) ==
    /\ Waiting(l)
    /\ GoTo(l, "top")
    /\ UNCHANGED <<stage, holder, conn, unread, breaks, errors>>

(* The wait raises on a broken connection, which is closed and forgotten.  *)
NoticeBroken(l) ==
    /\ Waiting(l) /\ conn[l] = "broken"
    /\ conn' = [conn EXCEPT ![l] = "none"]
    /\ unread' = [unread EXCEPT ![l] = {}]
    /\ GoTo(l, "pause")
    /\ UNCHANGED <<stage, holder, breaks, errors>>

Resume(l) ==
    /\ at[l] = "pause"
    /\ GoTo(l, "top")
    /\ UNCHANGED <<stage, holder, conn, unread, breaks, errors>>

(* A connection breaks; until the wait notices, notifications are lost.    *)
Break(l) ==
    /\ conn[l] = "open"
    /\ breaks < MaxBreaks
    /\ breaks' = breaks + 1
    /\ conn' = [conn EXCEPT ![l] = "broken"]
    /\ UNCHANGED <<stage, holder, at, unread, errors>>

(* The process ends with all its loops: the database rolls back their      *)
(* transactions and drops their connections.                               *)
Kill ==
    /\ stage' = Unclaimed({d \in Deliveries : holder[d] # NoLoop})
    /\ holder' = [d \in Deliveries |-> NoLoop]
    /\ at' = [l \in Loops |-> "off"]
    /\ conn' = [l \in Loops |-> "none"]
    /\ unread' = [l \in Loops |-> {}]
    /\ UNCHANGED <<breaks, errors>>

(* main starts one loop per thread.                                        *)
Launch ==
    /\ Off
    /\ at' = [l \in Loops |-> "top"]
    /\ UNCHANGED <<stage, holder, conn, unread, breaks, errors>>

-----------------------------------------------------------------------------
(* The steps of a loop that nothing stops.                                 *)
LoopStep(l) ==
    \/ Listen(l)
    \/ ClaimBatch(l)
    \/ FindNothing(l)
    \/ Settle(l)
    \/ Notified(l)
    \/ WaitEnds(l)
    \/ NoticeBroken(l)
    \/ Resume(l)

(* What happens to the loops while their process runs.                     *)
WakeupStep ==
    \/ \E l \in Loops : LoopStep(l) \/ TickFails(l) \/ Break(l)
    \/ \E d \in Deliveries : BecomeDue(d)

-----------------------------------------------------------------------------
(* Properties.                                                             *)

(* The types, and that only a loop at work holds deliveries.               *)
WakeupTypeOK ==
    /\ stage \in [Deliveries -> Stages]
    /\ holder \in [Deliveries -> Loops \cup {NoLoop}]
    /\ at \in [Loops -> Places]
    /\ conn \in [Loops -> {"none", "open", "broken"}]
    /\ unread \in [Loops -> SUBSET Deliveries]
    /\ breaks \in Nat /\ errors \in Nat
    /\ \A d \in Deliveries : holder[d] # NoLoop => Due(d) /\ at[holder[d]] = "work"

(* No wake-up is lost: a loop of _worker_loop that waits on a working      *)
(* connection, having found nothing, has the NOTIFY of every event         *)
(* published since then still to read (it listens before it looks, and     *)
(* looks again after every notification).                                  *)
NoLostWakeup ==
    \A l \in Loops, d \in Deliveries :
        at[l] = "idle" /\ conn[l] = "open" /\ stage[d] = "fresh" /\ holder[d] = NoLoop
            => d \in unread[l]
=============================================================================
