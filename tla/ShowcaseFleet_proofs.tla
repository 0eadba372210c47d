------------------------ MODULE ShowcaseFleet_proofs ------------------------
(***************************************************************************)
(* Proofs about ShowcaseFleet for every set of loops and deliveries.       *)
(***************************************************************************)
EXTENDS ShowcaseFleet, TLAPS

(* The inductive invariant: nothing has to be added to the checked ones.   *)
IInv == TypeOK /\ NoLostWakeup

(* A step of the loops neither ends nor starts one.                        *)
OffKept == \A l \in Loops : at'[l] = "off" <=> at[l] = "off"

-----------------------------------------------------------------------------
LEMMA InitIInv == Init => IInv
<1> SUFFICES ASSUME Init PROVE IInv
  OBVIOUS
<1>1. WakeupTypeOK /\ NoLostWakeup /\ \A l \in Loops : at[l] # "off"
  BY DEF Init, WakeupInit, WakeupTypeOK, NoLostWakeup, Stages, Places
<1>2. WatchdogTypeOK /\ started["worker"]
  BY DEF Init, WatchdogInit, WatchdogTypeOK
<1>3. QED
  BY <1>1, <1>2 DEF IInv, TypeOK

(* What arrives from outside the loops.                                    *)
LEMMA PublishKeeps ==
    ASSUME WakeupTypeOK, NoLostWakeup, NEW d \in Deliveries, Publish(d)
    PROVE  WakeupTypeOK' /\ NoLostWakeup' /\ OffKept
  BY DEF WakeupTypeOK, NoLostWakeup, OffKept, Publish, Due, Stages

LEMMA DueKeeps ==
    ASSUME WakeupTypeOK, NoLostWakeup, NEW d \in Deliveries, BecomeDue(d) \/ Redrive(d)
    PROVE  WakeupTypeOK' /\ NoLostWakeup' /\ OffKept
  BY DEF WakeupTypeOK, NoLostWakeup, OffKept, BecomeDue, Redrive, Due, Stages

-----------------------------------------------------------------------------
LEMMA LoopStepKeeps ==
    ASSUME WakeupTypeOK, NoLostWakeup, NEW l \in Loops, LoopStep(l)
    PROVE  WakeupTypeOK' /\ NoLostWakeup' /\ OffKept
<1> USE DEF WakeupTypeOK, NoLostWakeup, OffKept, GoTo, Due, Stages, Places
<1>1. CASE Listen(l)
  BY <1>1 DEF Listen
<1>2. CASE ClaimBatch(l)
  <2>1. PICK B \in SUBSET Free :
            holder' = [d \in Deliveries |-> IF d \in B THEN l ELSE holder[d]]
    BY <1>2 DEF ClaimBatch
  <2>2. \A d \in B : Due(d) /\ holder[d] = NoLoop
    BY <2>1 DEF Free
  <2>3. QED
    BY <1>2, <2>1, <2>2, WakeupAssumption DEF ClaimBatch, Free
(* Nothing fresh and free is missed: the tick would have claimed it.       *)
<1>3. CASE FindNothing(l)
  BY <1>3 DEF FindNothing, Free
(* What is given back is not fresh: it is done or waits for a retry.       *)
<1>4. CASE Settle(l)
  <2>1. PICK D \in SUBSET Held(l) :
            stage' = [d \in Deliveries |->
                        IF d \in D THEN "done" ELSE IF d \in Held(l) THEN "later" ELSE stage[d]]
    BY <1>4 DEF Settle
  <2>2. holder' = [d \in Deliveries |-> IF holder[d] = l THEN NoLoop ELSE holder[d]]
    BY <1>4 DEF Settle, Release
  <2>3. QED
    BY <1>4, <2>1, <2>2, WakeupAssumption DEF Settle, Held
<1>5. CASE Notified(l)
  BY <1>5 DEF Notified, Waiting
<1>6. CASE WaitEnds(l)
  BY <1>6 DEF WaitEnds, Waiting
<1>7. CASE NoticeBroken(l)
  BY <1>7 DEF NoticeBroken, Waiting
<1>8. CASE Resume(l)
  BY <1>8 DEF Resume
<1>9. QED
  BY <1>1, <1>2, <1>3, <1>4, <1>5, <1>6, <1>7, <1>8 DEF LoopStep

LEMMA FaultKeeps ==
    ASSUME WakeupTypeOK, NoLostWakeup, NEW l \in Loops, TickFails(l) \/ Break(l)
    PROVE  WakeupTypeOK' /\ NoLostWakeup' /\ OffKept
<1> USE WakeupAssumption DEF WakeupTypeOK, NoLostWakeup, OffKept, GoTo, Due, Stages, Places
<1>1. CASE TickFails(l)
  <2>1. stage' = [d \in Deliveries |-> IF d \in Held(l) THEN "due" ELSE stage[d]]
    BY <1>1 DEF TickFails, Unclaimed
  <2>2. holder' = [d \in Deliveries |-> IF holder[d] = l THEN NoLoop ELSE holder[d]]
    BY <1>1 DEF TickFails, Release
  <2>3. /\ at[l] \in {"tick", "work"}
        /\ at' = [at EXCEPT ![l] = "upset"] \/ at' = [at EXCEPT ![l] = "top"]
        /\ UNCHANGED <<conn, unread, breaks>>
        /\ errors' \in Nat
    BY <1>1 DEF TickFails
  <2>4. WakeupTypeOK'
    BY <2>1, <2>2, <2>3 DEF Held
  <2>5. NoLostWakeup' /\ OffKept
    BY <2>1, <2>2, <2>3 DEF Held
  <2>6. QED
    BY <2>4, <2>5
<1>2. CASE Break(l)
  BY <1>2 DEF Break
<1>3. QED
  BY <1>1, <1>2

LEMMA StepKeeps ==
    ASSUME WakeupTypeOK, NoLostWakeup, WakeupStep
    PROVE  WakeupTypeOK' /\ NoLostWakeup' /\ OffKept
  BY LoopStepKeeps, FaultKeeps, DueKeeps DEF WakeupStep

(* The end and the start of the worker's machine.                          *)
LEMMA KillKeeps ==
    ASSUME WakeupTypeOK, NoLostWakeup, Kill
    PROVE  WakeupTypeOK' /\ NoLostWakeup' /\ \A l \in Loops : at'[l] = "off"
  BY DEF WakeupTypeOK, NoLostWakeup, Kill, Unclaimed, Due, Stages, Places

LEMMA LaunchKeeps ==
    ASSUME WakeupTypeOK, NoLostWakeup, Launch
    PROVE  WakeupTypeOK' /\ NoLostWakeup' /\ \A l \in Loops : at'[l] # "off"
  BY DEF WakeupTypeOK, NoLostWakeup, Launch, Off, Due, Stages, Places

LEMMA IdleKeeps ==
    ASSUME WakeupTypeOK, NoLostWakeup, UNCHANGED wakeupVars
    PROVE  WakeupTypeOK' /\ NoLostWakeup' /\ OffKept
  BY DEF WakeupTypeOK, NoLostWakeup, OffKept, wakeupVars, Due

-----------------------------------------------------------------------------
(* Turning a group of machines on or off handles it and leaves the rest.   *)
LEMMA TurnedKeeps ==
    ASSUME WatchdogTypeOK, NEW on \in BOOLEAN, Turned(on), app # "down"
    PROVE  WatchdogTypeOK'
<1>1. todo \in {<<"worker">>, ProcessGroups} /\ todo' = Tail(todo)
  BY DEF WatchdogTypeOK, Turned
<1>2. /\ todo' \in {<<>>, <<"worker">>, ProcessGroups}
      /\ Head(todo) \in {"producer", "worker"}
  <2>1. CASE todo = <<"worker">>
    BY <1>1, <2>1
  <2>2. CASE todo = ProcessGroups
    <3>1. Head(todo) = "producer" /\ Tail(todo) = <<"worker">>
      BY <2>2 DEF ProcessGroups
    <3>2. QED
      BY <1>1, <3>1
  <2>3. QED
    BY <1>1, <2>1, <2>2
<1>3. started' \in [{"producer", "worker"} -> BOOLEAN] /\ hiccups' \in Nat
  BY <1>2 DEF WatchdogTypeOK, Turned
<1>4. QED
  BY <1>2, <1>3 DEF WatchdogTypeOK, Turned

LEMMA OthersKeepWatchdog ==
    ASSUME WatchdogTypeOK,
           \/ Arrive \/ LeaveDashboard \/ DashboardGet \/ VisitAges
           \/ Boot \/ Booted \/ Patrol \/ Autostop \/ AppCrash
    PROVE  WatchdogTypeOK' /\ UNCHANGED started
<1> USE DEF WatchdogTypeOK
<1>1. CASE Arrive \/ LeaveDashboard \/ DashboardGet \/ VisitAges
  BY <1>1 DEF Arrive, LeaveDashboard, DashboardGet, VisitAges
<1>2. CASE Boot \/ Booted \/ Patrol
  BY <1>2 DEF Boot, Booted, Patrol
<1>3. CASE Autostop \/ AppCrash
  BY <1>3 DEF Autostop, AppCrash
<1>4. QED
  BY <1>1, <1>2, <1>3

-----------------------------------------------------------------------------
(* The loops follow their machine, whatever is turned on or off.           *)
LEMMA MachineStep ==
    ASSUME IInv, NEW on \in BOOLEAN, Turned(on), app # "down", WorkerFollows
    PROVE  IInv'
<1> USE DEF IInv, TypeOK
<1>1. WatchdogTypeOK'
  BY TurnedKeeps
<1>2. started["worker"] \in BOOLEAN /\ started'["worker"] \in BOOLEAN
  BY <1>1 DEF WatchdogTypeOK
<1>3. CASE started'["worker"] /\ ~started["worker"]
  BY <1>1, <1>2, <1>3, LaunchKeeps DEF WorkerFollows
<1>4. CASE started["worker"] /\ ~started'["worker"]
  BY <1>1, <1>2, <1>4, KillKeeps DEF WorkerFollows
<1>5. CASE started["worker"] <=> started'["worker"]
  <2>1. UNCHANGED wakeupVars
    BY <1>5 DEF WorkerFollows
  <2>2. QED
    BY <1>1, <1>2, <1>5, <2>1, IdleKeeps DEF OffKept
<1>6. QED
  BY <1>2, <1>3, <1>4, <1>5

LEMMA NextIInv ==
    ASSUME IInv, [Next]_vars
    PROVE  IInv'
<1> USE DEF IInv, TypeOK
(* Steps of the loops and of what they work on.                            *)
<1>1. ASSUME UNCHANGED watchdogVars, WakeupTypeOK', NoLostWakeup', OffKept
      PROVE  IInv'
  BY <1>1 DEF WatchdogTypeOK, watchdogVars, OffKept
<1>2. ASSUME NEW d \in Deliveries, ProducerPublish(d) \/ DashboardRedrive(d)
      PROVE  IInv'
  BY <1>1, <1>2, PublishKeeps, DueKeeps DEF ProducerPublish, DashboardRedrive
<1>3. CASE Work
  BY <1>1, <1>3, StepKeeps DEF Work
<1>4. CASE UNCHANGED vars
  BY <1>1, <1>4, IdleKeeps DEF vars
(* Steps of the watchdog that turn no machine on or off.                   *)
<1>5. ASSUME UNCHANGED wakeupVars, UNCHANGED started, WatchdogTypeOK'
      PROVE  IInv'
  BY <1>5, IdleKeeps DEF OffKept
<1>6. CASE \/ Visit \/ BootOnRequest \/ Serve \/ Check \/ IdleAppStops
           \/ AppCrash /\ UNCHANGED wakeupVars
  BY <1>5, <1>6, OthersKeepWatchdog DEF Visit, BootOnRequest, Serve, Check, IdleAppStops
<1>7. CASE WakeGroup
  BY <1>7, MachineStep DEF WakeGroup, Wake
<1>8. CASE Stop
  BY <1>8, MachineStep DEF Stop, StopGroup
<1>9. QED
  BY <1>2, <1>3, <1>4, <1>6, <1>7, <1>8 DEF Next

LEMMA Inductive == Spec => []IInv
<1>1. Init => IInv
  BY InitIInv
<1>2. IInv /\ [Next]_vars => IInv'
  BY NextIInv
<1>3. QED
  BY <1>1, <1>2, PTL DEF Spec

(* The types, and that the worker's loops run exactly while their machine  *)
(* does, whatever boots, ticks, stops and failures there are.              *)
THEOREM FleetTypes == Spec => []TypeOK
<1>1. IInv => TypeOK
  BY DEF IInv
<1>2. QED
  BY <1>1, Inductive, PTL

(* However many loops listen, claim, wait, reconnect and restart: one that *)
(* waits after it has found nothing has every later NOTIFY still to read   *)
(* (_worker_loop, _wait_for_notify).                                       *)
THEOREM WakeupsKept == Spec => []NoLostWakeup
<1>1. IInv => NoLostWakeup
  BY DEF IInv
<1>2. QED
  BY <1>1, Inductive, PTL
=============================================================================
