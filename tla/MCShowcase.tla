----------------------------- MODULE MCShowcase -----------------------------
(***************************************************************************)
(* The showcase's processes on small sets: in each behaviour there is the  *)
(* fleet of producer, worker and watchdog, or the inside of the producer;  *)
(* the other stays as it begins.                                           *)
(***************************************************************************)
EXTENDS ShowcaseFleet, PriceProducer

VARIABLE part

showcaseVars == <<vars, producerVars, part>>

ShowcaseInit ==
    /\ part \in {"fleet", "producer"}
    /\ Init
    /\ ProducerInit

Fleet(step) == part = "fleet" /\ step /\ UNCHANGED <<producerVars, part>>

Producer(step) == part = "producer" /\ step /\ UNCHANGED <<vars, part>>

Showcase == Fleet(Next) \/ Producer(ProducerNext)

(* The fairness of FairSpec and of ProducerSpec.  The part that runs never *)
(* changes: a disjunction of steps of both is fair as each of them is.     *)
ShowcaseSpec ==
    /\ ShowcaseInit /\ [][Showcase]_showcaseVars
    /\ \A l \in Loops : WF_showcaseVars(Fleet(LoopStep(l) /\ UNCHANGED watchdogVars))
    /\ WF_showcaseVars(Fleet(VisitAges /\ UNCHANGED wakeupVars) \/ Producer(PollStep))
    /\ WF_showcaseVars(Fleet(BootOnRequest) \/ Producer(TradeStep))
    /\ WF_showcaseVars(Fleet(WakeGroup)) /\ WF_showcaseVars(Fleet(Serve))
    /\ WF_showcaseVars(Fleet(Check)) /\ WF_showcaseVars(Fleet(Stop))
    /\ \A v \in Visitors :
          /\ WF_showcaseVars(Producer(ControlStep(v)))
          /\ WF_showcaseVars(Producer(GiveUpPress(v)))

-----------------------------------------------------------------------------
(* Properties.                                                             *)

(* ProducerKeepsGoing and EveryPressEnds, of the producer where it runs    *)
(* (_poll_loop, publish, burst, duplicate).                                *)
ProducerAsClaimed == part = "producer" => ProducerKeepsGoing /\ EveryPressEnds
=============================================================================
