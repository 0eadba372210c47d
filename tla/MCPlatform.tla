----------------------------- MODULE MCPlatform -----------------------------
(***************************************************************************)
(* The platform on small sets: in each behaviour there is either a queue   *)
(* with deliveries that make a worker's tick fail, or one that has none, or*)
(* ingestion; the others stay as they begin.                               *)
(***************************************************************************)
EXTENDS DeliveryQueue, EventIngestion

CONSTANT Sound      (* the deliveries of the queue in which nothing raises   *)

VARIABLES part,
          srow, spc, stx, stodo, scur, sseen, ssent, saborts, sredriven

soundVars == <<srow, spc, stx, stodo, scur, sseen, ssent, saborts, sredriven>>

platformVars == <<vars, soundVars, ingestVars, part>>

(* Its workers do not hang: what becomes of one that does is another run's.*)
SoundQueue == INSTANCE DeliveryQueue WITH
    Deliveries <- Sound, Undecryptable <- {}, Unstorable <- {}, MaxHangs <- 0, MaxPosts <- 2,
    row <- srow, pc <- spc, tx <- stx, todo <- stodo, cur <- scur,
    seen <- sseen, sent <- ssent, aborts <- saborts, redriven <- sredriven

PlatformInit ==
    /\ part \in {"queue", "sound", "ingestion"}
    /\ Init
    /\ SoundQueue!Init
    /\ IngestInit
    /\ part # "ingestion" => \A r \in Requests : ask[r] = CHOOSE a \in Ask : TRUE

QueueRuns(step) == part = "sound" /\ step /\ UNCHANGED <<vars, ingestVars, part>>

IngestionRuns(step) == part = "ingestion" /\ step /\ UNCHANGED <<vars, soundVars, part>>

(* Nothing but requests for ingestion that have all been answered stops.   *)
Answered ==
    /\ part = "ingestion" /\ \A r \in Requests : rpc[r] = "done"
    /\ UNCHANGED platformVars

Platform ==
    \/ part = "queue" /\ Next /\ UNCHANGED <<soundVars, ingestVars, part>>
    \/ QueueRuns(SoundQueue!Next)
    \/ IngestionRuns(IngestNext)
    \/ Answered

(* FairSpec of the sound queue, IngestFairSpec of ingestion.               *)
PlatformSpec ==
    /\ PlatformInit /\ [][Platform]_platformVars
    /\ \A w \in Workers : WF_platformVars(QueueRuns(SoundQueue!WorkerStep(w)))
    /\ \A d \in Sound : WF_platformVars(QueueRuns(SoundQueue!BecomeDue(d)))
    /\ \A r \in Requests : WF_platformVars(IngestionRuns(Serve(r)))

-----------------------------------------------------------------------------
(* Properties.                                                             *)

(* EventuallySettled, of the queue in which nothing raises and no worker   *)
(* hangs (_worker_loop, process_delivery).                                 *)
SoundQueueSettles == part = "sound" => SoundQueue!EventuallySettled

(* EveryRequestEnds, of ingestion where it runs (ingest_event).            *)
IngestionAnswers == part = "ingestion" => EveryRequestEnds
=============================================================================
