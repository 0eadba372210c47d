--------------------------- MODULE EventIngestion ---------------------------
(***************************************************************************)
(* POST /events: concurrent requests that publish events, with or without  *)
(* an Idempotency-Key, while endpoints are created, edited and deleted.    *)
(*                                                                         *)
(* A request runs in one READ COMMITTED transaction, so each of its SELECTs*)
(* sees what is committed at that moment.  The rows it has inserted and    *)
(* not yet committed follow from its fan-out: while rpc[r] = "commit" they *)
(* are the event r, a delivery to each of targets[r] and, with a key, the  *)
(* idempotency record of that key.  An event is named by the request that  *)
(* inserts it (its id is generated there).  A key stands for a pair        *)
(* (project, Idempotency-Key); a body for what _body_hash tells apart, so  *)
(* that its type decides which endpoints want it.                          *)
(***************************************************************************)
EXTENDS Naturals, FiniteSets

CONSTANTS Requests,       (* the requests, a client's retries included       *)
          Endpoints,      (* the endpoints that may come to exist            *)
          Bodies,         (* request bodies: an event type and a payload     *)
          Keys,           (* idempotency keys                                *)
          NoKey,          (* no Idempotency-Key header                       *)
          NoEvent,        (* the event of an answer that names none          *)
          NoBody,         (* the body of a record that does not exist        *)
          MaxEdits        (* bound: endpoint requests (create, patch, delete)*)

ASSUME IngestionAssumption ==
    /\ IsFiniteSet(Endpoints)
    /\ NoKey \notin Keys
    /\ NoEvent \notin Requests
    /\ NoBody \notin Bodies
    /\ MaxEdits \in Nat

VARIABLES
    life,         (* of each endpoint row: absent, live or deleted           *)
    wants,        (* the bodies a live, active endpoint subscribes to        *)
    edits,        (* ghost: endpoint requests so far                         *)
    events,       (* the committed events                                    *)
    deliveries,   (* the committed deliveries: pairs event, endpoint         *)
    records,      (* the committed idempotency records                       *)
    notified,     (* the events whose NOTIFY the workers were sent           *)
    rpc,           (* where each request is in ingest_event                   *)
    ask,          (* the key and the body each request came with             *)
    targets,      (* the fan-out each request has read and not rolled back   *)
    answer        (* what each request has answered                          *)

endpointVars == <<life, wants, edits>>
tableVars == <<events, deliveries, records, notified>>
ingestVars == <<endpointVars, tableVars, rpc, ask, targets, answer>>

-----------------------------------------------------------------------------
Ask == [key : Keys \cup {NoKey}, body : Bodies]

Record == [event : Requests \cup {NoEvent}, queued : Nat, body : Bodies \cup {NoBody}]

NoAnswer == [code |-> 0, event |-> NoEvent, queued |-> 0]
ConflictAnswer == [code |-> 409, event |-> NoEvent, queued |-> 0]
ErrorAnswer == [code |-> 500, event |-> NoEvent, queued |-> 0]
Published(q, n) == [code |-> 201, event |-> q, queued |-> n]

Answers == [code : {201}, event : Requests, queued : Nat]
              \cup {NoAnswer, ConflictAnswer, ErrorAnswer}

NoRecord == [event |-> NoEvent, queued |-> 0, body |-> NoBody]

Keyed(r) == ask[r].key # NoKey

(* The committed record of the key r came with, for a keyed r.             *)
Existing(r) == records[ask[r].key]

(* Variant: a replay is not compared with the request that made the record.*)
CachedUnchecked(r) == Published(Existing(r).event, Existing(r).queued)

(* The answer to a request whose key has a record.                         *)
Cached(r) ==
    IF Existing(r).body # ask[r].body
    THEN ConflictAnswer
    ELSE Published(Existing(r).event, Existing(r).queued)

Matching(b) == {e \in Endpoints : life[e] = "live" /\ b \in wants[e]}

(* The unique key (project_id, idempotency_key) makes an insert wait for   *)
(* the transaction that has inserted the same key and is not over.         *)
KeyHeld(r) == \E q \in Requests : rpc[q] = "commit" /\ ask[q].key = ask[r].key

(* The foreign key of a delivery: its endpoint exists.                     *)
TargetsExist(r) == \A e \in targets[r] : life[e] = "live"

-----------------------------------------------------------------------------
IngestInit ==
    /\ life = [e \in Endpoints |-> "absent"]
    /\ wants = [e \in Endpoints |-> {}]
    /\ edits = 0
    /\ events = {}
    /\ deliveries = {}
    /\ records = [k \in Keys |-> NoRecord]
    /\ notified = {}
    /\ rpc = [r \in Requests |-> "new"]
    /\ ask \in [Requests -> Ask]
    /\ targets = [r \in Requests |-> {}]
    /\ answer = [r \in Requests |-> NoAnswer]

(* The endpoints router.                                                   *)

CreateEndpoint(e) ==
    /\ life[e] = "absent"
    /\ edits < MaxEdits
    /\ life' = [life EXCEPT ![e] = "live"]
    /\ \E S \in SUBSET Bodies : wants' = [wants EXCEPT ![e] = S]
    /\ edits' = edits + 1
    /\ UNCHANGED <<tableVars, rpc, ask, targets, answer>>

(* PATCH: other event types, or a status that is not active (then nothing).*)
PatchEndpoint(e) ==
    /\ life[e] = "live"
    /\ edits < MaxEdits
    /\ \E S \in SUBSET Bodies : wants' = [wants EXCEPT ![e] = S]
    /\ edits' = edits + 1
    /\ UNCHANGED <<life, tableVars, rpc, ask, targets, answer>>

(* DELETE waits for the transactions that have inserted a delivery to e    *)
(* (their foreign keys lock its row), then takes its deliveries along.     *)
DeleteEndpoint(e) ==
    /\ life[e] = "live"
    /\ edits < MaxEdits
    /\ \A q \in Requests : rpc[q] = "commit" => e \notin targets[q]
    /\ life' = [life EXCEPT ![e] = "deleted"]
    /\ wants' = [wants EXCEPT ![e] = {}]
    /\ edits' = edits + 1
    /\ deliveries' = {p \in deliveries : p[2] # e}
    /\ UNCHANGED <<events, records, notified, rpc, ask, targets, answer>>

-----------------------------------------------------------------------------
(* ingest_event.                                                           *)

Reply(r, a) ==
    /\ answer' = [answer EXCEPT ![r] = a]
    /\ rpc' = [rpc EXCEPT ![r] = "done"]

(* The first lookup: a replay is answered, anything else goes on.          *)
Lookup(r) ==
    /\ rpc[r] = "new"
    /\ IF Keyed(r) /\ Existing(r) # NoRecord
       THEN Reply(r, Cached(r))
       ELSE rpc' = [rpc EXCEPT ![r] = "select"] /\ UNCHANGED answer
    /\ UNCHANGED <<endpointVars, tableVars, ask, targets>>

(* The fan-out targets are read before anything is inserted.               *)
SelectTargets(r) ==
    /\ rpc[r] = "select"
    /\ targets' = [targets EXCEPT ![r] = Matching(ask[r].body)]
    /\ rpc' = [rpc EXCEPT ![r] = "insert"]
    /\ UNCHANGED <<endpointVars, tableVars, ask, answer>>

(* Variant: no unique constraint on the idempotency records.               *)
InsertUnconstrained(r) ==
    /\ rpc[r] = "insert"
    /\ TargetsExist(r)
    /\ rpc' = [rpc EXCEPT ![r] = "commit"]
    /\ UNCHANGED <<endpointVars, tableVars, ask, targets, answer>>

(* The event, its deliveries and the record of its key are flushed.        *)
Insert(r) ==
    /\ rpc[r] = "insert"
    /\ TargetsExist(r)
    /\ Keyed(r) => Existing(r) = NoRecord /\ ~KeyHeld(r)
    /\ rpc' = [rpc EXCEPT ![r] = "commit"]
    /\ UNCHANGED <<endpointVars, tableVars, ask, targets, answer>>

(* Variant: after the IntegrityError the same inserts are tried again.     *)
RefusedRetries(r) ==
    /\ rpc[r] = "insert"
    /\ Keyed(r)
    /\ ~TargetsExist(r) \/ Existing(r) # NoRecord
    /\ UNCHANGED ingestVars

(* Variant: objects flushed before the savepoint outlive its rollback.     *)
RefusedLeavesOrphan(r) ==
    /\ rpc[r] = "insert"
    /\ Keyed(r)
    /\ ~TargetsExist(r) \/ Existing(r) # NoRecord
    /\ rpc' = [rpc EXCEPT ![r] = "reread"]
    /\ events' = events \cup {r}
    /\ targets' = [targets EXCEPT ![r] = {}]
    /\ UNCHANGED <<endpointVars, deliveries, records, notified, ask, answer>>

(* IntegrityError: the savepoint takes all three inserts back.             *)
InsertRefused(r) ==
    /\ rpc[r] = "insert"
    /\ Keyed(r)
    /\ ~TargetsExist(r) \/ Existing(r) # NoRecord
    /\ rpc' = [rpc EXCEPT ![r] = "reread"]
    /\ targets' = [targets EXCEPT ![r] = {}]
    /\ UNCHANGED <<endpointVars, tableVars, ask, answer>>

(* Without a key there is no savepoint: the IntegrityError is a 500.       *)
InsertFails(r) ==
    /\ rpc[r] = "insert"
    /\ ~Keyed(r)
    /\ ~TargetsExist(r)
    /\ Reply(r, ErrorAnswer)
    /\ targets' = [targets EXCEPT ![r] = {}]
    /\ UNCHANGED <<endpointVars, tableVars, ask>>

(* Variant: the re-read does without a record and answers what it has.     *)
RereadEmpty(r) ==
    /\ rpc[r] = "reread"
    /\ Reply(r, Published(Existing(r).event, Existing(r).queued))
    /\ UNCHANGED <<endpointVars, tableVars, ask, targets>>

(* The winner's record is re-read with scalar_one, which raises for none.  *)
Reread(r) ==
    /\ rpc[r] = "reread"
    /\ Reply(r, IF Existing(r) = NoRecord THEN ErrorAnswer ELSE Cached(r))
    /\ UNCHANGED <<endpointVars, tableVars, ask, targets>>

(* Variant: the record is committed ahead of the deliveries it counts.     *)
CommitRecordOnly(r) ==
    /\ rpc[r] = "commit"
    /\ events' = events \cup {r}
    /\ records' = IF Keyed(r)
                  THEN [records EXCEPT ![ask[r].key] =
                           [event |-> r, queued |-> Cardinality(targets[r]),
                            body |-> ask[r].body]]
                  ELSE records
    /\ Reply(r, Published(r, Cardinality(targets[r])))
    /\ UNCHANGED <<endpointVars, deliveries, notified, ask, targets>>

(* The caller commits, which sends the NOTIFY if there is work.  The API   *)
(* may stop, or the client be gone, before the answer is out.              *)
CommitEvent(r) ==
    /\ rpc[r] = "commit"
    /\ events' = events \cup {r}
    /\ deliveries' = deliveries \cup {<<r, e>> : e \in targets[r]}
    /\ records' = IF Keyed(r)
                  THEN [records EXCEPT ![ask[r].key] =
                           [event |-> r, queued |-> Cardinality(targets[r]),
                            body |-> ask[r].body]]
                  ELSE records
    /\ notified' = IF targets[r] # {} THEN notified \cup {r} ELSE notified
    /\ \E a \in {Published(r, Cardinality(targets[r])), NoAnswer} : Reply(r, a)
    /\ UNCHANGED <<endpointVars, ask, targets>>

(* The API stops before the commit: the database rolls back.               *)
CutOff(r) ==
    /\ rpc[r] \notin {"new", "done"}
    /\ rpc' = [rpc EXCEPT ![r] = "done"]
    /\ targets' = [targets EXCEPT ![r] = {}]
    /\ UNCHANGED <<endpointVars, tableVars, ask, answer>>

-----------------------------------------------------------------------------
(* The steps of a request that nothing stops.                              *)
Serve(r) ==
    \/ Lookup(r)
    \/ SelectTargets(r)
    \/ Insert(r)
    \/ InsertRefused(r)
    \/ InsertFails(r)
    \/ Reread(r)
    \/ CommitEvent(r)

IngestNext ==
    \/ \E r \in Requests : Serve(r) \/ CutOff(r)
    \/ \E e \in Endpoints : CreateEndpoint(e) \/ PatchEndpoint(e) \/ DeleteEndpoint(e)

IngestSpec == IngestInit /\ [][IngestNext]_ingestVars

(* A request's thread keeps running; a row lock is held no longer than the *)
(* transaction of another request, which ends for the same reason.         *)
IngestFairSpec == IngestSpec /\ \A r \in Requests : WF_ingestVars(Serve(r))

-----------------------------------------------------------------------------
(* Properties.                                                             *)

(* The types of the variables.                                             *)
IngestTypeOK ==
    /\ life \in [Endpoints -> {"absent", "live", "deleted"}]
    /\ wants \in [Endpoints -> SUBSET Bodies]
    /\ edits \in Nat
    /\ events \subseteq Requests
    /\ deliveries \subseteq Requests \X Endpoints
    /\ records \in [Keys -> Record]
    /\ notified \subseteq Requests
    /\ rpc \in [Requests -> {"new", "select", "insert", "reread", "commit", "done"}]
    /\ ask \in [Requests -> Ask]
    /\ targets \in [Requests -> SUBSET Endpoints]
    /\ answer \in [Requests -> Answers]

(* However the requests interleave, a key publishes at most one event, and *)
(* its record tells the truth about it: which event, of which body, fanned *)
(* out to how many endpoints.                                              *)
KeyPublishesOnce ==
    \A q \in events : Keyed(q) =>
        records[ask[q].key] =
            [event |-> q, queued |-> Cardinality(targets[q]), body |-> ask[q].body]

(* An event and its fan-out are published as one: the deliveries are those *)
(* of committed events to every endpoint they were fanned out to, except   *)
(* where the endpoint has been deleted since.  In particular none refers to*)
(* a deleted endpoint, whatever was deleted during the request.            *)
FanOutExact ==
    deliveries =
        {p \in events \X Endpoints : p[2] \in targets[p[1]] /\ life[p[2]] = "live"}

(* All the requests that come with one key and are answered 201 are told   *)
(* of the same event and the same number of deliveries, and had the same   *)
(* body; the event they are told of is committed.                          *)
SameKeySameAnswer ==
    \A q, r \in Requests :
        /\ answer[r].code = 201 => answer[r].event \in events
        /\ Keyed(r) /\ ask[q].key = ask[r].key
              /\ answer[q].code = 201 /\ answer[r].code = 201
           => answer[q] = answer[r] /\ ask[q].body = ask[r].body

(* A request that lost the race, replayed, conflicted or failed leaves no  *)
(* event behind: the savepoint's rollback takes everything back.           *)
LoserLeavesNothing ==
    \A r \in events : answer[r] # NoAnswer => answer[r].event = r

(* The fan-out of the published events.                                    *)
PublishedFanOut == [r \in Requests |-> IF r \in events THEN targets[r] ELSE {}]

OneAtATime == INSTANCE IngestionContract WITH fanout <- PublishedFanOut

(* Interleaved requests look as if served one after the other.             *)
ImplementsIngestion == OneAtATime!Spec

(* Every request that is not cut off is answered: waiting for the holder   *)
(* of a key, losing to it and re-reading its record come to an end.        *)
EveryRequestEnds == \A r \in Requests : rpc[r] # "done" ~> rpc[r] = "done"

(* The comment on the IntegrityError handler: only the unique key of the   *)
(* idempotency records can fire, the foreign keys refer to rows committed  *)
(* before; so a record of the key is there to be re-read.                  *)
RefusalHasWinner ==
    \A r \in Requests : rpc[r] = "reread" => Existing(r) # NoRecord
=============================================================================
