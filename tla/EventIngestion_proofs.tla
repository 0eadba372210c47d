----------------------- MODULE EventIngestion_proofs -----------------------
(***************************************************************************)
(* Proofs about EventIngestion for every set of requests, endpoints,       *)
(* bodies and keys.                                                        *)
(***************************************************************************)
EXTENDS EventIngestion, FiniteSetTheorems, TLAPS

(* A request that is not over has published and answered nothing; one that *)
(* is about to commit fans out to live endpoints, and nobody has published *)
(* or is about to publish with its key.                                    *)
Staged ==
    \A r \in Requests :
        /\ rpc[r] # "done" => r \notin events /\ answer[r] = NoAnswer
        /\ rpc[r] = "reread" => Keyed(r)
        /\ rpc[r] = "commit" =>
              /\ TargetsExist(r)
              /\ Keyed(r) => Existing(r) = NoRecord
              /\ \A q \in Requests :
                    rpc[q] = "commit" /\ Keyed(r) /\ ask[q].key = ask[r].key => q = r

(* A record is that of a published event with its key.                     *)
RecordsHaveEvents ==
    \A k \in Keys : records[k] # NoRecord =>
        records[k].event \in events /\ ask[records[k].event].key = k

(* A request answered 201 is told of a published event with its own key and*)
(* body, and of its own event if it has no key or has published one.       *)
Truthful ==
    \A r \in Requests :
        /\ answer[r].code = 201 =>
              /\ answer[r].event \in events
              /\ answer[r].queued = Cardinality(targets[answer[r].event])
              /\ ask[answer[r].event] = ask[r]
        /\ r \in events => answer[r] \in {NoAnswer, Published(r, Cardinality(targets[r]))}

(* No fan-out holds an endpoint that is yet to be created.                 *)
FanOutKnown == \A r \in Requests : \A e \in targets[r] : life[e] # "absent"

(* The inductive invariant.                                                *)
IInv ==
    /\ IngestTypeOK
    /\ Staged
    /\ FanOutKnown
    /\ RecordsHaveEvents
    /\ KeyPublishesOnce
    /\ FanOutExact
    /\ Truthful

-----------------------------------------------------------------------------
LEMMA FanOutSize ==
    ASSUME IngestTypeOK, NEW r \in Requests
    PROVE  Cardinality(targets[r]) \in Nat
<1>1. targets[r] \subseteq Endpoints
  BY DEF IngestTypeOK
<1>2. IsFiniteSet(targets[r])
  BY <1>1, FS_Subset, IngestionAssumption
<1>3. QED
  BY <1>2, FS_CardinalityType

LEMMA KeyedHasRecord ==
    ASSUME IngestTypeOK, NEW r \in Requests, Keyed(r)
    PROVE  ask[r].key \in Keys /\ Existing(r) \in Record
<1>1. ask[r].key \in Keys
  BY DEF IngestTypeOK, Ask, Keyed
<1>2. QED
  BY <1>1 DEF IngestTypeOK, Existing

LEMMA AnswersTyped ==
    /\ NoAnswer \in Answers /\ ConflictAnswer \in Answers /\ ErrorAnswer \in Answers
    /\ NoAnswer.code # 201 /\ ConflictAnswer.code # 201 /\ ErrorAnswer.code # 201
  BY DEF Answers, NoAnswer, ConflictAnswer, ErrorAnswer

(* The record of a key that has one is that of its one published event.    *)
LEMMA RecordKnown ==
    ASSUME IInv, NEW r \in Requests, Keyed(r), Existing(r) # NoRecord
    PROVE  \E q \in events :
              /\ q \in Requests
              /\ ask[q].key = ask[r].key
              /\ Existing(r) = [event |-> q, queued |-> Cardinality(targets[q]),
                                body |-> ask[q].body]
<1>1. ask[r].key \in Keys
  BY KeyedHasRecord DEF IInv
<1> DEFINE q == Existing(r).event
<1>2. q \in events /\ ask[q].key = ask[r].key
  BY <1>1 DEF IInv, RecordsHaveEvents, Existing
<1>3. Keyed(q)
  BY <1>2 DEF Keyed
<1>4. Existing(r) = [event |-> q, queued |-> Cardinality(targets[q]), body |-> ask[q].body]
  BY <1>2, <1>3 DEF IInv, KeyPublishesOnce, Existing
<1>5. QED
  BY <1>2, <1>4 DEF IInv, IngestTypeOK

(* What Cached answers.                                                    *)
LEMMA CachedKnown ==
    ASSUME IInv, NEW r \in Requests, Keyed(r), Existing(r) # NoRecord
    PROVE  \E q \in events :
              /\ q \in Requests
              /\ ask[q].key = ask[r].key
              /\ Cached(r) = IF ask[q].body = ask[r].body
                             THEN Published(q, Cardinality(targets[q]))
                             ELSE ConflictAnswer
<1>1. PICK q \in events :
          /\ q \in Requests
          /\ ask[q].key = ask[r].key
          /\ Existing(r) = [event |-> q, queued |-> Cardinality(targets[q]),
                            body |-> ask[q].body]
  BY RecordKnown
<1>2. QED
  BY <1>1 DEF Cached

-----------------------------------------------------------------------------
LEMMA InitIInv == IngestInit => IInv
<1> SUFFICES ASSUME IngestInit PROVE IInv
  OBVIOUS
<1>1. IngestTypeOK
  BY AnswersTyped DEF IngestInit, IngestTypeOK, Record, NoRecord
<1>2. Staged
  BY DEF IngestInit, Staged
<1>3. RecordsHaveEvents
  BY DEF IngestInit, RecordsHaveEvents
<1>4. KeyPublishesOnce /\ FanOutExact
  BY DEF IngestInit, KeyPublishesOnce, FanOutExact
<1>5. Truthful
  BY AnswersTyped DEF IngestInit, Truthful
<1>6. FanOutKnown
  BY DEF IngestInit, FanOutKnown
<1>7. QED
  BY <1>1, <1>2, <1>3, <1>4, <1>5, <1>6 DEF IInv

(* A step that only moves one request on and perhaps answers it.           *)
LEMMA QuietStep ==
    ASSUME IInv, NEW r \in Requests, rpc[r] # "done",
           NEW p \in {"select", "insert", "reread", "done"},
           NEW a \in Answers,
           NEW S \in SUBSET Endpoints, \A e \in S : life[e] # "absent",
           UNCHANGED <<endpointVars, tableVars, ask>>,
           rpc' = [rpc EXCEPT ![r] = p],
           answer' = [answer EXCEPT ![r] = a],
           targets' = [targets EXCEPT ![r] = S],
           p # "done" => a = NoAnswer,
           p = "reread" => Keyed(r),
           a.code = 201 => \E q \in events : /\ a = Published(q, Cardinality(targets[q]))
                                            /\ ask[q] = ask[r]
    PROVE  IInv'
<1> USE DEF endpointVars, tableVars
<1>1. IngestTypeOK'
  BY DEF IInv, IngestTypeOK
<1>2. r \notin events /\ answer[r] = NoAnswer
  BY DEF IInv, Staged
<1>3. \A q \in Requests : q # r => targets'[q] = targets[q] /\ answer'[q] = answer[q]
                                     /\ rpc'[q] = rpc[q]
  BY DEF IInv, IngestTypeOK
<1>4. rpc'[r] = p /\ answer'[r] = a
  BY DEF IInv, IngestTypeOK
<1>5. \A q \in events : targets'[q] = targets[q] /\ answer'[q] = answer[q]
  BY <1>2, <1>3 DEF IInv, IngestTypeOK
<1>6. Staged'
  BY <1>2, <1>3, <1>4 DEF IInv, Staged, TargetsExist, Keyed, Existing
<1>7. RecordsHaveEvents'
  BY DEF IInv, RecordsHaveEvents
<1>8. KeyPublishesOnce'
  BY <1>5 DEF IInv, KeyPublishesOnce, Keyed
<1>9. FanOutExact'
  BY <1>5 DEF IInv, FanOutExact
<1>10. Truthful'
  <2>1. ASSUME NEW q \in Requests, answer'[q].code = 201
        PROVE  /\ answer'[q].event \in events
               /\ answer'[q].queued = Cardinality(targets'[answer'[q].event])
               /\ ask[answer'[q].event] = ask[q]
    <3>1. CASE q = r
      <4>1. PICK e \in events : a = Published(e, Cardinality(targets[e])) /\ ask[e] = ask[r]
        BY <3>1, <2>1, <1>4
      <4>2. QED
        BY <4>1, <3>1, <1>4, <1>5 DEF Published
    <3>2. CASE q # r
      BY <3>2, <2>1, <1>3, <1>5 DEF IInv, Truthful
    <3>3. QED
      BY <3>1, <3>2
  <2>2. ASSUME NEW q \in Requests, q \in events
        PROVE  answer'[q] \in {NoAnswer, Published(q, Cardinality(targets'[q]))}
    BY <2>2, <1>5 DEF IInv, Truthful
  <2>3. QED
    BY <2>1, <2>2 DEF Truthful
<1>11. FanOutKnown'
  BY <1>3 DEF IInv, IngestTypeOK, FanOutKnown
<1>12. QED
  BY <1>1, <1>6, <1>7, <1>8, <1>9, <1>10, <1>11 DEF IInv

(* What Cached answers is a truthful answer.                               *)
LEMMA CachedTruthful ==
    ASSUME IInv, NEW r \in Requests, Keyed(r), Existing(r) # NoRecord
    PROVE  /\ Cached(r) \in Answers
           /\ Cached(r).code = 201 =>
                 \E q \in events : /\ Cached(r) = Published(q, Cardinality(targets[q]))
                                  /\ ask[q] = ask[r]
<1>1. PICK q \in events :
          /\ q \in Requests
          /\ ask[q].key = ask[r].key
          /\ Cached(r) = IF ask[q].body = ask[r].body
                         THEN Published(q, Cardinality(targets[q]))
                         ELSE ConflictAnswer
  BY CachedKnown
<1>2. Published(q, Cardinality(targets[q])) \in Answers
  BY <1>1, FanOutSize DEF IInv, Answers, Published
<1>3. ask[q].body = ask[r].body => ask[q] = ask[r]
  BY <1>1 DEF IInv, IngestTypeOK, Ask
<1>4. QED
  BY <1>1, <1>2, <1>3, AnswersTyped

LEMMA LookupKeeps ==
    ASSUME IInv, NEW r \in Requests, Lookup(r)
    PROVE  IInv'
<1> USE DEF Lookup, Reply
<1>1. /\ targets' = [targets EXCEPT ![r] = targets[r]] /\ targets[r] \in SUBSET Endpoints
      /\ \A e \in targets[r] : life[e] # "absent"
  BY DEF IInv, IngestTypeOK, FanOutKnown
<1>2. CASE Keyed(r) /\ Existing(r) # NoRecord
  BY <1>1, <1>2, CachedTruthful, QuietStep
<1>3. CASE ~(Keyed(r) /\ Existing(r) # NoRecord)
  <2>1. answer' = [answer EXCEPT ![r] = NoAnswer]
    BY <1>3 DEF IInv, IngestTypeOK, Staged
  <2>2. QED
    BY <1>1, <1>3, <2>1, AnswersTyped, QuietStep
<1>4. QED
  BY <1>2, <1>3

LEMMA SelectKeeps ==
    ASSUME IInv, NEW r \in Requests, SelectTargets(r)
    PROVE  IInv'
<1>1. answer' = [answer EXCEPT ![r] = NoAnswer]
  BY DEF SelectTargets, IInv, IngestTypeOK, Staged
<1>2. /\ Matching(ask[r].body) \in SUBSET Endpoints
      /\ \A e \in Matching(ask[r].body) : life[e] # "absent"
  BY DEF Matching
<1>3. QED
  BY <1>1, <1>2, AnswersTyped, QuietStep DEF SelectTargets

LEMMA RefusedKeeps ==
    ASSUME IInv, NEW r \in Requests, InsertRefused(r)
    PROVE  IInv'
<1>1. answer' = [answer EXCEPT ![r] = NoAnswer]
  BY DEF InsertRefused, IInv, IngestTypeOK, Staged
<1>2. PICK S \in SUBSET Endpoints : /\ targets' = [targets EXCEPT ![r] = S]
                                   /\ \A e \in S : life[e] # "absent"
  <2>1. PICK S \in SUBSET Endpoints : S = {}
    OBVIOUS
  <2>2. targets' = [targets EXCEPT ![r] = S]
    BY <2>1 DEF InsertRefused
  <2>3. QED
    BY <2>1, <2>2
<1>3. QED
  BY <1>1, <1>2, AnswersTyped, QuietStep DEF InsertRefused

LEMMA FailsKeeps ==
    ASSUME IInv, NEW r \in Requests, InsertFails(r)
    PROVE  IInv'
<1>1. PICK S \in SUBSET Endpoints : /\ targets' = [targets EXCEPT ![r] = S]
                                   /\ \A e \in S : life[e] # "absent"
  <2>1. PICK S \in SUBSET Endpoints : S = {}
    OBVIOUS
  <2>2. targets' = [targets EXCEPT ![r] = S]
    BY <2>1 DEF InsertFails
  <2>3. QED
    BY <2>1, <2>2
<1>2. /\ rpc' = [rpc EXCEPT ![r] = "done"] /\ answer' = [answer EXCEPT ![r] = ErrorAnswer]
      /\ rpc[r] # "done" /\ UNCHANGED <<endpointVars, tableVars, ask>>
  BY DEF InsertFails, Reply
<1>3. QED
  BY <1>1, <1>2, AnswersTyped, QuietStep

LEMMA RereadKeeps ==
    ASSUME IInv, NEW r \in Requests, Reread(r)
    PROVE  IInv'
<1>1. PICK S \in SUBSET Endpoints : /\ targets' = [targets EXCEPT ![r] = S]
                                   /\ \A e \in S : life[e] # "absent"
  BY DEF Reread, IInv, IngestTypeOK, FanOutKnown
<1>2. /\ rpc' = [rpc EXCEPT ![r] = "done"]
      /\ answer' = [answer EXCEPT ![r] = IF Existing(r) = NoRecord THEN ErrorAnswer ELSE Cached(r)]
      /\ rpc[r] # "done" /\ UNCHANGED <<endpointVars, tableVars, ask>>
  BY DEF Reread, Reply
<1>3. CASE Existing(r) = NoRecord
  <2>1. PICK a \in Answers : a = ErrorAnswer /\ a.code # 201
    BY AnswersTyped
  <2>2. answer' = [answer EXCEPT ![r] = a]
    BY <1>2, <1>3, <2>1
  <2>3. QED
    BY <1>1, <1>2, <2>1, <2>2, QuietStep
<1>4. CASE Existing(r) # NoRecord
  <2>1. Keyed(r)
    BY DEF Reread, IInv, Staged
  <2>2. answer' = [answer EXCEPT ![r] = Cached(r)]
    BY <1>2, <1>4
  <2>3. QED
    BY <1>1, <1>2, <1>4, <2>1, <2>2, CachedTruthful, QuietStep
<1>5. QED
  BY <1>3, <1>4

LEMMA CrashKeeps ==
    ASSUME IInv, NEW r \in Requests, CutOff(r)
    PROVE  IInv'
<1>1. answer' = [answer EXCEPT ![r] = NoAnswer]
  BY DEF CutOff, IInv, IngestTypeOK, Staged
<1>2. PICK S \in SUBSET Endpoints : /\ targets' = [targets EXCEPT ![r] = S]
                                   /\ \A e \in S : life[e] # "absent"
  <2>1. PICK S \in SUBSET Endpoints : S = {}
    OBVIOUS
  <2>2. targets' = [targets EXCEPT ![r] = S]
    BY <2>1 DEF CutOff
  <2>3. QED
    BY <2>1, <2>2
<1>3. QED
  BY <1>1, <1>2, AnswersTyped, QuietStep DEF CutOff

(* The inserts: nothing is visible yet.                                    *)
LEMMA InsertKeeps ==
    ASSUME IInv, NEW r \in Requests, Insert(r)
    PROVE  IInv'
<1> USE DEF Insert, endpointVars, tableVars
<1>1. IngestTypeOK'
  BY DEF IInv, IngestTypeOK
<1>2. Staged'
  <2>1. rpc' = [rpc EXCEPT ![r] = "commit"] /\ rpc[r] = "insert" /\ rpc'[r] = "commit"
        /\ \A q \in Requests : q # r => rpc'[q] = rpc[q]
    BY DEF IInv, IngestTypeOK
  <2>2. ASSUME NEW q \in Requests, rpc'[q] # "done"
        PROVE  q \notin events' /\ answer'[q] = NoAnswer
    BY <2>1, <2>2 DEF IInv, Staged
  <2>3. ASSUME NEW q \in Requests, rpc'[q] = "commit"
        PROVE  TargetsExist(q)' /\ (Keyed(q)' => (Existing(q) = NoRecord)')
    BY <2>1, <2>3 DEF IInv, Staged, TargetsExist, Keyed, Existing
  <2>4. ASSUME NEW p \in Requests, NEW q \in Requests, rpc'[p] = "commit", rpc'[q] = "commit",
               Keyed(p), ask[q].key = ask[p].key
        PROVE  q = p
    <3>1. Keyed(q)
      BY <2>4 DEF Keyed
    <3>2. QED
      BY <2>1, <2>4, <3>1 DEF IInv, Staged, KeyHeld
  <2>5. ASSUME NEW q \in Requests, rpc'[q] = "reread" PROVE Keyed(q)
    BY <2>1, <2>5 DEF IInv, Staged
  <2>6. QED
    BY <2>2, <2>3, <2>4, <2>5 DEF Staged, Keyed
<1>3. RecordsHaveEvents' /\ KeyPublishesOnce' /\ FanOutExact' /\ FanOutKnown' /\ Truthful'
  BY DEF IInv, RecordsHaveEvents, KeyPublishesOnce, Keyed, FanOutExact, FanOutKnown, Truthful
<1>4. QED
  BY <1>1, <1>2, <1>3 DEF IInv

(* The commit publishes the event, its fan-out and its record at once.     *)
LEMMA CommitKeeps ==
    ASSUME IInv, NEW r \in Requests, CommitEvent(r)
    PROVE  IInv'
<1> DEFINE n == Cardinality(targets[r])
           rec == [event |-> r, queued |-> n, body |-> ask[r].body]
<1> USE DEF endpointVars
<1>1. /\ rpc[r] = "commit" /\ r \notin events /\ answer[r] = NoAnswer /\ TargetsExist(r)
      /\ Keyed(r) => ask[r].key \in Keys /\ Existing(r) = NoRecord
  BY KeyedHasRecord DEF CommitEvent, IInv, Staged
<1>2. n \in Nat /\ Published(r, n) \in Answers /\ ask[r] \in Ask
  BY FanOutSize DEF IInv, IngestTypeOK, Published, Answers
<1>3. PICK a \in {Published(r, n), NoAnswer} :
          answer' = [answer EXCEPT ![r] = a] /\ rpc' = [rpc EXCEPT ![r] = "done"]
  BY DEF CommitEvent, Reply
<1>4. /\ UNCHANGED <<life, wants, edits, ask, targets>>
      /\ events' = events \cup {r}
      /\ deliveries' = deliveries \cup {<<r, e>> : e \in targets[r]}
      /\ records' = IF Keyed(r) THEN [records EXCEPT ![ask[r].key] = rec] ELSE records
      /\ notified' \subseteq notified \cup {r}
  BY DEF CommitEvent
<1>5. rec \in Record
  BY <1>2 DEF Record, Ask
<1>6. a \in Answers
  BY <1>2, AnswersTyped
<1> HIDE DEF n, rec
<1>7. IngestTypeOK'
  <2>1. records' \in [Keys -> Record]
    BY <1>1, <1>4, <1>5 DEF IInv, IngestTypeOK
  <2>2. deliveries' \subseteq Requests \X Endpoints
    BY <1>4 DEF IInv, IngestTypeOK
  <2>3. answer' \in [Requests -> Answers]
    BY <1>3, <1>6 DEF IInv, IngestTypeOK
  <2>4. rpc' \in [Requests -> {"new", "select", "insert", "reread", "commit", "done"}]
    BY <1>3 DEF IInv, IngestTypeOK
  <2>5. QED
    BY <1>4, <2>1, <2>2, <2>3, <2>4 DEF IInv, IngestTypeOK
<1>8. \A q \in Requests : q # r => rpc'[q] = rpc[q] /\ answer'[q] = answer[q]
  BY <1>3 DEF IInv, IngestTypeOK
<1>9. rpc'[r] = "done" /\ answer'[r] = a
  BY <1>3 DEF IInv, IngestTypeOK
<1>10. \A k \in Keys : Keyed(r) /\ k = ask[r].key => records'[k] = rec
  BY <1>4 DEF IInv, IngestTypeOK
<1>11. \A k \in Keys : ~(Keyed(r) /\ k = ask[r].key) => records'[k] = records[k]
  BY <1>4 DEF IInv, IngestTypeOK
<1>12. Staged'
  <2>1. ASSUME NEW q \in Requests, rpc'[q] # "done"
        PROVE  q \notin events' /\ answer'[q] = NoAnswer /\ (rpc'[q] = "reread" => Keyed(q)')
    BY <2>1, <1>4, <1>8, <1>9 DEF IInv, Staged, Keyed
  <2>2. ASSUME NEW q \in Requests, rpc'[q] = "commit"
        PROVE  TargetsExist(q)'
    BY <2>2, <1>4, <1>8, <1>9 DEF IInv, Staged, TargetsExist
  <2>3. ASSUME NEW q \in Requests, rpc'[q] = "commit", Keyed(q)
        PROVE  records'[ask[q].key] = NoRecord
    <3>1. q # r /\ rpc[q] = "commit"
      BY <2>3, <1>8, <1>9
    <3>2. ask[q].key # ask[r].key
      BY <3>1, <2>3, <1>1 DEF IInv, Staged
    <3>3. ask[q].key \in Keys /\ records[ask[q].key] = NoRecord
      BY <3>1, <2>3, KeyedHasRecord DEF IInv, Staged, Existing
    <3>4. QED
      BY <3>2, <3>3, <1>11
  <2>4. ASSUME NEW p \in Requests, NEW q \in Requests, rpc'[p] = "commit", rpc'[q] = "commit",
               Keyed(p), ask[q].key = ask[p].key
        PROVE  q = p
    BY <2>4, <1>8, <1>9 DEF IInv, Staged
  <2>5. QED
    BY <2>1, <2>2, <2>3, <2>4, <1>4 DEF Staged, Keyed, Existing
<1>13. RecordsHaveEvents'
  <2>1. ASSUME NEW k \in Keys, records'[k] # NoRecord
        PROVE  records'[k].event \in events' /\ ask[records'[k].event].key = k
    <3>1. CASE Keyed(r) /\ k = ask[r].key
      BY <3>1, <1>4, <1>10 DEF rec
    <3>2. CASE ~(Keyed(r) /\ k = ask[r].key)
      BY <3>2, <2>1, <1>4, <1>11 DEF IInv, RecordsHaveEvents
    <3>3. QED
      BY <3>1, <3>2
  <2>2. QED
    BY <2>1, <1>4 DEF RecordsHaveEvents
<1>14. KeyPublishesOnce'
  <2>1. ASSUME NEW q \in events', Keyed(q)
        PROVE  records'[ask[q].key] =
                  [event |-> q, queued |-> Cardinality(targets[q]), body |-> ask[q].body]
    <3>1. CASE q = r
      BY <3>1, <2>1, <1>1, <1>10 DEF rec, n
    <3>2. CASE q # r
      <4>1. q \in events /\ q \in Requests
        BY <3>2, <1>4 DEF IInv, IngestTypeOK
      <4>2. ask[q].key \in Keys
        BY <4>1, <2>1, KeyedHasRecord DEF IInv
      <4>3. records[ask[q].key] =
               [event |-> q, queued |-> Cardinality(targets[q]), body |-> ask[q].body]
        BY <4>1, <2>1 DEF IInv, KeyPublishesOnce
      <4>4. records[ask[q].key] # NoRecord
        BY <4>1, <4>3, IngestionAssumption DEF NoRecord
      <4>5. ~(Keyed(r) /\ ask[q].key = ask[r].key)
        BY <4>4, <1>1 DEF Existing
      <4>6. QED
        BY <4>2, <4>3, <4>5, <1>11
    <3>3. QED
      BY <3>1, <3>2
  <2>2. QED
    BY <2>1, <1>4 DEF KeyPublishesOnce, Keyed
<1>15. FanOutExact'
  <2>1. \A e \in targets[r] : e \in Endpoints /\ life[e] = "live"
    BY <1>1 DEF IInv, IngestTypeOK, TargetsExist
  <2>2. deliveries = {p \in events \X Endpoints : p[2] \in targets[p[1]] /\ life[p[2]] = "live"}
    BY DEF IInv, FanOutExact
  <2>3. deliveries' =
          {p \in (events \cup {r}) \X Endpoints : p[2] \in targets[p[1]] /\ life[p[2]] = "live"}
    BY <2>1, <2>2, <1>4
  <2>4. QED
    BY <2>3, <1>4 DEF FanOutExact
<1>16. Truthful'
  <2>1. ASSUME NEW q \in Requests, answer'[q].code = 201
        PROVE  /\ answer'[q].event \in events'
               /\ answer'[q].queued = Cardinality(targets[answer'[q].event])
               /\ ask[answer'[q].event] = ask[q]
    <3>1. CASE q = r
      <4>1. answer'[q] = Published(r, n)
        BY <3>1, <2>1, <1>9, AnswersTyped
      <4>2. QED
        BY <3>1, <4>1, <1>4 DEF Published, n
    <3>2. CASE q # r
      BY <3>2, <2>1, <1>4, <1>8 DEF IInv, Truthful
    <3>3. QED
      BY <3>1, <3>2
  <2>2. ASSUME NEW q \in Requests, q \in events'
        PROVE  answer'[q] \in {NoAnswer, Published(q, Cardinality(targets[q]))}
    <3>1. CASE q = r
      BY <3>1, <1>9 DEF n
    <3>2. CASE q # r
      BY <3>2, <2>2, <1>4, <1>8 DEF IInv, Truthful
    <3>3. QED
      BY <3>1, <3>2
  <2>3. QED
    BY <2>1, <2>2, <1>4 DEF Truthful
<1>17. FanOutKnown'
  BY <1>4 DEF IInv, FanOutKnown
<1>18. QED
  BY <1>7, <1>12, <1>13, <1>14, <1>15, <1>16, <1>17 DEF IInv

-----------------------------------------------------------------------------
(* The endpoints router: no request moves.                                 *)

LEMMA EndpointStep ==
    ASSUME IInv,
           UNCHANGED <<events, records, notified, rpc, ask, targets, answer>>,
           IngestTypeOK',
           FanOutExact', FanOutKnown',
           \A r \in Requests : rpc[r] = "commit" => \A e \in targets[r] : life'[e] = "live"
    PROVE  IInv'
<1>1. Staged'
  BY DEF IInv, Staged, TargetsExist, Keyed, Existing
<1>2. RecordsHaveEvents' /\ KeyPublishesOnce' /\ Truthful'
  BY DEF IInv, RecordsHaveEvents, KeyPublishesOnce, Keyed, Truthful
<1>3. QED
  BY <1>1, <1>2 DEF IInv

LEMMA CreateKeeps ==
    ASSUME IInv, NEW e \in Endpoints, CreateEndpoint(e)
    PROVE  IInv'
<1> USE DEF CreateEndpoint, tableVars
<1>1. IngestTypeOK'
  BY IngestionAssumption DEF IInv, IngestTypeOK
<1>2. \A x \in Endpoints : life[x] # "absent" => life'[x] = life[x]
  BY DEF IInv, IngestTypeOK
<1>3. \A r \in Requests : \A x \in targets[r] : x \in Endpoints /\ life[x] # "absent"
  BY DEF IInv, IngestTypeOK, FanOutKnown
<1>4. FanOutExact'
  <2>1. deliveries = {p \in events \X Endpoints : p[2] \in targets[p[1]] /\ life[p[2]] = "live"}
    BY DEF IInv, FanOutExact
  <2>2. events \subseteq Requests
    BY DEF IInv, IngestTypeOK
  <2>3. QED
    BY <1>2, <1>3, <2>1, <2>2 DEF FanOutExact
<1>5. FanOutKnown'
  BY <1>2, <1>3 DEF FanOutKnown
<1>6. \A r \in Requests : rpc[r] = "commit" => \A x \in targets[r] : life'[x] = "live"
  BY <1>2, <1>3 DEF IInv, Staged, TargetsExist
<1>7. QED
  BY <1>1, <1>4, <1>5, <1>6, EndpointStep

LEMMA PatchKeeps ==
    ASSUME IInv, NEW e \in Endpoints, PatchEndpoint(e)
    PROVE  IInv'
<1>1. IngestTypeOK'
  BY IngestionAssumption DEF PatchEndpoint, tableVars, IInv, IngestTypeOK
<1>2. FanOutExact'
  BY DEF PatchEndpoint, tableVars, IInv, FanOutExact
<1>3. \A r \in Requests : rpc[r] = "commit" => \A x \in targets[r] : life'[x] = "live"
  BY DEF PatchEndpoint, IInv, Staged, TargetsExist
<1>4. FanOutKnown'
  BY DEF PatchEndpoint, IInv, FanOutKnown
<1>5. QED
  BY <1>1, <1>2, <1>3, <1>4, EndpointStep DEF PatchEndpoint, tableVars

LEMMA DeleteKeeps ==
    ASSUME IInv, NEW e \in Endpoints, DeleteEndpoint(e)
    PROVE  IInv'
<1>1. IngestTypeOK'
  BY IngestionAssumption DEF DeleteEndpoint, IInv, IngestTypeOK
<1>2. FanOutExact'
  <2>1. deliveries = {p \in events \X Endpoints : p[2] \in targets[p[1]] /\ life[p[2]] = "live"}
    BY DEF IInv, FanOutExact
  <2>2. \A x \in Endpoints : life'[x] = "live" <=> life[x] = "live" /\ x # e
    BY DEF DeleteEndpoint, IInv, IngestTypeOK
  <2>3. QED
    BY <2>1, <2>2 DEF DeleteEndpoint, FanOutExact
<1>3. \A r \in Requests : rpc[r] = "commit" => \A x \in targets[r] : life'[x] = "live"
  BY DEF DeleteEndpoint, IInv, IngestTypeOK, Staged, TargetsExist
<1>4. FanOutKnown'
  BY DEF DeleteEndpoint, IInv, IngestTypeOK, FanOutKnown
<1>5. QED
  BY <1>1, <1>2, <1>3, <1>4, EndpointStep DEF DeleteEndpoint

-----------------------------------------------------------------------------
LEMMA NextIInv == IInv /\ [IngestNext]_ingestVars => IInv'
<1> SUFFICES ASSUME IInv, [IngestNext]_ingestVars PROVE IInv'
  OBVIOUS
<1>1. ASSUME NEW r \in Requests, Serve(r) PROVE IInv'
  BY <1>1, LookupKeeps, SelectKeeps, InsertKeeps, RefusedKeeps, FailsKeeps, RereadKeeps,
     CommitKeeps DEF Serve
<1>2. ASSUME NEW r \in Requests, CutOff(r) PROVE IInv'
  BY <1>2, CrashKeeps
<1>3. ASSUME NEW e \in Endpoints,
             CreateEndpoint(e) \/ PatchEndpoint(e) \/ DeleteEndpoint(e)
      PROVE  IInv'
  BY <1>3, CreateKeeps, PatchKeeps, DeleteKeeps
<1>4. ASSUME UNCHANGED ingestVars PROVE IInv'
  BY <1>4 DEF ingestVars, endpointVars, tableVars, IInv, IngestTypeOK, Staged, FanOutKnown, TargetsExist,
     Keyed, Existing, RecordsHaveEvents, KeyPublishesOnce, FanOutExact, Truthful
<1>5. QED
  BY <1>1, <1>2, <1>3, <1>4 DEF IngestNext

(* The inductive invariant holds in every state.                           *)
LEMMA Invariance == IngestSpec => []IInv
<1>1. QED
  BY InitIInv, NextIInv, PTL DEF IngestSpec

(* The types of ingestion's tables and requests hold for every number of   *)
(* requests and endpoints.                                                 *)
THEOREM IngestionTypes == IngestSpec => []IngestTypeOK
<1>1. IInv => IngestTypeOK
  BY DEF IInv
<1>2. QED
  BY <1>1, Invariance, PTL

(* However many requests race (ingest_event's lookup, savepoint and unique *)
(* key), a key publishes at most one event and its record describes it.    *)
THEOREM OneEventPerKey == IngestSpec => []KeyPublishesOnce
<1>1. IInv => KeyPublishesOnce
  BY DEF IInv
<1>2. QED
  BY <1>1, Invariance, PTL

(* An event and its deliveries are published as one, and no delivery refers*)
(* to a deleted endpoint, however ingestion and DELETE interleave.         *)
THEOREM FanOutIsAtomic == IngestSpec => []FanOutExact
<1>1. IInv => FanOutExact
  BY DEF IInv
<1>2. QED
  BY <1>1, Invariance, PTL

(* Requests with one key that are answered 201 are answered alike.         *)
THEOREM AnswersAgree == IngestSpec => []SameKeySameAnswer
<1>1. IInv => SameKeySameAnswer
  <2> SUFFICES ASSUME IInv PROVE SameKeySameAnswer
    OBVIOUS
  <2>1. ASSUME NEW q \in Requests, NEW r \in Requests, Keyed(r), ask[q].key = ask[r].key,
               answer[q].code = 201, answer[r].code = 201
        PROVE  answer[q] = answer[r] /\ ask[q].body = ask[r].body
    <3> DEFINE d == answer[q].event
               e == answer[r].event
    <3>1. /\ d \in events /\ ask[d] = ask[q] /\ answer[q].queued = Cardinality(targets[d])
          /\ e \in events /\ ask[e] = ask[r] /\ answer[r].queued = Cardinality(targets[e])
      BY <2>1 DEF IInv, Truthful
    <3>2. Keyed(d) /\ Keyed(e) /\ ask[d].key = ask[e].key
      BY <2>1, <3>1 DEF Keyed
    <3>3. d = e
      <4>1. records[ask[d].key] =
               [event |-> d, queued |-> Cardinality(targets[d]), body |-> ask[d].body]
        BY <3>1, <3>2 DEF IInv, KeyPublishesOnce
      <4>2. records[ask[e].key] =
               [event |-> e, queued |-> Cardinality(targets[e]), body |-> ask[e].body]
        BY <3>1, <3>2 DEF IInv, KeyPublishesOnce
      <4>3. QED
        BY <3>2, <4>1, <4>2
    <3>4. /\ answer[q] = Published(answer[q].event, answer[q].queued)
          /\ answer[r] = Published(answer[r].event, answer[r].queued)
      BY <2>1, AnswersTyped DEF IInv, IngestTypeOK, Answers, Published
    <3>5. QED
      BY <3>1, <3>3, <3>4
  <2>2. \A r \in Requests : answer[r].code = 201 => answer[r].event \in events
    BY DEF IInv, Truthful
  <2>3. QED
    BY <2>1, <2>2 DEF SameKeySameAnswer
<1>2. QED
  BY <1>1, Invariance, PTL

(* A request that did not publish leaves no event behind.                  *)
THEOREM LosersLeaveNothing == IngestSpec => []LoserLeavesNothing
<1>1. IInv => LoserLeavesNothing
  BY DEF IInv, IngestTypeOK, Truthful, LoserLeavesNothing, Published
<1>2. QED
  BY <1>1, Invariance, PTL

-----------------------------------------------------------------------------
(* Refinement of the contract.                                             *)

LEMMA ContractInit == IngestInit => OneAtATime!Init
  BY DEF IngestInit, OneAtATime!Init, Ask, NoAnswer, PublishedFanOut

(* A step of a request that publishes nothing and answers nothing.         *)
LEMMA Unseen ==
    ASSUME IInv, UNCHANGED <<ask, events, answer>>,
           \A q \in events : targets'[q] = targets[q]
    PROVE  UNCHANGED OneAtATime!vars
<1>1. PublishedFanOut' = PublishedFanOut
  BY DEF PublishedFanOut
<1>2. QED
  BY <1>1 DEF OneAtATime!vars

(* An answer from the record of the key.                                   *)
LEMMA CachedContract ==
    ASSUME IInv, NEW r \in Requests, rpc[r] # "done", Keyed(r), Existing(r) # NoRecord,
           answer' = [answer EXCEPT ![r] = Cached(r)],
           UNCHANGED <<ask, events, targets>>
    PROVE  OneAtATime!Replay(r)
<1>1. r \notin events /\ answer[r].code = 0
  BY DEF IInv, Staged, NoAnswer
<1>2. PICK q \in events :
          /\ q \in Requests
          /\ ask[q].key = ask[r].key
          /\ Cached(r) = IF ask[q].body = ask[r].body
                         THEN Published(q, Cardinality(targets[q]))
                         ELSE ConflictAnswer
  BY CachedKnown
<1>3. q \in OneAtATime!Earlier(r)
  BY <1>2 DEF OneAtATime!Earlier, Keyed
<1>4. PublishedFanOut[q] = targets[q] /\ PublishedFanOut' = PublishedFanOut
  BY <1>2 DEF PublishedFanOut
<1>5. IF ask[q].body = ask[r].body
      THEN OneAtATime!Told(r, [code |-> 201, event |-> q,
                             queued |-> Cardinality(PublishedFanOut[q])])
      ELSE OneAtATime!Told(r, [code |-> 409, event |-> NoEvent, queued |-> 0])
  BY <1>2, <1>4 DEF OneAtATime!Told, Published, ConflictAnswer
<1>6. Cardinality(PublishedFanOut[q]) = OneAtATime!Cardinality(PublishedFanOut[q])
  BY DEF OneAtATime!Cardinality, Cardinality
<1>7. QED
  BY <1>1, <1>2, <1>3, <1>4, <1>5, <1>6 DEF OneAtATime!Replay

LEMMA ErrorContract ==
    ASSUME IInv, NEW r \in Requests, rpc[r] # "done",
           answer' = [answer EXCEPT ![r] = ErrorAnswer],
           UNCHANGED <<ask, events>>,
           \A q \in events : targets'[q] = targets[q]
    PROVE  OneAtATime!Fail(r)
<1>1. r \notin events /\ answer[r].code = 0
  BY DEF IInv, Staged, NoAnswer
<1>2. PublishedFanOut' = PublishedFanOut
  BY DEF PublishedFanOut
<1>3. QED
  BY <1>1, <1>2 DEF OneAtATime!Fail, OneAtATime!Told, ErrorAnswer

LEMMA CommitContract ==
    ASSUME IInv, NEW r \in Requests, CommitEvent(r)
    PROVE  OneAtATime!Publish(r)
<1>1. r \notin events /\ answer[r].code = 0
  BY DEF CommitEvent, IInv, Staged, NoAnswer
<1>2. OneAtATime!Earlier(r) = {}
  <2>1. ASSUME NEW q \in events, Keyed(r), ask[q].key = ask[r].key PROVE FALSE
    <3>1. Existing(r) = NoRecord
      BY <2>1 DEF CommitEvent, IInv, Staged
    <3>2. Existing(r).event = q /\ q \in Requests
      <4>1. q \in Requests /\ Keyed(q)
        BY <2>1 DEF IInv, IngestTypeOK, Keyed
      <4>2. records[ask[q].key] =
               [event |-> q, queued |-> Cardinality(targets[q]), body |-> ask[q].body]
        BY <2>1, <4>1 DEF IInv, KeyPublishesOnce
      <4>3. QED
        BY <2>1, <4>1, <4>2 DEF Existing
    <3>3. QED
      BY <3>1, <3>2, IngestionAssumption DEF NoRecord
  <2>2. QED
    BY <2>1 DEF OneAtATime!Earlier, Keyed
<1>3. PICK S \in SUBSET Endpoints : S = targets[r]
  BY DEF IInv, IngestTypeOK
<1>4. PublishedFanOut' = [PublishedFanOut EXCEPT ![r] = S]
  BY <1>3 DEF CommitEvent, PublishedFanOut
<1>5. \/ answer' = [answer EXCEPT ![r] = [code |-> 201, event |-> r, queued |-> Cardinality(S)]]
      \/ UNCHANGED answer
  <2>1. PICK a \in {Published(r, Cardinality(targets[r])), NoAnswer} :
           answer' = [answer EXCEPT ![r] = a]
    BY DEF CommitEvent, Reply
  <2>2. CASE a = Published(r, Cardinality(targets[r]))
    BY <1>3, <2>1, <2>2 DEF Published
  <2>3. CASE a = NoAnswer
    <3>1. answer[r] = NoAnswer /\ answer \in [Requests -> Answers]
      BY DEF CommitEvent, IInv, IngestTypeOK, Staged
    <3>2. answer' = answer
      BY <2>1, <2>3, <3>1
    <3>3. QED
      BY <3>2
  <2>4. QED
    BY <2>1, <2>2, <2>3
<1>6. events' = events \cup {r} /\ UNCHANGED ask
  BY DEF CommitEvent
<1>7. QED
  BY <1>1, <1>2, <1>4, <1>5, <1>6
     DEF OneAtATime!Publish, OneAtATime!Told, OneAtATime!Cardinality, Cardinality

LEMMA StepContract == IInv /\ [IngestNext]_ingestVars => [OneAtATime!Next]_OneAtATime!vars
<1> SUFFICES ASSUME IInv, [IngestNext]_ingestVars PROVE [OneAtATime!Next]_OneAtATime!vars
  OBVIOUS
<1>1. ASSUME NEW r \in Requests, Lookup(r) PROVE OneAtATime!Next \/ UNCHANGED OneAtATime!vars
  <2>1. CASE Keyed(r) /\ Existing(r) # NoRecord
    BY <1>1, <2>1, CachedContract DEF Lookup, Reply, tableVars, OneAtATime!Next
  <2>2. CASE ~(Keyed(r) /\ Existing(r) # NoRecord)
    BY <1>1, <2>2, Unseen DEF Lookup, tableVars
  <2>3. QED
    BY <2>1, <2>2
<1>2. ASSUME NEW r \in Requests, SelectTargets(r) \/ InsertRefused(r) \/ CutOff(r)
      PROVE  UNCHANGED OneAtATime!vars
  <2>1. r \notin events
    BY <1>2 DEF SelectTargets, InsertRefused, CutOff, IInv, Staged
  <2>2. UNCHANGED <<ask, events, answer>> /\ \A q \in events : targets'[q] = targets[q]
    BY <1>2, <2>1 DEF SelectTargets, InsertRefused, CutOff, tableVars, IInv, IngestTypeOK
  <2>3. QED
    BY <2>2, Unseen
<1>3. ASSUME NEW r \in Requests, Insert(r) PROVE UNCHANGED OneAtATime!vars
  BY <1>3, Unseen DEF Insert, tableVars
<1>4. ASSUME NEW r \in Requests, InsertFails(r) PROVE OneAtATime!Next
  <2>1. r \notin events /\ rpc[r] # "done"
    BY <1>4 DEF InsertFails, IInv, Staged
  <2>2. /\ answer' = [answer EXCEPT ![r] = ErrorAnswer]
        /\ UNCHANGED <<ask, events>>
        /\ \A q \in events : targets'[q] = targets[q]
    BY <1>4, <2>1 DEF InsertFails, Reply, tableVars, IInv, IngestTypeOK
  <2>3. QED
    BY <2>1, <2>2, ErrorContract DEF OneAtATime!Next
<1>5. ASSUME NEW r \in Requests, Reread(r) PROVE OneAtATime!Next
  <2>1. rpc[r] # "done" /\ Keyed(r) /\ UNCHANGED <<ask, events, targets>>
    BY <1>5 DEF Reread, tableVars, IInv, Staged
  <2>2. CASE Existing(r) = NoRecord
    BY <1>5, <2>1, <2>2, ErrorContract DEF Reread, Reply, OneAtATime!Next
  <2>3. CASE Existing(r) # NoRecord
    BY <1>5, <2>1, <2>3, CachedContract DEF Reread, Reply, OneAtATime!Next
  <2>4. QED
    BY <2>2, <2>3
<1>6. ASSUME NEW r \in Requests, CommitEvent(r) PROVE OneAtATime!Next
  BY <1>6, CommitContract DEF OneAtATime!Next
<1>7. ASSUME NEW e \in Endpoints,
             CreateEndpoint(e) \/ PatchEndpoint(e) \/ DeleteEndpoint(e)
      PROVE  UNCHANGED OneAtATime!vars
  BY <1>7, Unseen DEF CreateEndpoint, PatchEndpoint, DeleteEndpoint, tableVars
<1>8. CASE UNCHANGED ingestVars
  BY <1>8, Unseen DEF ingestVars, tableVars
<1>9. QED
  BY <1>1, <1>2, <1>3, <1>4, <1>5, <1>6, <1>7, <1>8 DEF IngestNext, Serve

(* Interleaved publish requests look as if served one after the other: each*)
(* step of ingest_event's transactions is a step of the contract or none.  *)
THEOREM IngestionImplementsContract == IngestSpec => ImplementsIngestion
<1>1. QED
  BY ContractInit, StepContract, Invariance, PTL DEF IngestSpec, ImplementsIngestion, OneAtATime!Spec

=============================================================================
