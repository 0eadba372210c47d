------------------------- MODULE IngestionContract -------------------------
(***************************************************************************)
(* What POST /events promises, without transactions, locks or savepoints:  *)
(* requests are served one at a time.  The first with a key publishes its  *)
(* event, later ones with the same body are told of it again, later ones   *)
(* with another body are refused.  Any request may fail and publish        *)
(* nothing, and an answer may be lost.                                     *)
(***************************************************************************)
EXTENDS Naturals, FiniteSets

CONSTANTS Requests, Endpoints, Bodies, Keys, NoKey, NoEvent

VARIABLES ask,        (* the key and the body of each request                *)
          events,     (* the published events, named by their requests       *)
          fanout,     (* the endpoints each published event is meant for     *)
          answer      (* what each request has answered                      *)

vars == <<ask, events, fanout, answer>>

Told(r, a) == answer' = [answer EXCEPT ![r] = a]

(* The published events that came with the key of r.                       *)
Earlier(r) == {q \in events : ask[r].key # NoKey /\ ask[q].key = ask[r].key}

Init ==
    /\ ask \in [Requests -> [key : Keys \cup {NoKey}, body : Bodies]]
    /\ events = {}
    /\ fanout = [r \in Requests |-> {}]
    /\ answer = [r \in Requests |-> [code |-> 0, event |-> NoEvent, queued |-> 0]]

(* Nobody has used the key: the event is published.                        *)
Publish(r) ==
    /\ r \notin events /\ answer[r].code = 0
    /\ Earlier(r) = {}
    /\ events' = events \cup {r}
    /\ \E S \in SUBSET Endpoints :
          /\ fanout' = [fanout EXCEPT ![r] = S]
          /\ \/ Told(r, [code |-> 201, event |-> r, queued |-> Cardinality(S)])
             \/ UNCHANGED answer
    /\ UNCHANGED ask

(* The key has published an event: the same is answered, or a conflict.    *)
Replay(r) ==
    /\ r \notin events /\ answer[r].code = 0
    /\ \E q \in Earlier(r) :
          IF ask[q].body = ask[r].body
          THEN Told(r, [code |-> 201, event |-> q, queued |-> Cardinality(fanout[q])])
          ELSE Told(r, [code |-> 409, event |-> NoEvent, queued |-> 0])
    /\ UNCHANGED <<ask, events, fanout>>

Fail(r) ==
    /\ r \notin events /\ answer[r].code = 0
    /\ Told(r, [code |-> 500, event |-> NoEvent, queued |-> 0])
    /\ UNCHANGED <<ask, events, fanout>>

Next == \E r \in Requests : Publish(r) \/ Replay(r) \/ Fail(r)

Spec == Init /\ [][Next]_vars
=============================================================================
