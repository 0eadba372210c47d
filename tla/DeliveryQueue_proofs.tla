------------------------ MODULE DeliveryQueue_proofs ------------------------
(***************************************************************************)
(* Proofs about DeliveryQueue for every set of deliveries, workers and     *)
(* redrive requests and every limit.                                       *)
(***************************************************************************)
EXTENDS DeliveryQueue, SequenceTheorems, FiniteSetTheorems, TLAPS

USE DEF Status, Outcomes

(* Where a worker is in its tick agrees with the transaction it has open:  *)
(* an idle worker holds no row, and one that POSTs does so for a delivery  *)
(* of its batch that it has yet to settle.                                 *)
TickShape ==
    \A w \in Workers :
        /\ todo[w] \subseteq DOMAIN tx[w]
        /\ pc[w] = "idle" => DOMAIN tx[w] = {}
        /\ pc[w] = "posting" => cur[w] \in todo[w]

(* The inductive invariant behind the theorems below: no claim is ever     *)
(* committed because the rows of an open transaction are pending rows that *)
(* nobody else writes, and by the time the tick commits every one of them  *)
(* has been settled.                                                       *)
IInv == TypeOK /\ TickShape /\ NoClaimCommitted /\ NoLostUpdate /\ ClaimsDisjoint

-----------------------------------------------------------------------------
(* Rows stay rows under what the code writes to them.                      *)

LEMMA FreshType == Fresh \in Row
  BY SMT DEF Fresh, Row, Attempt

LEMMA ClaimedType ==
    ASSUME NEW r \in Row, NEW w \in Workers
    PROVE  Claimed(r, w) \in Row
  BY DEF Claimed, Row

LEMMA RecoveredType ==
    ASSUME NEW r \in Row
    PROVE  Recovered(r) \in Row
  BY DEF Recovered, Row

LEMMA RedrivenType ==
    ASSUME NEW r \in Row
    PROVE  Redriven(r) \in Row /\ Redriven(r).status = "pending"
<1>1. Redriven(r) \in Row
  BY DEF Redriven, Row
<1>2. Redriven(r).status = "pending"
  BY DEF Redriven, Row
<1>3. QED
  BY <1>1, <1>2

LEMMA RecordedType ==
    ASSUME NEW r \in Row, NEW w \in Workers, NEW o \in Outcomes
    PROVE  Recorded(r, w, o) \in Row
<1> DEFINE a == NextAttempt(r, w, o)
<1>1. a \in Attempt /\ r.count + 1 \in Nat
  BY DEF Row, Attempt, NextAttempt
<1>2. Append(r.attempts, a) \in Seq(Attempt)
  BY <1>1 DEF Row
<1> HIDE DEF a
<1>3. [r EXCEPT !.count = @ + 1, !.attempts = Append(@, a)] \in Row
  BY <1>1, <1>2 DEF Row
<1>4. QED
  BY <1>3 DEF Recorded, a

LEMMA SettledType ==
    ASSUME NEW r \in Row, NEW w \in Workers, NEW o \in Outcomes
    PROVE  /\ Settled(r, w, o) \in Row
           /\ Settled(r, w, o).status \in {"pending", "succeeded", "dead_lettered"}
<1>1. Recorded(r, w, o) \in Row
  BY RecordedType
<1>2. QED
  BY <1>1 DEF Settled, Row

-----------------------------------------------------------------------------
(* The invariant holds initially and every kind of step preserves it.      *)

LEMMA InitIInv == Init => IInv
<1> SUFFICES ASSUME Init PROVE IInv
  OBVIOUS
<1>1. \A w \in Workers : tx[w] = EmptyTx /\ DOMAIN tx[w] = {} /\ tx[w] \in [DOMAIN tx[w] -> Row]
  BY DEF Init, EmptyTx
<1>2. TypeOK
  BY <1>1, FreshType, QueueAssumption DEF Init, TypeOK
<1>3. TickShape
  BY <1>1 DEF Init, TickShape
<1>4. NoClaimCommitted
  BY DEF Init, NoClaimCommitted, Fresh
<1>5. NoLostUpdate /\ ClaimsDisjoint
  BY <1>1 DEF NoLostUpdate, ClaimsDisjoint
<1>6. QED
  BY <1>2, <1>3, <1>4, <1>5 DEF IInv

(* With no claim committed there is no lease to recover, so that a tick    *)
(* takes rows that are pending, due and unlocked and only claims them.     *)
LEMMA ClaimTakes ==
    ASSUME IInv, NEW w \in Workers, Claim(w)
    PROVE  \E B \in SUBSET (Deliveries \ Locked) :
              /\ \A d \in B : row[d].status = "pending" /\ row[d].due
              /\ tx' = [tx EXCEPT ![w] = [d \in B |-> Claimed(row[d], w)]]
              /\ todo' = [todo EXCEPT ![w] = B]
<1>1. Leased = {}
  BY DEF IInv, NoClaimCommitted, Leased
<1>2. PICK E \in SUBSET Leased :
          \E B \in SUBSET Claimable(E) :
             /\ tx' = [tx EXCEPT ![w] =
                         [d \in B \cup E |->
                             LET r == IF d \in E THEN Recovered(row[d]) ELSE row[d]
                             IN  IF d \in B THEN Claimed(r, w) ELSE r]]
             /\ todo' = [todo EXCEPT ![w] = B]
  BY Zenon DEF Claim
<1>3. PICK B \in SUBSET Claimable(E) :
          /\ tx' = [tx EXCEPT ![w] =
                      [d \in B \cup E |->
                          LET r == IF d \in E THEN Recovered(row[d]) ELSE row[d]
                          IN  IF d \in B THEN Claimed(r, w) ELSE r]]
          /\ todo' = [todo EXCEPT ![w] = B]
  BY <1>2
<1>4. E = {}
  BY <1>1, <1>2
<1>5. B \subseteq Deliveries \ Locked /\ \A d \in B : row[d].status = "pending" /\ row[d].due
  BY <1>3, <1>4 DEF Claimable
<1>6. [d \in B \cup E |->
          LET r == IF d \in E THEN Recovered(row[d]) ELSE row[d]
          IN  IF d \in B THEN Claimed(r, w) ELSE r]
      = [d \in B |-> Claimed(row[d], w)]
  BY <1>4
<1>7. QED
  BY <1>3, <1>5, <1>6

LEMMA ClaimKeeps ==
    ASSUME IInv, NEW w \in Workers, Claim(w)
    PROVE  IInv'
<1>1. PICK B \in SUBSET (Deliveries \ Locked) :
          /\ \A d \in B : row[d].status = "pending" /\ row[d].due
          /\ tx' = [tx EXCEPT ![w] = [d \in B |-> Claimed(row[d], w)]]
          /\ todo' = [todo EXCEPT ![w] = B]
  BY ClaimTakes
<1>2. /\ pc[w] = "idle" /\ pc' = [pc EXCEPT ![w] = "batch"]
      /\ UNCHANGED <<row, cur, seen, sent, aborts, redriven>>
  BY DEF Claim
<1> USE DEF IInv
<1>3. /\ tx'[w] = [d \in B |-> Claimed(row[d], w)]
      /\ \A v \in Workers \ {w} : tx'[v] = tx[v]
      /\ tx' = [v \in Workers |-> tx'[v]]
  BY <1>1 DEF TypeOK
<1>4. tx'[w] \in [B -> Row] /\ DOMAIN tx'[w] = B
  BY <1>3, ClaimedType DEF TypeOK
<1>5. TypeOK'
  BY <1>1, <1>2, <1>3, <1>4 DEF TypeOK
<1>6. TickShape'
  BY <1>1, <1>2, <1>3, <1>4 DEF TypeOK, TickShape
<1>7. NoClaimCommitted'
  BY <1>2 DEF NoClaimCommitted
<1>8. NoLostUpdate'
  <2> SUFFICES ASSUME NEW v \in Workers, NEW d \in DOMAIN tx'[v]
               PROVE  /\ row[d].status = "pending" /\ row[d].due
                      /\ IF d \in todo'[v]
                         THEN tx'[v][d] = Claimed(row[d], v)
                         ELSE \E o \in Outcomes : tx'[v][d] = Settled(Claimed(row[d], v), v, o)
    BY <1>2 DEF NoLostUpdate
  <2>1. CASE v = w
    BY <2>1, <1>1, <1>3, <1>4 DEF TypeOK
  <2>2. CASE v # w
    BY <2>2, <1>1, <1>3 DEF TypeOK, NoLostUpdate
  <2>3. QED
    BY <2>1, <2>2
<1>9. ClaimsDisjoint'
  <2>1. \A v \in Workers : DOMAIN tx[v] \cap B = {}
    BY <1>1 DEF Locked
  <2>2. QED
    BY <2>1, <1>3, <1>4 DEF ClaimsDisjoint
<1>10. QED
  BY <1>5, <1>6, <1>7, <1>8, <1>9

LEMMA RollbackKeeps ==
    ASSUME IInv, NEW w \in Workers, Rollback(w), UNCHANGED sent
    PROVE  IInv'
<1> USE DEF IInv, Rollback
<1>1. /\ DOMAIN tx'[w] = {} /\ tx'[w] \in [DOMAIN tx'[w] -> Row] /\ todo'[w] = {}
      /\ \A v \in Workers \ {w} : tx'[v] = tx[v] /\ todo'[v] = todo[v]
      /\ tx' = [v \in Workers |-> tx'[v]]
  BY DEF TypeOK, EmptyTx
<1>2. aborts' \in Nat
  BY DEF TypeOK, CountUp
<1>3. TypeOK'
  BY <1>1, <1>2 DEF TypeOK
<1>4. TickShape'
  BY <1>1 DEF TypeOK, TickShape
<1>5. NoClaimCommitted' /\ NoLostUpdate' /\ ClaimsDisjoint'
  BY <1>1 DEF NoClaimCommitted, NoLostUpdate, ClaimsDisjoint
<1>6. QED
  BY <1>3, <1>4, <1>5

(* Settling a claimed delivery inside the transaction.                     *)
LEMMA SettleKeeps ==
    ASSUME IInv, NEW w \in Workers, NEW d \in todo[w], NEW o \in Outcomes,
           tx' = [tx EXCEPT ![w][d] = Settled(@, w, o)],
           todo' = [todo EXCEPT ![w] = @ \ {d}],
           pc' = [pc EXCEPT ![w] = "batch"],
           cur' \in [Workers -> Deliveries \cup {NoDelivery}],
           \A v \in Workers \ {w} : cur'[v] = cur[v],
           UNCHANGED <<row, seen, sent, aborts, redriven>>
    PROVE  IInv'
<1> USE DEF IInv
<1>1. d \in DOMAIN tx[w] /\ d \in Deliveries
  BY DEF TypeOK, TickShape
<1>2. /\ tx'[w] = [tx[w] EXCEPT ![d] = Settled(tx[w][d], w, o)]
      /\ todo'[w] = todo[w] \ {d}
      /\ \A v \in Workers \ {w} : tx'[v] = tx[v] /\ todo'[v] = todo[v]
      /\ tx' = [v \in Workers |-> tx'[v]]
  BY DEF TypeOK
<1>3. tx[w][d] \in Row /\ Settled(tx[w][d], w, o) \in Row
  BY <1>1, SettledType DEF TypeOK
<1>4. /\ DOMAIN tx'[w] = DOMAIN tx[w]
      /\ tx'[w] \in [DOMAIN tx'[w] -> Row]
      /\ tx'[w][d] = Settled(tx[w][d], w, o)
      /\ \A e \in DOMAIN tx[w] \ {d} : tx'[w][e] = tx[w][e]
  BY <1>1, <1>2, <1>3 DEF TypeOK
<1>5. TypeOK'
  BY <1>2, <1>4 DEF TypeOK
<1>6. TickShape'
  BY <1>2, <1>4 DEF TypeOK, TickShape
<1>7. NoClaimCommitted'
  BY DEF NoClaimCommitted
<1>8. NoLostUpdate'
  <2> SUFFICES ASSUME NEW v \in Workers, NEW e \in DOMAIN tx'[v]
               PROVE  /\ row[e].status = "pending" /\ row[e].due
                      /\ IF e \in todo'[v]
                         THEN tx'[v][e] = Claimed(row[e], v)
                         ELSE \E p \in Outcomes : tx'[v][e] = Settled(Claimed(row[e], v), v, p)
    BY DEF NoLostUpdate
  <2>1. CASE v = w /\ e = d
    <3>1. tx[w][d] = Claimed(row[d], w) /\ row[d].status = "pending" /\ row[d].due
      BY <1>1 DEF NoLostUpdate
    <3>2. QED
      BY <2>1, <3>1, <1>2, <1>4
  <2>2. CASE v = w /\ e # d
    BY <2>2, <1>2, <1>4 DEF NoLostUpdate
  <2>3. CASE v # w
    BY <2>3, <1>2 DEF NoLostUpdate
  <2>4. QED
    BY <2>1, <2>2, <2>3
<1>9. ClaimsDisjoint'
  BY <1>2, <1>4 DEF ClaimsDisjoint
<1>10. QED
  BY <1>5, <1>6, <1>7, <1>8, <1>9

LEMMA SendKeeps ==
    ASSUME IInv, NEW w \in Workers, Send(w)
    PROVE  IInv'
<1> USE DEF IInv
<1>1. PICK d \in todo[w] : /\ cur' = [cur EXCEPT ![w] = d]
                           /\ sent' = [sent EXCEPT ![d] = CountUp(@)]
  BY Zenon DEF Send
<1>2. /\ pc' = [pc EXCEPT ![w] = "posting"]
      /\ UNCHANGED <<row, tx, todo, seen, aborts, redriven>>
  BY DEF Send
<1>3. d \in Deliveries
  BY DEF TypeOK
<1>4. sent' \in [Deliveries -> Nat]
  BY <1>1, <1>3 DEF TypeOK, CountUp
<1>5. TypeOK'
  BY <1>1, <1>2, <1>3, <1>4 DEF TypeOK
<1>6. TickShape'
  BY <1>1, <1>2 DEF TypeOK, TickShape
<1>7. NoClaimCommitted' /\ NoLostUpdate' /\ ClaimsDisjoint'
  BY <1>2 DEF NoClaimCommitted, NoLostUpdate, ClaimsDisjoint
<1>8. QED
  BY <1>5, <1>6, <1>7

(* By the time the tick commits it has settled every row it publishes.     *)
LEMMA CommitPublishes ==
    ASSUME IInv, NEW w \in Workers, Commit(w), NEW d \in DOMAIN tx[w]
    PROVE  /\ d \in Deliveries
           /\ row[d] \in Row /\ row[d].status = "pending"
           /\ row'[d] \in Row
           /\ \E o \in Outcomes : row'[d] = Settled(Claimed(row[d], w), w, o)
           /\ row'[d].status \in {"pending", "succeeded", "dead_lettered"}
<1>1. d \in Deliveries /\ row[d] \in Row /\ row[d].status = "pending"
  BY DEF IInv, TypeOK, NoLostUpdate
<1>2. row'[d] = tx[w][d]
  BY <1>1 DEF Commit
<1>3. PICK o \in Outcomes : tx[w][d] = Settled(Claimed(row[d], w), w, o)
  BY DEF IInv, NoLostUpdate, Commit
<1>4. Claimed(row[d], w) \in Row
  BY <1>1, ClaimedType
<1>5. /\ Settled(Claimed(row[d], w), w, o) \in Row
      /\ Settled(Claimed(row[d], w), w, o).status \in {"pending", "succeeded", "dead_lettered"}
  BY <1>4, SettledType
<1>6. QED
  BY <1>1, <1>2, <1>3, <1>5

LEMMA CommitKeeps ==
    ASSUME IInv, NEW w \in Workers, Commit(w)
    PROVE  IInv'
<1> USE DEF IInv
<1>1. /\ DOMAIN tx'[w] = {} /\ tx'[w] \in [DOMAIN tx'[w] -> Row] /\ todo'[w] = {}
      /\ \A v \in Workers \ {w} : tx'[v] = tx[v] /\ todo'[v] = todo[v]
      /\ tx' = [v \in Workers |-> tx'[v]]
      /\ pc' = [pc EXCEPT ![w] = "idle"]
      /\ UNCHANGED <<todo, cur, seen, sent, aborts, redriven>>
  BY DEF Commit, TypeOK, EmptyTx
<1>2. \A d \in Deliveries : d \notin DOMAIN tx[w] => row'[d] = row[d]
  BY DEF Commit
<1>3. row' = [d \in Deliveries |-> row'[d]]
  BY DEF Commit
<1>4. \A d \in Deliveries : row'[d] \in Row
  <2> SUFFICES ASSUME NEW d \in Deliveries PROVE row'[d] \in Row
    OBVIOUS
  <2>1. CASE d \in DOMAIN tx[w]
    BY <2>1, CommitPublishes
  <2>2. CASE d \notin DOMAIN tx[w]
    BY <2>2, <1>2 DEF TypeOK
  <2>3. QED
    BY <2>1, <2>2
<1>5. TypeOK'
  BY <1>1, <1>3, <1>4 DEF TypeOK
<1>6. TickShape'
  BY <1>1 DEF TypeOK, TickShape
<1>7. NoClaimCommitted'
  BY <1>2, CommitPublishes DEF NoClaimCommitted
<1>8. NoLostUpdate'
  <2>1. \A v \in Workers \ {w} : \A d \in DOMAIN tx[v] : row'[d] = row[d]
    BY <1>2 DEF ClaimsDisjoint, TypeOK
  <2>2. QED
    BY <2>1, <1>1 DEF NoLostUpdate
<1>9. ClaimsDisjoint'
  BY <1>1 DEF ClaimsDisjoint
<1>10. QED
  BY <1>5, <1>6, <1>7, <1>8, <1>9

LEMMA HangKeeps ==
    ASSUME IInv, NEW w \in Workers, Hang(w)
    PROVE  IInv'
BY DEF IInv, Hang, TypeOK, TickShape, NoClaimCommitted, NoLostUpdate, ClaimsDisjoint

(* A write to a row that no transaction holds.                             *)
LEMMA OutsideWriteKeeps ==
    ASSUME IInv, NEW d \in Deliveries, d \notin Locked, NEW r \in Row,
           r.status # "in_flight",
           row' = [row EXCEPT ![d] = r],
           seen' \in [Redrivers -> Deliveries \cup {NoDelivery}],
           redriven' \in [Deliveries -> Nat],
           UNCHANGED <<pc, tx, todo, cur, sent, aborts>>
    PROVE  IInv'
<1> USE DEF IInv
<1>1. TypeOK'
  BY DEF TypeOK
<1>2. TickShape' /\ ClaimsDisjoint'
  BY DEF TickShape, ClaimsDisjoint
<1>3. NoClaimCommitted'
  BY DEF NoClaimCommitted, TypeOK
<1>4. \A w \in Workers : \A e \in DOMAIN tx[w] : row'[e] = row[e]
  BY DEF Locked, TypeOK
<1>5. NoLostUpdate'
  BY <1>4 DEF NoLostUpdate
<1>6. QED
  BY <1>1, <1>2, <1>3, <1>5

LEMMA BecomeDueKeeps ==
    ASSUME IInv, NEW d \in Deliveries, BecomeDue(d)
    PROVE  IInv'
<1> DEFINE r == [row[d] EXCEPT !.due = TRUE]
<1>1. d \notin Locked
  BY DEF IInv, NoLostUpdate, BecomeDue, Locked
<1>2. r \in Row /\ r.status # "in_flight"
  BY DEF IInv, TypeOK, Row, BecomeDue
<1>3. row' = [row EXCEPT ![d] = r]
  BY DEF BecomeDue
<1> HIDE DEF r
<1>4. QED
  BY <1>1, <1>2, <1>3, OutsideWriteKeeps DEF BecomeDue, IInv, TypeOK

LEMMA RedriveReadKeeps ==
    ASSUME IInv, NEW r \in Redrivers, NEW d \in Deliveries, RedriveRead(r, d)
    PROVE  IInv'
BY DEF IInv, RedriveRead, TypeOK, TickShape, NoClaimCommitted, NoLostUpdate, ClaimsDisjoint

LEMMA RedriveWriteKeeps ==
    ASSUME IInv, NEW r \in Redrivers, RedriveWrite(r)
    PROVE  IInv'
<1> DEFINE d == seen[r]
<1>1. d \in Deliveries /\ d \notin Locked
  BY DEF RedriveWrite
<1>2. Redriven(row[d]) \in Row /\ Redriven(row[d]).status # "in_flight"
  BY <1>1, RedrivenType DEF IInv, TypeOK
<1>3. /\ row' = [row EXCEPT ![d] = Redriven(row[d])]
      /\ seen' \in [Redrivers -> Deliveries \cup {NoDelivery}]
      /\ redriven' \in [Deliveries -> Nat]
      /\ UNCHANGED <<pc, tx, todo, cur, sent, aborts>>
  BY <1>1 DEF RedriveWrite, IInv, TypeOK
<1> HIDE DEF d
<1>4. QED
  BY <1>1, <1>2, <1>3, OutsideWriteKeeps

LEMMA NextIInv == IInv /\ [Next]_vars => IInv'
<1> SUFFICES ASSUME IInv, [Next]_vars PROVE IInv'
  OBVIOUS
<1>1. ASSUME NEW w \in Workers, Claim(w) PROVE IInv'
  BY <1>1, ClaimKeeps
<1>2. ASSUME NEW w \in Workers, DecryptFails(w) PROVE IInv'
  BY <1>2, RollbackKeeps DEF DecryptFails
<1>3. ASSUME NEW w \in Workers, Block(w) PROVE IInv'
  <2>1. PICK d \in todo[w] : /\ tx' = [tx EXCEPT ![w][d] = Settled(@, w, "blocked")]
                             /\ todo' = [todo EXCEPT ![w] = @ \ {d}]
    BY <1>3, Zenon DEF Block
  <2>2. /\ pc' = [pc EXCEPT ![w] = "batch"]
        /\ cur' \in [Workers -> Deliveries \cup {NoDelivery}]
        /\ UNCHANGED <<row, cur, seen, sent, aborts, redriven>>
    BY <1>3 DEF Block, IInv, TypeOK
  <2>3. QED
    BY <2>1, <2>2, SettleKeeps
<1>4. ASSUME NEW w \in Workers, Send(w) PROVE IInv'
  BY <1>4, SendKeeps
<1>5. ASSUME NEW w \in Workers, Answer(w) PROVE IInv'
  <2>1. cur[w] \in todo[w]
    BY <1>5 DEF Answer, IInv, TickShape
  <2>2. PICK o \in {"2xx", "failed"} : tx' = [tx EXCEPT ![w][cur[w]] = Settled(@, w, o)]
    BY <1>5, Zenon DEF Answer
  <2>3. /\ pc' = [pc EXCEPT ![w] = "batch"]
        /\ todo' = [todo EXCEPT ![w] = @ \ {cur[w]}]
        /\ cur' \in [Workers -> Deliveries \cup {NoDelivery}]
        /\ \A v \in Workers \ {w} : cur'[v] = cur[v]
        /\ UNCHANGED <<row, seen, sent, aborts, redriven>>
    BY <1>5 DEF Answer, IInv, TypeOK
  <2>4. QED
    BY <2>1, <2>2, <2>3, SettleKeeps
<1>6. ASSUME NEW w \in Workers, AnswerUnstorable(w) PROVE IInv'
  BY <1>6, RollbackKeeps DEF AnswerUnstorable
<1>7. ASSUME NEW w \in Workers, Commit(w) PROVE IInv'
  BY <1>7, CommitKeeps
<1>8. ASSUME NEW w \in Workers, Crash(w) PROVE IInv'
  BY <1>8, RollbackKeeps DEF Crash
<1>9. ASSUME NEW w \in Workers, Hang(w) PROVE IInv'
  BY <1>9, HangKeeps
<1>10. ASSUME NEW d \in Deliveries, BecomeDue(d) PROVE IInv'
  BY <1>10, BecomeDueKeeps
<1>11. ASSUME NEW r \in Redrivers, RedriveWrite(r) PROVE IInv'
  BY <1>11, RedriveWriteKeeps
<1>12. ASSUME NEW r \in Redrivers, NEW d \in Deliveries, RedriveRead(r, d) PROVE IInv'
  BY <1>12, RedriveReadKeeps
<1>13. ASSUME UNCHANGED vars PROVE IInv'
  BY <1>13 DEF vars, IInv, TypeOK, TickShape, NoClaimCommitted, NoLostUpdate, ClaimsDisjoint
<1>14. QED
  BY <1>1, <1>2, <1>3, <1>4, <1>5, <1>6, <1>7, <1>8, <1>9, <1>10, <1>11, <1>12, <1>13
     DEF Next, WorkerStep, IdleTick

LEMMA Invariance == Spec => []IInv
  BY InitIInv, NextIInv, PTL DEF Spec

-----------------------------------------------------------------------------
(* Every variable keeps its type (run queue checks the same invariant on   *)
(* two workers).                                                           *)
THEOREM TypeCorrectness == Spec => []TypeOK
<1>1. IInv => TypeOK
  BY DEF IInv
<1>2. QED
  BY <1>1, Invariance, PTL

(* However many workers, batches, crashes, hangs and redrives: a claim is  *)
(* never visible outside the transaction that made it, so that the lease   *)
(* recovery of delivery_worker.py never has a row to reset.                *)
THEOREM ClaimsStayPrivate == Spec => []NoClaimCommitted
<1>1. IInv => NoClaimCommitted
  BY DEF IInv
<1>2. QED
  BY <1>1, Invariance, PTL

(* SKIP LOCKED gives every delivery to at most one worker at a time.       *)
THEOREM ClaimExclusion == Spec => []ClaimsDisjoint
<1>1. IInv => ClaimsDisjoint
  BY DEF IInv
<1>2. QED
  BY <1>1, Invariance, PTL

(* A tick commits settlements computed from the rows as they still are:    *)
(* it never overwrites what another worker or a redrive committed.         *)
THEOREM CommitsOverwriteNothing == Spec => []NoLostUpdate
<1>1. IInv => NoLostUpdate
  BY DEF IInv
<1>2. QED
  BY <1>1, Invariance, PTL

-----------------------------------------------------------------------------
(* What a step can do to a committed row: nothing, settle an attempt of a  *)
(* pending delivery, let its backoff run out, or redrive it.               *)

SettleStep(d) ==
    /\ row[d].status = "pending"
    /\ \E w \in Workers, o \in Outcomes : row'[d] = Settled(Claimed(row[d], w), w, o)
    /\ redriven'[d] = redriven[d]

DueStep(d) ==
    /\ row[d].status = "pending"
    /\ row'[d] = [row[d] EXCEPT !.due = TRUE]
    /\ redriven'[d] = redriven[d]

RedriveStep(d) ==
    /\ \E r \in Redrivers : seen[r] = d /\ seen'[r] = NoDelivery
    /\ row'[d] = Redriven(row[d])
    /\ redriven'[d] = redriven[d] + 1

LEMMA RowSteps ==
    ASSUME IInv, [Next]_vars, NEW d \in Deliveries
    PROVE  \/ row'[d] = row[d] /\ redriven'[d] = redriven[d]
           \/ SettleStep(d)
           \/ DueStep(d)
           \/ RedriveStep(d)
<1> DEFINE Goal == \/ row'[d] = row[d] /\ redriven'[d] = redriven[d]
                   \/ SettleStep(d)
                   \/ DueStep(d)
                   \/ RedriveStep(d)
<1>1. ASSUME NEW w \in Workers,
             \/ Claim(w) \/ DecryptFails(w) \/ Block(w) \/ Send(w) \/ Answer(w)
             \/ AnswerUnstorable(w) \/ Crash(w) \/ Hang(w) \/ IdleTick(w)
      PROVE  UNCHANGED <<row, redriven>>
  BY <1>1 DEF Claim, DecryptFails, Block, Send, Answer, AnswerUnstorable, Crash, Hang,
              IdleTick, Rollback, vars
<1>2. ASSUME NEW w \in Workers, Commit(w) PROVE Goal
  <2>1. UNCHANGED redriven
    BY <1>2 DEF Commit
  <2>2. CASE d \in DOMAIN tx[w]
    BY <1>2, <2>1, <2>2, CommitPublishes DEF SettleStep
  <2>3. CASE d \notin DOMAIN tx[w]
    BY <1>2, <2>1, <2>3 DEF Commit
  <2>4. QED
    BY <2>2, <2>3
<1>3. ASSUME NEW e \in Deliveries, BecomeDue(e) PROVE Goal
  <2>1. CASE e = d
    BY <1>3, <2>1 DEF BecomeDue, DueStep, IInv, TypeOK
  <2>2. CASE e # d
    BY <1>3, <2>2 DEF BecomeDue, IInv, TypeOK
  <2>3. QED
    BY <2>1, <2>2
<1>4. ASSUME NEW r \in Redrivers, RedriveWrite(r) PROVE Goal
  <2>1. CASE seen[r] = d
    BY <1>4, <2>1 DEF RedriveWrite, RedriveStep, IInv, TypeOK
  <2>2. CASE seen[r] # d
    BY <1>4, <2>2 DEF RedriveWrite, IInv, TypeOK
  <2>3. QED
    BY <2>1, <2>2
<1>5. ASSUME NEW r \in Redrivers, NEW e \in Deliveries, RedriveRead(r, e)
      PROVE  UNCHANGED <<row, redriven>>
  BY <1>5 DEF RedriveRead
<1>6. CASE UNCHANGED vars
  BY <1>6 DEF vars
<1>7. QED
  BY <1>1, <1>2, <1>3, <1>4, <1>5, <1>6 DEF Next, WorkerStep

(* The parts of a settled row.                                             *)
LEMMA SettledParts ==
    ASSUME NEW r \in Row, NEW w \in Workers, NEW o \in Outcomes
    PROVE  /\ Settled(Claimed(r, w), w, o).count = r.count + 1
           /\ Settled(Claimed(r, w), w, o).attempts = Append(r.attempts, NextAttempt(r, w, o))
           /\ Settled(Claimed(r, w), w, o).claimed_by = w
           /\ o = "2xx" => Settled(Claimed(r, w), w, o).status = "succeeded"
           /\ o # "2xx" /\ (o = "blocked" \/ r.count + 1 >= MaxAttempts)
                 => Settled(Claimed(r, w), w, o).status = "dead_lettered"
           /\ o = "failed" /\ ~(r.count + 1 >= MaxAttempts)
                 => Settled(Claimed(r, w), w, o).status = "pending"
<1> DEFINE c == Claimed(r, w)
           a == NextAttempt(r, w, o)
           q == Recorded(c, w, o)
           s == Settled(c, w, o)
<1>1. /\ c \in Row /\ c.count = r.count /\ c.attempts = r.attempts /\ c.claimed_by = w
  BY ClaimedType DEF Claimed, Row
<1>2. NextAttempt(c, w, o) = a
  BY <1>1 DEF NextAttempt
<1> HIDE DEF c
<1>3. /\ q \in Row /\ q.count = r.count + 1 /\ q.attempts = Append(r.attempts, a)
      /\ q.claimed_by = w
  BY <1>1, <1>2, RecordedType DEF Recorded, Row
<1>4. s = IF o = "2xx" THEN [q EXCEPT !.status = "succeeded"]
          ELSE IF o = "blocked" \/ r.count + 1 >= MaxAttempts
          THEN [q EXCEPT !.status = "dead_lettered"]
          ELSE [q EXCEPT !.status = "pending", !.due = FALSE, !.leased = FALSE]
  BY <1>1 DEF Settled
<1> HIDE DEF q, s, a
<1>5. /\ s.count = r.count + 1 /\ s.attempts = Append(r.attempts, a) /\ s.claimed_by = w
      /\ o = "2xx" => s.status = "succeeded"
      /\ o # "2xx" /\ (o = "blocked" \/ r.count + 1 >= MaxAttempts)
            => s.status = "dead_lettered"
      /\ o = "failed" /\ ~(r.count + 1 >= MaxAttempts) => s.status = "pending"
  BY <1>3, <1>4 DEF Row
<1>6. QED
  BY <1>5 DEF s, c, a

(* The other writes leave count, attempts and claimer alone.               *)
LEMMA OtherParts ==
    ASSUME NEW r \in Row
    PROVE  /\ Redriven(r).count = r.count
           /\ Redriven(r).attempts = r.attempts
           /\ Redriven(r).claimed_by = r.claimed_by
           /\ [r EXCEPT !.due = TRUE].count = r.count
           /\ [r EXCEPT !.due = TRUE].attempts = r.attempts
           /\ [r EXCEPT !.due = TRUE].status = r.status
           /\ [r EXCEPT !.due = TRUE].claimed_by = r.claimed_by
  BY DEF Redriven, Row

-----------------------------------------------------------------------------
(* The audit trail.                                                        *)

Numbered(r) ==
    /\ r.count = Len(r.attempts)
    /\ \A i \in 1 .. Len(r.attempts) : r.attempts[i].attempt_number = i

LEMMA AppendNumbered ==
    ASSUME NEW r \in Row, Numbered(r), NEW w \in Workers, NEW o \in Outcomes
    PROVE  Numbered(Settled(Claimed(r, w), w, o))
<1> DEFINE a == NextAttempt(r, w, o)
           s == Settled(Claimed(r, w), w, o)
<1>1. s.count = r.count + 1 /\ s.attempts = Append(r.attempts, a)
  BY SettledParts
<1>2. a.attempt_number = r.count + 1
  BY DEF NextAttempt
<1>3. r.attempts \in Seq(Attempt) /\ r.count \in Nat
  BY DEF Row
<1> HIDE DEF a, s
<1>4. /\ Len(s.attempts) = Len(r.attempts) + 1
      /\ s.attempts[Len(r.attempts) + 1] = a
      /\ \A i \in 1 .. Len(r.attempts) : s.attempts[i] = r.attempts[i]
  BY <1>1, <1>3
<1>5. Numbered(s)
  <2>1. s.count = Len(s.attempts)
    BY <1>1, <1>3, <1>4 DEF Numbered
  <2>2. ASSUME NEW i \in 1 .. Len(s.attempts) PROVE s.attempts[i].attempt_number = i
    <3>1. CASE i = Len(r.attempts) + 1
      BY <3>1, <1>2, <1>4 DEF Numbered
    <3>2. CASE i # Len(r.attempts) + 1
      <4>1. i \in 1 .. Len(r.attempts)
        BY <3>2, <1>3, <1>4
      <4>2. QED
        BY <4>1, <1>4 DEF Numbered
    <3>3. QED
      BY <3>1, <3>2
  <2>3. QED
    BY <2>1, <2>2 DEF Numbered
<1>6. QED
  BY <1>5 DEF s

(* Attempt numbers count up from 1 and attempt_count is their number, so   *)
(* that the unique key of delivery_attempts never rejects an attempt.      *)
THEOREM AttemptNumbering == Spec => []AttemptsNumbered
<1>1. Init => AttemptsNumbered
  BY DEF Init, AttemptsNumbered, Fresh
<1>2. IInv /\ AttemptsNumbered /\ [Next]_vars => AttemptsNumbered'
  <2> SUFFICES ASSUME IInv, AttemptsNumbered, [Next]_vars, NEW d \in Deliveries
               PROVE  Numbered(row'[d])
    BY DEF AttemptsNumbered, Numbered
  <2>1. row[d] \in Row /\ Numbered(row[d])
    BY DEF IInv, TypeOK, AttemptsNumbered, Numbered
  <2>2. CASE row'[d] = row[d]
    BY <2>1, <2>2
  <2>3. CASE SettleStep(d)
    BY <2>1, <2>3, AppendNumbered DEF SettleStep
  <2>4. CASE DueStep(d)
    BY <2>1, <2>4, OtherParts DEF DueStep, Numbered
  <2>5. CASE RedriveStep(d)
    BY <2>1, <2>5, OtherParts DEF RedriveStep, Numbered
  <2>6. QED
    BY <2>2, <2>3, <2>4, <2>5, RowSteps
<1>3. QED
  BY <1>1, <1>2, Invariance, PTL DEF Spec

(* What a row may have used of its budget: a pending row has an attempt    *)
(* left.                                                                   *)
WithinBudget(r, n) ==
    /\ r.count <= MaxAttempts + n
    /\ r.status = "pending" => r.count < MaxAttempts + n

(* max_delivery_attempts bounds the attempts of a delivery, and a redrive, *)
(* even one that raced another, buys exactly one more.                     *)
THEOREM BudgetKept == Spec => []AttemptBudget
<1> DEFINE Budget == \A d \in Deliveries : WithinBudget(row[d], redriven[d])
<1>1. Init => Budget
  BY QueueAssumption DEF Init, Fresh, WithinBudget
<1>2. IInv /\ Budget /\ [Next]_vars => Budget'
  <2> SUFFICES ASSUME IInv, Budget, [Next]_vars, NEW d \in Deliveries
               PROVE  WithinBudget(row'[d], redriven'[d])
    BY DEF WithinBudget
  <2>1. /\ row[d] \in Row /\ row[d].count \in Nat /\ redriven[d] \in Nat
        /\ WithinBudget(row[d], redriven[d])
    BY DEF IInv, TypeOK, Row
  <2>2. CASE row'[d] = row[d] /\ redriven'[d] = redriven[d]
    BY <2>1, <2>2
  <2>3. CASE SettleStep(d)
    <3>1. PICK w \in Workers, o \in Outcomes : row'[d] = Settled(Claimed(row[d], w), w, o)
      BY <2>3 DEF SettleStep
    <3>2. row'[d].count = row[d].count + 1
      BY <2>1, <3>1, SettledParts
    <3>3. row'[d].status = "pending" => ~(row[d].count + 1 >= MaxAttempts)
      BY <2>1, <3>1, SettledParts
    <3>4. QED
      BY <2>1, <2>3, <3>2, <3>3, QueueAssumption DEF SettleStep, WithinBudget
  <2>4. CASE DueStep(d)
    BY <2>1, <2>4, OtherParts DEF DueStep, WithinBudget
  <2>5. CASE RedriveStep(d)
    BY <2>1, <2>5, OtherParts, QueueAssumption DEF RedriveStep, WithinBudget
  <2>6. QED
    BY <2>2, <2>3, <2>4, <2>5, RowSteps
<1>3. Budget => AttemptBudget
  BY DEF AttemptBudget, WithinBudget
<1> HIDE DEF Budget
<1>4. QED
  BY <1>1, <1>2, <1>3, Invariance, PTL DEF Spec

(* The status of a settled row is the verdict on its last attempt.         *)
Justified(r) ==
    /\ r.status \in {"succeeded", "dead_lettered"} => r.attempts # << >>
    /\ r.status = "succeeded" => LastAttempt(r).outcome = "2xx"
    /\ r.status = "dead_lettered" =>
          \/ LastAttempt(r).outcome = "blocked"
          \/ LastAttempt(r).outcome = "failed" /\ r.count >= MaxAttempts
    /\ r.attempts # << >> => LastAttempt(r).worker_id = r.claimed_by

LEMMA SettledJustified ==
    ASSUME NEW r \in Row, NEW w \in Workers, NEW o \in Outcomes
    PROVE  Justified(Settled(Claimed(r, w), w, o))
<1> DEFINE a == NextAttempt(r, w, o)
           s == Settled(Claimed(r, w), w, o)
<1>1. a.outcome = o /\ a.worker_id = w
  BY DEF NextAttempt
<1>2. r.attempts \in Seq(Attempt) /\ r.count \in Nat
  BY DEF Row
<1>3. /\ s.count = r.count + 1 /\ s.attempts = Append(r.attempts, a) /\ s.claimed_by = w
      /\ o = "2xx" => s.status = "succeeded"
      /\ o # "2xx" /\ (o = "blocked" \/ r.count + 1 >= MaxAttempts)
            => s.status = "dead_lettered"
      /\ o = "failed" /\ ~(r.count + 1 >= MaxAttempts) => s.status = "pending"
  BY SettledParts
<1> HIDE DEF a, s
<1>4. s.attempts # << >> /\ s.attempts[Len(s.attempts)] = a
  BY <1>2, <1>3
<1>5. Justified(s)
  BY <1>1, <1>2, <1>3, <1>4, QueueAssumption DEF Justified, LastAttempt
<1>6. QED
  BY <1>5 DEF s

(* A delivery that shows as succeeded was answered 2xx on its last         *)
(* attempt, a dead-lettered one was blocked or has used up its attempts.   *)
THEOREM OutcomesJustified == Spec => []OutcomeJustified
<1> DEFINE J == \A d \in Deliveries : Justified(row[d])
<1>1. Init => J
  BY DEF Init, Fresh, Justified
<1>2. IInv /\ J /\ [Next]_vars => J'
  <2> SUFFICES ASSUME IInv, J, [Next]_vars, NEW d \in Deliveries
               PROVE  Justified(row'[d])
    BY DEF Justified, LastAttempt
  <2>1. row[d] \in Row /\ Justified(row[d])
    BY DEF IInv, TypeOK
  <2>2. CASE row'[d] = row[d]
    BY <2>1, <2>2
  <2>3. CASE SettleStep(d)
    BY <2>1, <2>3, SettledJustified DEF SettleStep
  <2>4. CASE DueStep(d)
    BY <2>1, <2>4, OtherParts DEF DueStep, Justified, LastAttempt
  <2>5. CASE RedriveStep(d)
    BY <2>1, <2>5, OtherParts, RedrivenType DEF RedriveStep, Justified, LastAttempt
  <2>6. QED
    BY <2>2, <2>3, <2>4, <2>5, RowSteps
<1>3. J => OutcomeJustified
  BY DEF OutcomeJustified, Justified
<1> HIDE DEF J
<1>4. QED
  BY <1>1, <1>2, <1>3, Invariance, PTL DEF Spec

-----------------------------------------------------------------------------
(* Redrives one at a time.  redrive checks the status without a lock and   *)
(* writes without checking again, which is safe only as long as no other   *)
(* redrive of the same delivery comes in between: the theorems of this     *)
(* section assume a single redrive request at a time, and run              *)
(* queue_two_redrives shows what two of them do.                           *)

OneRedriver == \A r, s \in Redrivers : r = s

(* What the redrive request has read is still true when it writes.         *)
StillDead ==
    \A r \in Redrivers : seen[r] # NoDelivery => row[seen[r]].status = "dead_lettered"

LEMMA StillDeadInvariant ==
    ASSUME OneRedriver
    PROVE  Spec => []StillDead
<1>1. Init => StillDead
  BY DEF Init, StillDead
<1>2. IInv /\ StillDead /\ [Next]_vars => StillDead'
  <2> SUFFICES ASSUME IInv, StillDead, [Next]_vars, NEW r \in Redrivers,
                      seen'[r] # NoDelivery
               PROVE  row'[seen'[r]].status = "dead_lettered"
    BY DEF StillDead
  <2>1. CASE \E d \in Deliveries : RedriveRead(r, d)
    BY <2>1 DEF RedriveRead, IInv, TypeOK
  <2>2. CASE RedriveWrite(r)
    BY <2>2 DEF RedriveWrite, IInv, TypeOK
  <2>3. CASE UNCHANGED seen
    <3>1. seen[r] \in Deliveries /\ row[seen[r]].status = "dead_lettered"
      BY <2>3 DEF StillDead, IInv, TypeOK
    <3>2. ~SettleStep(seen[r]) /\ ~DueStep(seen[r]) /\ ~RedriveStep(seen[r])
      BY <2>3, <3>1, QueueAssumption DEF SettleStep, DueStep, RedriveStep, IInv, TypeOK
    <3>3. row'[seen[r]] = row[seen[r]]
      BY <3>1, <3>2, RowSteps
    <3>4. QED
      BY <2>3, <3>1, <3>3
  <2>4. QED
    BY <2>1, <2>2, <2>3
       DEF Next, vars, WorkerStep, Claim, DecryptFails, Block, Send, Answer, AnswerUnstorable,
           Commit, Crash, Hang, IdleTick, Rollback, BecomeDue, OneRedriver
<1>3. QED
  BY <1>1, <1>2, Invariance, PTL DEF Spec

LEMMA StatusSteps ==
    ASSUME IInv, StillDead, [Next]_vars, NEW d \in Deliveries,
           row'[d].status # row[d].status
    PROVE  <<row[d].status, row'[d].status>> \in Lifecycle
<1>1. row[d] \in Row
  BY DEF IInv, TypeOK
<1>2. CASE SettleStep(d)
  <2>1. row'[d].status \in {"pending", "succeeded", "dead_lettered"}
    BY <1>1, <1>2, ClaimedType, SettledType DEF SettleStep
  <2>2. QED
    BY <1>2, <2>1 DEF SettleStep, Lifecycle
<1>3. CASE DueStep(d)
  BY <1>1, <1>3, OtherParts DEF DueStep
<1>4. CASE RedriveStep(d)
  <2>1. row[d].status = "dead_lettered"
    BY <1>4, QueueAssumption DEF RedriveStep, StillDead
  <2>2. row'[d].status = "pending"
    BY <1>1, <1>4, RedrivenType DEF RedriveStep
  <2>3. QED
    BY <2>1, <2>2 DEF Lifecycle
<1>5. QED
  BY <1>2, <1>3, <1>4, RowSteps

(* With redrives one at a time, the committed status of every delivery     *)
(* moves along the documented lifecycle only.                              *)
THEOREM LifecycleFollowed ==
    ASSUME OneRedriver
    PROVE  Spec => FollowsLifecycle
<1> DEFINE A == \A d \in Deliveries :
                   row'[d].status # row[d].status =>
                       <<row[d].status, row'[d].status>> \in Lifecycle
<1>1. IInv /\ StillDead /\ [Next]_vars => [A]_row
  BY StatusSteps
<1>2. FollowsLifecycle <=> [][A]_row
  BY DEF FollowsLifecycle
<1> HIDE DEF A
<1>3. QED
  BY <1>1, <1>2, Invariance, StillDeadInvariant, PTL DEF Spec

-----------------------------------------------------------------------------
(* The queue implements DeliveryContract.                                  *)

LEMMA OutcomesShape ==
    ASSUME NEW s \in Seq(Attempt)
    PROVE  /\ OutcomesOf(s) \in Seq(Outcomes)
           /\ Len(OutcomesOf(s)) = Len(s)
           /\ \A i \in 1 .. Len(s) : OutcomesOf(s)[i] = s[i].outcome
<1>1. Len(s) \in Nat /\ \A i \in 1 .. Len(s) : s[i] \in Attempt
  BY ElementOfSeq, LenProperties
<1>2. \A i \in 1 .. Len(s) : s[i].outcome \in Outcomes
  BY <1>1 DEF Attempt
<1>3. OutcomesOf(s) \in [1 .. Len(s) -> Outcomes]
  BY <1>2 DEF OutcomesOf
<1>4. OutcomesOf(s) \in Seq(Outcomes)
  BY <1>1, <1>3, SeqDef
<1>5. 1 .. Len(OutcomesOf(s)) = 1 .. Len(s)
  BY <1>3, <1>4, LenProperties
<1>6. Len(OutcomesOf(s)) = Len(s)
  BY <1>1, <1>4, <1>5, LenProperties
<1>7. QED
  BY <1>4, <1>6 DEF OutcomesOf

LEMMA OutcomesAppend ==
    ASSUME NEW s \in Seq(Attempt), NEW a \in Attempt
    PROVE  OutcomesOf(Append(s, a)) = Append(OutcomesOf(s), a.outcome)
<1> DEFINE t == Append(s, a)
           u == OutcomesOf(s)
           v == OutcomesOf(t)
           x == Append(u, a.outcome)
<1>1. a.outcome \in Outcomes
  BY DEF Attempt
<1>2. /\ t \in Seq(Attempt) /\ Len(t) = Len(s) + 1
      /\ t[Len(s) + 1] = a
      /\ \A i \in 1 .. Len(s) : t[i] = s[i]
  OBVIOUS
<1>3. /\ u \in Seq(Outcomes) /\ Len(u) = Len(s)
      /\ \A i \in 1 .. Len(s) : u[i] = s[i].outcome
  BY OutcomesShape
<1> HIDE DEF t, u
<1>4. /\ v \in Seq(Outcomes) /\ Len(v) = Len(s) + 1
      /\ \A i \in 1 .. Len(s) + 1 : v[i] = t[i].outcome
  BY <1>2, OutcomesShape
<1>5. /\ x \in Seq(Outcomes) /\ Len(x) = Len(s) + 1
      /\ x[Len(s) + 1] = a.outcome
      /\ \A i \in 1 .. Len(s) : x[i] = u[i]
  BY <1>1, <1>3
<1> HIDE DEF v, x
<1>6. \A i \in 1 .. Len(s) + 1 : v[i] = x[i]
  <2> SUFFICES ASSUME NEW i \in 1 .. Len(s) + 1 PROVE v[i] = x[i]
    OBVIOUS
  <2>1. CASE i = Len(s) + 1
    BY <2>1, <1>2, <1>4, <1>5
  <2>2. CASE i # Len(s) + 1
    <3>1. i \in 1 .. Len(s)
      BY <2>2, LenProperties
    <3>2. QED
      BY <3>1, <1>2, <1>3, <1>4, <1>5
  <2>3. QED
    BY <2>1, <2>2
<1>7. v = x
  BY <1>4, <1>5, <1>6, SeqEqual
<1>8. QED
  BY <1>7 DEF v, x, t, u

LEMMA InitContract == Init => Contract!Init
<1>1. OutcomesOf(Fresh.attempts) = << >>
  BY DEF Fresh, OutcomesOf
<1>2. QED
  BY <1>1 DEF Init, Contract!Init, Fresh

(* A settled attempt, as the contract sees it.                             *)
LEMMA SettledAbstract ==
    ASSUME NEW r \in Row, NEW w \in Workers, NEW o \in Outcomes
    PROVE  /\ OutcomesOf(Settled(Claimed(r, w), w, o).attempts)
                = Append(OutcomesOf(r.attempts), o)
           /\ r.count = Len(r.attempts) =>
                 Settled(Claimed(r, w), w, o).status
                    = Contract!After(o, Len(OutcomesOf(r.attempts)) + 1)
<1>1. r.attempts \in Seq(Attempt) /\ r.count \in Nat
  BY DEF Row
<1>2. NextAttempt(r, w, o) \in Attempt /\ NextAttempt(r, w, o).outcome = o
  BY <1>1 DEF NextAttempt, Attempt
<1>3. Len(OutcomesOf(r.attempts)) = Len(r.attempts)
  BY <1>1, OutcomesShape
<1>4. OutcomesOf(Settled(Claimed(r, w), w, o).attempts) = Append(OutcomesOf(r.attempts), o)
  <2>1. PICK a \in Attempt : a = NextAttempt(r, w, o) /\ a.outcome = o
    BY <1>2
  <2>2. Settled(Claimed(r, w), w, o).attempts = Append(r.attempts, a)
    BY <2>1, SettledParts
  <2>3. OutcomesOf(Append(r.attempts, a)) = Append(OutcomesOf(r.attempts), a.outcome)
    BY <1>1, OutcomesAppend
  <2>4. QED
    BY <2>1, <2>2, <2>3
<1>5. ASSUME r.count = Len(r.attempts)
      PROVE  Settled(Claimed(r, w), w, o).status
                = Contract!After(o, Len(OutcomesOf(r.attempts)) + 1)
  <2>1. Len(OutcomesOf(r.attempts)) + 1 = r.count + 1
    BY <1>3, <1>5
  <2>2. QED
    BY <2>1, SettledParts DEF Contract!After
<1>6. QED
  BY <1>4, <1>5

(* A commit is a set of attempts.                                          *)
LEMMA CommitContract ==
    ASSUME IInv, AttemptsNumbered, NEW w \in Workers, Commit(w)
    PROVE  Contract!Next
<1>1. PICK S \in SUBSET Deliveries : S = DOMAIN tx[w]
  BY DEF IInv, TypeOK
<1>2. \A d \in S : \E o \in Outcomes : row'[d] = Settled(Claimed(row[d], w), w, o)
  BY <1>1, CommitPublishes
<1>3. PICK out \in [S -> {"2xx", "failed", "blocked"}] :
          \A d \in S : row'[d] = Settled(Claimed(row[d], w), w, out[d])
  <2> DEFINE o(d) == CHOOSE o \in Outcomes : row'[d] = Settled(Claimed(row[d], w), w, o)
  <2>1. \A d \in S : o(d) \in Outcomes /\ row'[d] = Settled(Claimed(row[d], w), w, o(d))
    BY <1>2
  <2> HIDE DEF o
  <2>2. [d \in S |-> o(d)] \in [S -> {"2xx", "failed", "blocked"}]
    BY <2>1
  <2>3. QED
    BY <2>1, <2>2
<1>4. ASSUME NEW d \in S
      PROVE  /\ row[d].status = "pending"
             /\ OutcomesOf(row'[d].attempts) = Append(OutcomesOf(row[d].attempts), out[d])
             /\ row'[d].status
                  = Contract!After(out[d], Len(OutcomesOf(row[d].attempts)) + 1)
  <2>1. row[d] \in Row /\ row[d].status = "pending" /\ row[d].count = Len(row[d].attempts)
    BY <1>1, CommitPublishes DEF AttemptsNumbered
  <2>2. out[d] \in Outcomes
    BY <1>3
  <2>3. QED
    BY <2>1, <2>2, <1>3, SettledAbstract
<1>5. \A d \in Deliveries \ S : row'[d] = row[d]
  BY <1>1 DEF Commit
<1>6. Contract!AttemptAll(S, out)
  BY <1>4, <1>5 DEF Contract!AttemptAll
<1>7. QED
  BY <1>1, <1>3, <1>6 DEF Contract!Next

LEMMA NextContract ==
    ASSUME IInv, StillDead, AttemptsNumbered, [Next]_vars
    PROVE  [Contract!Next]_(Contract!vars)
<1>1. ASSUME NEW w \in Workers, Commit(w) PROVE Contract!Next
  BY <1>1, CommitContract
<1>2. ASSUME NEW r \in Redrivers, RedriveWrite(r) PROVE Contract!Next
  <2>1. PICK d \in Deliveries :
            /\ d = seen[r] /\ row[d] \in Row /\ row[d].status = "dead_lettered"
    BY <1>2, QueueAssumption DEF RedriveWrite, StillDead, IInv, TypeOK
  <2>2. row' = [row EXCEPT ![d] = Redriven(row[d])]
    BY <1>2, <2>1 DEF RedriveWrite
  <2>3. /\ row'[d].status = "pending" /\ row'[d].attempts = row[d].attempts
        /\ \A e \in Deliveries \ {d} : row'[e] = row[e]
    BY <2>1, <2>2, RedrivenType, OtherParts DEF IInv, TypeOK
  <2>4. Contract!Redrive(d)
    BY <2>1, <2>3 DEF Contract!Redrive
  <2>5. QED
    BY <2>1, <2>4 DEF Contract!Next
<1>3. ASSUME NEW d \in Deliveries, BecomeDue(d) PROVE UNCHANGED Contract!vars
  <2>1. /\ row'[d] = [row[d] EXCEPT !.due = TRUE] /\ row[d] \in Row
        /\ \A e \in Deliveries \ {d} : row'[e] = row[e]
    BY <1>3 DEF BecomeDue, IInv, TypeOK
  <2>2. ASSUME NEW e \in Deliveries
        PROVE  row'[e].status = row[e].status /\ row'[e].attempts = row[e].attempts
    <3>1. CASE e = d
      BY <2>1, <3>1, OtherParts
    <3>2. CASE e # d
      BY <2>1, <3>2
    <3>3. QED
      BY <3>1, <3>2
  <2>3. QED
    BY <2>2 DEF Contract!vars
<1>4. CASE UNCHANGED row
  BY <1>4 DEF Contract!vars
<1>5. QED
  BY <1>1, <1>2, <1>3, <1>4
     DEF Next, vars, WorkerStep, Claim, DecryptFails, Block, Send, Answer, AnswerUnstorable,
         Crash, Hang, IdleTick, Rollback, RedriveRead

(* Ticks with their batches, locks, crashes and rollbacks implement the    *)
(* contract, as long as redrives come one at a time.                       *)
THEOREM QueueImplementsContract ==
    ASSUME OneRedriver
    PROVE  Spec => ImplementsContract
<1>1. IInv /\ StillDead /\ AttemptsNumbered /\ [Next]_vars
         => [Contract!Next]_(Contract!vars)
  BY NextContract
<1>2. QED
  BY <1>1, InitContract, Invariance, StillDeadInvariant, AttemptNumbering, PTL
     DEF Spec, ImplementsContract, Contract!Spec

-----------------------------------------------------------------------------
(***************************************************************************)
(* How often a receiver sees a delivery without an attempt row to account  *)
(* for it: DuplicatesBounded, for any number of crashes.                   *)
(***************************************************************************)

(* The ghost counters stop at MaxPosts, and a worker that is not POSTing   *)
(* has no current delivery.                                                *)
Counted ==
    /\ aborts <= MaxPosts
    /\ \A d \in Deliveries : sent[d] <= MaxPosts
    /\ \A w \in Workers : pc[w] \in {"idle", "batch"} => cur[w] = NoDelivery

Bound(d) == sent[d] <= PostsIn(row[d]) + aborts + (IF OpenPost(d) THEN 1 ELSE 0)

-----------------------------------------------------------------------------
(* POSTs in an audit trail.                                                *)

LEMMA PostsType ==
    ASSUME NEW r \in Row
    PROVE  PostsIn(r) \in Nat
<1> DEFINE S == {i \in 1 .. Len(r.attempts) : r.attempts[i].outcome # "blocked"}
<1>1. Len(r.attempts) \in Nat
  BY DEF Row
<1>2. IsFiniteSet(1 .. Len(r.attempts))
  BY <1>1, FS_Interval
<1>3. IsFiniteSet(S)
  BY <1>2, FS_Subset
<1>4. Cardinality(S) \in Nat
  BY <1>3, FS_CardinalityType
<1>5. QED
  BY <1>4 DEF PostsIn

(* Only a recorded attempt that was POSTed adds one.                       *)
LEMMA PostsSettled ==
    ASSUME NEW r \in Row, NEW w \in Workers, NEW o \in Outcomes
    PROVE  PostsIn(Settled(Claimed(r, w), w, o))
              = PostsIn(r) + (IF o = "blocked" THEN 0 ELSE 1)
<1> DEFINE a == NextAttempt(r, w, o)
           t == Settled(Claimed(r, w), w, o).attempts
           n == Len(r.attempts)
           S == {i \in 1 .. n : r.attempts[i].outcome # "blocked"}
           T == {i \in 1 .. Len(t) : t[i].outcome # "blocked"}
<1>1. r.attempts \in Seq(Attempt) /\ n \in Nat
  BY DEF Row
<1>2. t = Append(r.attempts, a) /\ a.outcome = o
  <2>1. t = Append(r.attempts, a)
    BY SettledParts
  <2>2. a.outcome = o
    BY DEF NextAttempt
  <2>3. QED
    BY <2>1, <2>2
<1> HIDE DEF a, t
<1>3. Len(t) = n + 1 /\ t[n + 1] = a /\ \A i \in 1 .. n : t[i] = r.attempts[i]
  <2>1. PICK s \in Seq(Attempt) : s = r.attempts /\ Len(s) = n
    BY <1>1
  <2>2. t = Append(s, a)
    BY <1>2, <2>1
  <2>3. Len(t) = Len(s) + 1 /\ t[Len(s) + 1] = a /\ \A i \in 1 .. Len(s) : t[i] = s[i]
    BY <2>2
  <2>4. QED
    BY <2>1, <2>3
<1>4. n + 1 \notin S /\ 1 .. Len(t) = (1 .. n) \cup {n + 1}
  BY <1>1, <1>3
<1>5. T = S \cup (IF o = "blocked" THEN {} ELSE {n + 1})
  BY <1>2, <1>3, <1>4
<1>6. IsFiniteSet(S)
  <2>1. IsFiniteSet(1 .. n)
    BY <1>1, FS_Interval
  <2>2. QED
    BY <2>1, FS_Subset
<1> HIDE DEF S, T, n
<1>7. Cardinality(T) = Cardinality(S) + (IF o = "blocked" THEN 0 ELSE 1)
  <2>1. CASE o = "blocked"
    <3>1. T = S
      BY <1>5, <2>1
    <3>2. Cardinality(S) \in Nat
      BY <1>6, FS_CardinalityType
    <3>3. QED
      BY <2>1, <3>1, <3>2
  <2>2. CASE o # "blocked"
    BY <1>4, <1>5, <1>6, <2>2, FS_AddElement
  <2>3. QED
    BY <2>1, <2>2
<1>8. QED
  BY <1>7 DEF PostsIn, S, T, n, t

LEMMA PostsSame ==
    ASSUME NEW r \in Row
    PROVE  /\ \A w \in Workers : PostsIn(Claimed(r, w)) = PostsIn(r)
           /\ PostsIn(Redriven(r)) = PostsIn(r)
           /\ PostsIn([r EXCEPT !.due = TRUE]) = PostsIn(r)
<1>1. \A w \in Workers : Claimed(r, w).attempts = r.attempts
  BY DEF Claimed, Row
<1>2. QED
  BY <1>1, OtherParts DEF PostsIn

-----------------------------------------------------------------------------
(* Open POSTs.                                                             *)

(* Worker w has an open POST of d.                                         *)
OpenBy(w, d) == d \in DOMAIN tx[w] /\ (cur[w] = d \/ PostsIn(tx[w][d]) > PostsIn(row[d]))

(* A worker has none for what it has yet to process, nor when it is idle.  *)
LEMMA NotOpen ==
    ASSUME IInv, Counted, NEW w \in Workers, pc[w] \in {"idle", "batch"}, NEW d \in Deliveries
    PROVE  /\ cur[w] # d
           /\ pc[w] = "idle" \/ d \in todo[w] => ~OpenBy(w, d)
<1>1. cur[w] # d
  BY QueueAssumption DEF Counted
<1>2. CASE pc[w] = "idle"
  BY <1>1, <1>2 DEF OpenBy, IInv, TickShape
<1>3. CASE d \in todo[w]
  <2>1. tx[w][d] = Claimed(row[d], w) /\ row[d] \in Row
    BY <1>3 DEF IInv, TickShape, NoLostUpdate, TypeOK
  <2>2. PostsIn(tx[w][d]) = PostsIn(row[d]) /\ PostsIn(row[d]) \in Nat
    BY <2>1, PostsSame, PostsType
  <2>3. QED
    BY <1>1, <2>2 DEF OpenBy
<1>4. QED
  BY <1>1, <1>2, <1>3

(* A step that sends nothing, loses nothing and closes nothing.            *)
LEMMA KeptOpen ==
    ASSUME IInv, NEW d \in Deliveries, Bound(d), row'[d] \in Row,
           PostsIn(row'[d]) = PostsIn(row[d]), UNCHANGED <<sent, aborts>>,
           \A w \in Workers : OpenBy(w, d) => OpenBy(w, d)'
    PROVE  Bound(d)'
<1>1. OpenPost(d) => OpenPost(d)'
  BY DEF OpenPost, OpenBy
<1>2. PostsIn(row[d]) \in Nat /\ sent[d] \in Nat /\ aborts \in Nat
  BY PostsType DEF IInv, TypeOK
<1>3. QED
  BY <1>1, <1>2 DEF Bound

(* A lost transaction pays for the duplicate it leaves behind.             *)
LEMMA RollbackBound ==
    ASSUME IInv, Counted, NEW d \in Deliveries, Bound(d), NEW w \in Workers, Rollback(w),
           UNCHANGED sent
    PROVE  Bound(d)'
<1>1. /\ PostsIn(row[d]) \in Nat /\ sent[d] \in Nat /\ aborts \in Nat /\ MaxPosts \in Nat
      /\ sent[d] <= MaxPosts
  BY PostsType, QueueAssumption DEF IInv, TypeOK, Counted
<1>2. row' = row /\ aborts' = IF aborts < MaxPosts THEN aborts + 1 ELSE aborts
  BY DEF Rollback, CountUp
<1>3. sent[d] <= PostsIn(row[d]) + aborts'
  BY <1>1, <1>2 DEF Bound
<1>4. QED
  BY <1>1, <1>2, <1>3 DEF Bound

LEMMA ClaimBound ==
    ASSUME IInv, Counted, NEW d \in Deliveries, Bound(d), NEW w \in Workers, Claim(w)
    PROVE  Bound(d)'
<1>1. pc[w] = "idle" /\ UNCHANGED <<row, cur, sent, aborts>>
  BY DEF Claim
<1>2. \A v \in Workers \ {w} : tx'[v] = tx[v]
  BY ClaimTakes DEF IInv, TypeOK
<1>3. \A v \in Workers : OpenBy(v, d) => OpenBy(v, d)'
  BY <1>1, <1>2, NotOpen DEF OpenBy
<1>4. QED
  BY <1>1, <1>3, KeptOpen DEF IInv, TypeOK

(* What a worker records of e leaves its other open POSTs open; of e, it   *)
(* leaves one if it was POSTed.                                            *)
LEMMA SettleBound ==
    ASSUME IInv, Counted, NEW d \in Deliveries, Bound(d), NEW w \in Workers,
           NEW e \in todo[w], NEW o \in Outcomes,
           tx' = [tx EXCEPT ![w][e] = Settled(@, w, o)],
           \/ pc[w] = "batch" /\ o = "blocked"
           \/ cur[w] = e /\ o # "blocked",
           \A v \in Workers \ {w} : cur'[v] = cur[v],
           UNCHANGED <<row, sent, aborts>>
    PROVE  Bound(d)'
<1> USE DEF IInv
<1>1. e \in DOMAIN tx[w] /\ e \in Deliveries /\ row[e] \in Row /\ row[d] \in Row
  BY DEF TypeOK, TickShape
<1>2. /\ \A v \in Workers \ {w} : tx'[v] = tx[v]
      /\ DOMAIN tx'[w] = DOMAIN tx[w]
      /\ tx'[w][e] = Settled(tx[w][e], w, o)
      /\ \A f \in DOMAIN tx[w] \ {e} : tx'[w][f] = tx[w][f]
  BY <1>1 DEF TypeOK
<1>3. PostsIn(tx'[w][e]) = PostsIn(row[e]) + (IF o = "blocked" THEN 0 ELSE 1)
  <2>1. tx[w][e] = Claimed(row[e], w)
    BY <1>1 DEF NoLostUpdate
  <2>2. QED
    BY <1>1, <1>2, <2>1, PostsSettled
<1>4. OpenBy(w, d) => OpenBy(w, d)'
  <2>1. CASE d = e
    <3>1. CASE pc[w] = "batch" /\ o = "blocked"
      BY <2>1, <3>1, NotOpen
    <3>2. CASE o # "blocked"
      <4>1. PostsIn(tx'[w][d]) > PostsIn(row'[d])
        BY <1>1, <1>3, <2>1, <3>2, PostsType
      <4>2. QED
        BY <1>1, <1>2, <2>1, <4>1 DEF OpenBy
    <3>3. QED
      BY <3>1, <3>2
  <2>2. CASE d # e
    <3>1. cur[w] # d
      BY <2>2, NotOpen
    <3>2. QED
      BY <1>2, <2>2, <3>1 DEF OpenBy
  <2>3. QED
    BY <2>1, <2>2
<1>5. \A v \in Workers : OpenBy(v, d) => OpenBy(v, d)'
  BY <1>2, <1>4 DEF OpenBy
<1>6. QED
  BY <1>1, <1>5, KeptOpen

(* A POST is sent for a delivery that has no open one, and opens it.       *)
LEMMA SendBound ==
    ASSUME IInv, Counted, NEW d \in Deliveries, Bound(d), NEW w \in Workers, Send(w)
    PROVE  Bound(d)'
<1> USE DEF IInv
<1>1. PICK e \in todo[w] : /\ cur' = [cur EXCEPT ![w] = e]
                           /\ sent' = [sent EXCEPT ![e] = CountUp(@)]
  BY Zenon DEF Send
<1>2. pc[w] = "batch" /\ UNCHANGED <<row, tx, aborts>>
  BY DEF Send
<1>3. e \in DOMAIN tx[w] /\ e \in Deliveries /\ row[d] \in Row
  BY DEF TypeOK, TickShape
<1>4. cur'[w] = e /\ \A v \in Workers \ {w} : cur'[v] = cur[v]
  BY <1>1 DEF TypeOK
<1>5. CASE d = e
  <2>1. ~OpenPost(d)
    <3>1. ~OpenBy(w, d)
      BY <1>2, <1>5, NotOpen
    <3>2. \A v \in Workers \ {w} : d \notin DOMAIN tx[v]
      BY <1>3, <1>5 DEF ClaimsDisjoint
    <3>3. QED
      BY <3>1, <3>2 DEF OpenPost, OpenBy
  <2>2. OpenPost(d)'
    BY <1>2, <1>3, <1>4, <1>5 DEF OpenPost
  <2>3. sent[d] \in Nat /\ sent'[d] <= sent[d] + 1 /\ sent'[d] \in Nat
    BY <1>1, <1>5, QueueAssumption DEF TypeOK, CountUp
  <2>4. PostsIn(row[d]) \in Nat /\ aborts \in Nat
    BY <1>3, PostsType DEF TypeOK
  <2>5. QED
    BY <1>2, <2>1, <2>2, <2>3, <2>4 DEF Bound
<1>6. CASE d # e
  <2>1. sent'[d] = sent[d]
    BY <1>1, <1>6 DEF TypeOK
  <2>2. cur[w] # d
    BY <1>2, NotOpen
  <2>3. \A v \in Workers : OpenBy(v, d) => OpenBy(v, d)'
    BY <1>2, <1>4, <2>2 DEF OpenBy
  <2>4. OpenPost(d) => OpenPost(d)'
    BY <2>3 DEF OpenPost, OpenBy
  <2>5. PostsIn(row[d]) \in Nat /\ sent[d] \in Nat /\ aborts \in Nat
    BY <1>3, PostsType DEF TypeOK
  <2>6. QED
    BY <1>2, <2>1, <2>4, <2>5 DEF Bound
<1>7. QED
  BY <1>5, <1>6

(* A commit accounts for the POSTs that its transaction has left open.     *)
LEMMA CommitBound ==
    ASSUME IInv, Counted, NEW d \in Deliveries, Bound(d), NEW w \in Workers, Commit(w)
    PROVE  Bound(d)'
<1> USE DEF IInv
<1>1. pc[w] = "batch" /\ UNCHANGED <<cur, sent, aborts>> /\ DOMAIN tx'[w] = {}
      /\ \A v \in Workers \ {w} : tx'[v] = tx[v]
  BY DEF Commit, TypeOK, EmptyTx
<1>2. CASE d \notin DOMAIN tx[w]
  <2>1. row'[d] = row[d]
    BY <1>2 DEF Commit
  <2>2. \A v \in Workers : OpenBy(v, d) => OpenBy(v, d)'
    BY <1>1, <1>2, <2>1 DEF OpenBy
  <2>3. QED
    BY <1>1, <2>1, <2>2, KeptOpen DEF TypeOK
<1>3. CASE d \in DOMAIN tx[w]
  <2>1. row[d] \in Row /\ row'[d] = tx[w][d]
    BY <1>3 DEF Commit, TypeOK
  <2>2. PICK o \in Outcomes : row'[d] = Settled(Claimed(row[d], w), w, o)
    BY <1>3, CommitPublishes
  <2>3. /\ PostsIn(row'[d]) = PostsIn(row[d]) + (IF o = "blocked" THEN 0 ELSE 1)
        /\ PostsIn(row[d]) \in Nat
    BY <2>1, <2>2, PostsSettled, PostsType
  <2>4. OpenPost(d) => PostsIn(row'[d]) > PostsIn(row[d])
    <3>1. \A v \in Workers \ {w} : d \notin DOMAIN tx[v]
      BY <1>3 DEF ClaimsDisjoint
    <3>2. cur[w] # d
      BY <1>1, NotOpen
    <3>3. QED
      BY <2>1, <3>1, <3>2 DEF OpenPost
  <2>5. sent[d] \in Nat /\ aborts \in Nat
    BY DEF TypeOK
  <2>6. sent[d] <= PostsIn(row'[d]) + aborts
    BY <2>3, <2>4, <2>5 DEF Bound
  <2>7. QED
    BY <1>1, <2>3, <2>5, <2>6 DEF Bound
<1>4. QED
  BY <1>2, <1>3

(* Nobody else's write to a row touches its audit trail.                   *)
LEMMA OutsideBound ==
    ASSUME IInv, NEW d \in Deliveries, Bound(d), NEW e \in Deliveries,
           NEW r \in {Redriven(row[e]), [row[e] EXCEPT !.due = TRUE]},
           row' = [row EXCEPT ![e] = r], UNCHANGED <<tx, cur, sent, aborts>>
    PROVE  Bound(d)'
<1>1. row[d] \in Row /\ row[e] \in Row
  BY DEF IInv, TypeOK
<1>2. r \in Row /\ PostsIn(r) = PostsIn(row[e])
  <2>1. [row[e] EXCEPT !.due = TRUE] \in Row
    BY <1>1 DEF Row
  <2>2. QED
    BY <1>1, <2>1, RedrivenType, PostsSame
<1>3. row'[d] = IF d = e THEN r ELSE row[d]
  BY DEF IInv, TypeOK
<1>4. row'[d] \in Row /\ PostsIn(row'[d]) = PostsIn(row[d])
  BY <1>1, <1>2, <1>3
<1>5. \A w \in Workers : OpenBy(w, d) => OpenBy(w, d)'
  BY <1>4 DEF OpenBy
<1>6. QED
  BY <1>4, <1>5, KeptOpen

-----------------------------------------------------------------------------
LEMMA CountedKeeps ==
    ASSUME IInv, Counted, [Next]_vars
    PROVE  Counted'
<1> USE QueueAssumption DEF IInv, TypeOK, Counted
<1>1. ASSUME NEW w \in Workers, Rollback(w), UNCHANGED sent PROVE Counted'
  BY <1>1 DEF Rollback, CountUp
<1>2. ASSUME NEW w \in Workers, Claim(w) PROVE Counted'
  BY <1>2 DEF Claim
<1>3. ASSUME NEW w \in Workers, Block(w) \/ Answer(w) \/ Commit(w) \/ Hang(w) PROVE Counted'
  BY <1>3 DEF Block, Answer, Commit, Hang
<1>4. ASSUME NEW w \in Workers, Send(w) PROVE Counted'
  <2>1. PICK e \in todo[w] : /\ cur' = [cur EXCEPT ![w] = e]
                             /\ sent' = [sent EXCEPT ![e] = CountUp(@)]
    BY <1>4, Zenon DEF Send
  <2>2. pc' = [pc EXCEPT ![w] = "posting"] /\ UNCHANGED aborts
    BY <1>4 DEF Send
  <2>3. \A d \in Deliveries : sent'[d] = IF d = e THEN CountUp(sent[d]) ELSE sent[d]
    BY <2>1
  <2>4. QED
    BY <2>1, <2>2, <2>3 DEF CountUp
<1>5. ASSUME UNCHANGED <<pc, cur, sent, aborts>> PROVE Counted'
  BY <1>5
<1>6. \/ UNCHANGED <<pc, cur, sent, aborts>>
      \/ \E w \in Workers :
            \/ Rollback(w) /\ UNCHANGED sent
            \/ Claim(w) \/ Block(w) \/ Answer(w) \/ Commit(w) \/ Hang(w) \/ Send(w)
  BY DEF Next, WorkerStep, IdleTick, DecryptFails, AnswerUnstorable, Crash, BecomeDue,
         RedriveRead, RedriveWrite, vars
<1>7. QED
  BY <1>1, <1>2, <1>3, <1>4, <1>5, <1>6

LEMMA NextBound ==
    ASSUME IInv, Counted, [Next]_vars, NEW d \in Deliveries, Bound(d)
    PROVE  Bound(d)'
<1>1. ASSUME NEW w \in Workers, DecryptFails(w) \/ AnswerUnstorable(w) \/ Crash(w)
      PROVE  Bound(d)'
  BY <1>1, RollbackBound DEF DecryptFails, AnswerUnstorable, Crash
<1>2. ASSUME NEW w \in Workers, Block(w) PROVE Bound(d)'
  <2>1. PICK e \in todo[w] : tx' = [tx EXCEPT ![w][e] = Settled(@, w, "blocked")]
    BY <1>2, Zenon DEF Block
  <2>2. /\ pc[w] = "batch" /\ "blocked" \in Outcomes
        /\ \A v \in Workers \ {w} : cur'[v] = cur[v]
        /\ UNCHANGED <<row, sent, aborts>>
    BY <1>2 DEF Block, Outcomes
  <2>3. QED
    BY <2>1, <2>2, SettleBound, Zenon
<1>3. ASSUME NEW w \in Workers, Answer(w) PROVE Bound(d)'
  <2>1. cur[w] \in todo[w]
    BY <1>3 DEF Answer, IInv, TickShape
  <2>2. PICK o \in {"2xx", "failed"} : tx' = [tx EXCEPT ![w][cur[w]] = Settled(@, w, o)]
    BY <1>3, Zenon DEF Answer
  <2>3. /\ o \in Outcomes /\ o # "blocked"
        /\ \A v \in Workers \ {w} : cur'[v] = cur[v]
        /\ UNCHANGED <<row, sent, aborts>>
    BY <1>3 DEF Answer, IInv, TypeOK, Outcomes
  <2>4. QED
    BY <2>1, <2>2, <2>3, SettleBound, Zenon
<1>4. ASSUME NEW e \in Deliveries, BecomeDue(e) PROVE Bound(d)'
  <2>1. row' = [row EXCEPT ![e] = [row[e] EXCEPT !.due = TRUE]]
    BY <1>4 DEF BecomeDue, IInv, TypeOK
  <2>2. UNCHANGED <<tx, cur, sent, aborts>>
    BY <1>4 DEF BecomeDue
  <2>3. QED
    BY <2>1, <2>2, OutsideBound, Zenon
<1>5. ASSUME NEW r \in Redrivers, RedriveWrite(r) PROVE Bound(d)'
  <2>1. seen[r] \in Deliveries /\ row' = [row EXCEPT ![seen[r]] = Redriven(row[seen[r]])]
    BY <1>5 DEF RedriveWrite
  <2>2. UNCHANGED <<tx, cur, sent, aborts>>
    BY <1>5 DEF RedriveWrite
  <2>3. QED
    BY <2>1, <2>2, OutsideBound, Zenon
<1>6. CASE UNCHANGED <<row, tx, cur, sent, aborts>>
  BY <1>6 DEF Bound, OpenPost
<1>7. ASSUME NEW w \in Workers, Hang(w) PROVE Bound(d)'
  BY <1>6, <1>7 DEF Hang
<1>8. ASSUME NEW r \in Redrivers, NEW e \in Deliveries, RedriveRead(r, e) PROVE Bound(d)'
  BY <1>6, <1>8 DEF RedriveRead
<1>9. ASSUME UNCHANGED vars PROVE Bound(d)'
  BY <1>6, <1>9 DEF vars
<1>10. QED
  BY <1>1, <1>2, <1>3, <1>4, <1>5, <1>7, <1>8, <1>9, ClaimBound, SendBound, CommitBound
     DEF Next, WorkerStep, IdleTick

(* A receiver sees a POST that no attempt row accounts for only because a  *)
(* transaction was lost, and each lost transaction costs a delivery at most*)
(* one (process_delivery POSTs before it records).                         *)
THEOREM DuplicatesAccounted == Spec => []DuplicatesBounded
<1> DEFINE DupInv == IInv /\ Counted /\ \A d \in Deliveries : Bound(d)
<1>1. Init => DupInv
  <2>1. Init => IInv
    BY InitIInv
  <2>2. Init => Counted
    BY QueueAssumption DEF Init, Counted
  <2>3. ASSUME Init, NEW d \in Deliveries PROVE Bound(d)
    <3>1. sent[d] = 0 /\ aborts = 0 /\ row[d] \in Row
      BY <2>3, FreshType DEF Init
    <3>2. PostsIn(row[d]) \in Nat
      BY <3>1, PostsType
    <3>3. QED
      BY <3>1, <3>2 DEF Bound
  <2>4. QED
    BY <2>1, <2>2, <2>3
<1>2. DupInv /\ [Next]_vars => DupInv'
  BY NextIInv, CountedKeeps, NextBound
<1>3. DupInv => DuplicatesBounded
  BY DEF Bound, DuplicatesBounded
<1>4. QED
  BY <1>1, <1>2, <1>3, PTL DEF Spec
=============================================================================
