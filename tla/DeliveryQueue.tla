--------------------------- MODULE DeliveryQueue ---------------------------
(***************************************************************************)
(* The delivery queue of hookit: the rows of the deliveries table, the     *)
(* worker threads that claim, POST and settle them, and the API requests   *)
(* that redrive dead-lettered ones.                                        *)
(*                                                                         *)
(* One tick of a worker (app/worker/__main__.py: _worker_loop) is ONE      *)
(* database transaction: run_once claims a batch with FOR UPDATE SKIP      *)
(* LOCKED, POSTs every delivery of it, and only then does the loop commit. *)
(* tx[w] is the write set of that transaction: the versions of the rows    *)
(* that worker w has written and nobody else can see.  The rows in         *)
(* DOMAIN tx[w] are locked by w until its transaction ends.                *)
(*                                                                         *)
(* A row of deliveries and its delivery_attempts rows are one record,      *)
(* since they are only ever written in the same transaction.               *)
(* next_attempt_at is kept as due: whether it has passed.  Deliveries of a *)
(* batch are processed in any order, and any eligible rows may fill a      *)
(* batch: this abstracts ORDER BY next_attempt_at.                         *)
(***************************************************************************)
EXTENDS Naturals, Sequences, FiniteSets

CONSTANTS Deliveries,     (* the rows of the deliveries table                *)
          Workers,        (* the worker threads (WORKER_CONCURRENCY)         *)
          Redrivers,      (* the API threads that may serve a redrive        *)
          NoWorker,       (* claimed_by of a row no worker ever claimed      *)
          NoDelivery,     (* "no current delivery" of a thread               *)
          MaxAttempts,    (* settings.max_delivery_attempts                  *)
          BatchSize,      (* settings.worker_batch_size                      *)
          Undecryptable,  (* deliveries whose secret decrypt_secret rejects  *)
          Unstorable,     (* deliveries whose answer the flush cannot store  *)
          MaxCrashes,     (* bound: crashes of a worker in mid-transaction   *)
          MaxHangs,       (* bound: workers that hang in mid-transaction     *)
          MaxRedrives,    (* bound: redrives of one delivery                 *)
          MaxPosts        (* bound: where the ghost counters stop counting   *)

ASSUME QueueAssumption ==
    /\ NoWorker \notin Workers
    /\ NoDelivery \notin Deliveries
    /\ MaxAttempts \in Nat \ {0}
    /\ BatchSize \in Nat \ {0}
    /\ Undecryptable \subseteq Deliveries
    /\ Unstorable \subseteq Deliveries
    /\ MaxCrashes \in Nat
    /\ MaxHangs \in Nat
    /\ MaxRedrives \in Nat
    /\ MaxPosts \in Nat

VARIABLES
    row,       (* the committed rows                                         *)
    pc,        (* where each worker is in its tick                           *)
    tx,        (* the uncommitted row versions of each worker's transaction  *)
    todo,      (* the claimed deliveries each worker has yet to process      *)
    cur,       (* the delivery each worker is POSTing                        *)
    seen,      (* the delivery each redrive request has read and checked     *)
    sent,      (* ghost: POSTs sent for each delivery                        *)
    aborts,    (* ghost: transactions that ended without a commit            *)
    redriven   (* ghost: redrives committed for each delivery                *)

vars == <<row, pc, tx, todo, cur, seen, sent, aborts, redriven>>

-----------------------------------------------------------------------------
(* Rows.                                                                   *)

Status == {"pending", "in_flight", "succeeded", "dead_lettered"}

Outcomes == {"2xx", "failed", "blocked"}

Attempt == [attempt_number : Nat, outcome : Outcomes, worker_id : Workers]

Row == [status     : Status,
        count      : Nat,
        due        : BOOLEAN,
        leased     : BOOLEAN,
        claimed_by : Workers \cup {NoWorker},
        attempts   : Seq(Attempt)]

(* A row as ingestion inserts it: pending and due at once.                 *)
Fresh == [status |-> "pending", count |-> 0, due |-> TRUE, leased |-> FALSE,
          claimed_by |-> NoWorker, attempts |-> << >>]

(* Variant: the claim forgets to stamp the row with its claimer.           *)
ClaimedUnstamped(r, w) == [r EXCEPT !.status = "in_flight", !.leased = TRUE]

(* What the claim writes: the lease outlives a terminal outcome.           *)
Claimed(r, w) ==
    [r EXCEPT !.status = "in_flight", !.leased = TRUE, !.claimed_by = w]

(* What lease recovery writes.                                             *)
Recovered(r) == [r EXCEPT !.status = "pending", !.leased = FALSE]

(* The delivery_attempts row of the next attempt of r.                     *)
NextAttempt(r, w, o) ==
    [attempt_number |-> r.count + 1, outcome |-> o, worker_id |-> w]

(* Variant: only successful attempts are recorded.                         *)
RecordedIfOk(r, w, o) ==
    IF o = "2xx"
    THEN [r EXCEPT !.count = @ + 1, !.attempts = Append(@, NextAttempt(r, w, o))]
    ELSE [r EXCEPT !.count = @ + 1]

(* The attempt that process_delivery records, whatever its outcome.        *)
Recorded(r, w, o) ==
    [r EXCEPT !.count = @ + 1, !.attempts = Append(@, NextAttempt(r, w, o))]

(* Variant: the attempt limit is compared with > instead of >=.            *)
SettledOneMore(r, w, o) ==
    IF o = "2xx"
    THEN [Recorded(r, w, o) EXCEPT !.status = "succeeded"]
    ELSE IF o = "blocked" \/ r.count + 1 > MaxAttempts
    THEN [Recorded(r, w, o) EXCEPT !.status = "dead_lettered"]
    ELSE [Recorded(r, w, o) EXCEPT !.status = "pending",
                                   !.due    = FALSE,
                                   !.leased = FALSE]

(* Variant: a retry is marked "failed", a status the claim never selects.  *)
SettledFailed(r, w, o) ==
    IF o = "2xx"
    THEN [Recorded(r, w, o) EXCEPT !.status = "succeeded"]
    ELSE IF o = "blocked" \/ r.count + 1 >= MaxAttempts
    THEN [Recorded(r, w, o) EXCEPT !.status = "dead_lettered"]
    ELSE [Recorded(r, w, o) EXCEPT !.status = "failed", !.leased = FALSE]

(* What process_delivery writes for an attempt with outcome o.             *)
Settled(r, w, o) ==
    IF o = "2xx"
    THEN [Recorded(r, w, o) EXCEPT !.status = "succeeded"]
    ELSE IF o = "blocked" \/ r.count + 1 >= MaxAttempts
    THEN [Recorded(r, w, o) EXCEPT !.status = "dead_lettered"]
    ELSE [Recorded(r, w, o) EXCEPT !.status = "pending",
                                   !.due    = FALSE,
                                   !.leased = FALSE]

(* Variant: a redrive starts the count afresh.                             *)
RedrivenFromZero(r) ==
    [r EXCEPT !.status = "pending", !.due = TRUE, !.leased = FALSE, !.count = 0]

(* Variant: a redrive starts the count and the audit trail afresh.         *)
RedrivenAnew(r) ==
    [r EXCEPT !.status = "pending", !.due = TRUE, !.leased = FALSE,
              !.count = 0, !.attempts = << >>]

(* What redrive writes: neither the count nor the claimer.                 *)
Redriven(r) ==
    [r EXCEPT !.status = "pending", !.due = TRUE, !.leased = FALSE]

-----------------------------------------------------------------------------
(* Locks and the rows a tick may take.                                     *)

EmptyTx == [d \in {} |-> Fresh]

Locked == UNION {DOMAIN tx[w] : w \in Workers}

(* Committed claims, whose lease may have run out.                         *)
Leased == {d \in Deliveries \ Locked : row[d].status = "in_flight" /\ row[d].leased}

(* Variant: the SELECT takes rows that another transaction has locked.     *)
ClaimableUnlocked(E) ==
    {d \in Deliveries : row[d].due /\ (d \in E \/ row[d].status = "pending")}

(* The rows the claim's SELECT matches once those of E are recovered.      *)
Claimable(E) ==
    {d \in Deliveries \ Locked :
        row[d].due /\ (d \in E \/ row[d].status = "pending")}

(* LIMIT: as many rows as there are, up to the batch size.                 *)
FillsBatch(B, S) ==
    /\ B \subseteq S
    /\ \/ Cardinality(B) = BatchSize
       \/ B = S /\ Cardinality(S) < BatchSize

CountUp(n) == IF n < MaxPosts THEN n + 1 ELSE n

-----------------------------------------------------------------------------
Init ==
    /\ row = [d \in Deliveries |-> Fresh]
    /\ pc = [w \in Workers |-> "idle"]
    /\ tx = [w \in Workers |-> EmptyTx]
    /\ todo = [w \in Workers |-> {}]
    /\ cur = [w \in Workers |-> NoDelivery]
    /\ seen = [r \in Redrivers |-> NoDelivery]
    /\ sent = [d \in Deliveries |-> 0]
    /\ aborts = 0
    /\ redriven = [d \in Deliveries |-> 0]

(* The transaction begins: recovery of expired leases, then the claim.     *)
Claim(w) ==
    /\ pc[w] = "idle"
    /\ \E E \in SUBSET Leased :
       \E B \in SUBSET Claimable(E) :
          /\ FillsBatch(B, Claimable(E))
          /\ B # {}
          /\ tx' = [tx EXCEPT ![w] =
                      [d \in B \cup E |->
                          LET r == IF d \in E THEN Recovered(row[d]) ELSE row[d]
                          IN  IF d \in B THEN Claimed(r, w) ELSE r]]
          /\ todo' = [todo EXCEPT ![w] = B]
    /\ pc' = [pc EXCEPT ![w] = "batch"]
    /\ UNCHANGED <<row, cur, seen, sent, aborts, redriven>>

(* A tick that finds nothing: the loop waits for a NOTIFY or its timeout.  *)
IdleTick(w) ==
    /\ pc[w] = "idle"
    /\ Claimable(Leased) = {}
    /\ UNCHANGED vars

(* The end of a transaction that publishes nothing.                        *)
Rollback(w) ==
    /\ pc' = [pc EXCEPT ![w] = "idle"]
    /\ tx' = [tx EXCEPT ![w] = EmptyTx]
    /\ todo' = [todo EXCEPT ![w] = {}]
    /\ cur' = [cur EXCEPT ![w] = NoDelivery]
    /\ aborts' = CountUp(aborts)
    /\ UNCHANGED <<row, seen, redriven>>

(* decrypt_secret raises: the exception leaves run_once.                   *)
DecryptFails(w) ==
    /\ pc[w] = "batch"
    /\ \E d \in todo[w] : d \in Undecryptable
    /\ Rollback(w)
    /\ UNCHANGED sent

(* The URL names an address that is blocked: dead-lettered without a POST. *)
Block(w) ==
    /\ pc[w] = "batch"
    /\ \E d \in todo[w] \ Undecryptable :
          /\ tx' = [tx EXCEPT ![w][d] = Settled(@, w, "blocked")]
          /\ todo' = [todo EXCEPT ![w] = @ \ {d}]
    /\ UNCHANGED <<row, pc, cur, seen, sent, aborts, redriven>>

(* The POST leaves the worker.                                             *)
Send(w) ==
    /\ pc[w] = "batch"
    /\ \E d \in todo[w] \ Undecryptable :
          /\ cur' = [cur EXCEPT ![w] = d]
          /\ sent' = [sent EXCEPT ![d] = CountUp(@)]
    /\ pc' = [pc EXCEPT ![w] = "posting"]
    /\ UNCHANGED <<row, tx, todo, seen, aborts, redriven>>

(* The answer, or the error or timeout that stands for it, is recorded.    *)
Answer(w) ==
    /\ pc[w] = "posting"
    /\ cur[w] \notin Unstorable
    /\ \E o \in {"2xx", "failed"} :
          tx' = [tx EXCEPT ![w][cur[w]] = Settled(@, w, o)]
    /\ todo' = [todo EXCEPT ![w] = @ \ {cur[w]}]
    /\ pc' = [pc EXCEPT ![w] = "batch"]
    /\ cur' = [cur EXCEPT ![w] = NoDelivery]
    /\ UNCHANGED <<row, seen, sent, aborts, redriven>>

(* The flush of the attempt row raises: the exception leaves run_once.     *)
AnswerUnstorable(w) ==
    /\ pc[w] = "posting"
    /\ cur[w] \in Unstorable
    /\ Rollback(w)
    /\ UNCHANGED sent

(* Variant: the claim is committed before the batch is processed.          *)
CommitEarly(w) ==
    /\ pc[w] = "batch"
    /\ row' = [d \in Deliveries |->
                  IF d \in DOMAIN tx[w] THEN tx[w][d] ELSE row[d]]
    /\ pc' = [pc EXCEPT ![w] = "idle"]
    /\ tx' = [tx EXCEPT ![w] = EmptyTx]
    /\ todo' = [todo EXCEPT ![w] = {}]
    /\ UNCHANGED <<cur, seen, sent, aborts, redriven>>

(* run_once has returned: the tick commits.                                *)
Commit(w) ==
    /\ pc[w] = "batch"
    /\ todo[w] = {}
    /\ row' = [d \in Deliveries |->
                  IF d \in DOMAIN tx[w] THEN tx[w][d] ELSE row[d]]
    /\ pc' = [pc EXCEPT ![w] = "idle"]
    /\ tx' = [tx EXCEPT ![w] = EmptyTx]
    /\ UNCHANGED <<todo, cur, seen, sent, aborts, redriven>>

(* The worker process dies and is started again: it keeps nothing itself,  *)
(* and the database rolls its transaction back.                            *)
Crash(w) ==
    /\ pc[w] \in {"batch", "posting"}
    /\ aborts < MaxCrashes
    /\ Rollback(w)
    /\ UNCHANGED sent

(* The worker stops with its connection, and so its transaction, open.     *)
Hang(w) ==
    /\ pc[w] \in {"batch", "posting"}
    /\ Cardinality({v \in Workers : pc[v] = "hung"}) < MaxHangs
    /\ pc' = [pc EXCEPT ![w] = "hung"]
    /\ UNCHANGED <<row, tx, todo, cur, seen, sent, aborts, redriven>>

(* The backoff of a retry runs out.                                        *)
BecomeDue(d) ==
    /\ row[d].status = "pending"
    /\ ~row[d].due
    /\ row' = [row EXCEPT ![d].due = TRUE]
    /\ UNCHANGED <<pc, tx, todo, cur, seen, sent, aborts, redriven>>

(* Variant: redrive accepts a delivery in any settled state.               *)
RedriveReadAny(r, d) ==
    /\ seen[r] = NoDelivery
    /\ row[d].status \in {"succeeded", "dead_lettered"}
    /\ redriven[d] < MaxRedrives
    /\ seen' = [seen EXCEPT ![r] = d]
    /\ UNCHANGED <<row, pc, tx, todo, cur, sent, aborts, redriven>>

(* redrive reads the row without a lock and checks that it is dead.        *)
RedriveRead(r, d) ==
    /\ seen[r] = NoDelivery
    /\ row[d].status = "dead_lettered"
    /\ redriven[d] < MaxRedrives
    /\ seen' = [seen EXCEPT ![r] = d]
    /\ UNCHANGED <<row, pc, tx, todo, cur, sent, aborts, redriven>>

(* Its UPDATE ... WHERE id = :id waits for the row lock and tests nothing. *)
RedriveWrite(r) ==
    /\ seen[r] \in Deliveries \ Locked
    /\ row' = [row EXCEPT ![seen[r]] = Redriven(@)]
    /\ redriven' = [redriven EXCEPT ![seen[r]] = @ + 1]
    /\ seen' = [seen EXCEPT ![r] = NoDelivery]
    /\ UNCHANGED <<pc, tx, todo, cur, sent, aborts>>

-----------------------------------------------------------------------------
(* The steps a worker thread takes by itself.                              *)
WorkerStep(w) ==
    \/ Claim(w)
    \/ DecryptFails(w)
    \/ Block(w)
    \/ Send(w)
    \/ Answer(w)
    \/ AnswerUnstorable(w)
    \/ Commit(w)

Next ==
    \/ \E w \in Workers : WorkerStep(w) \/ IdleTick(w) \/ Crash(w) \/ Hang(w)
    \/ \E d \in Deliveries : BecomeDue(d)
    \/ \E r \in Redrivers : RedriveWrite(r) \/ \E d \in Deliveries : RedriveRead(r, d)

Spec == Init /\ [][Next]_vars

(* _worker_loop is an endless loop that survives every exception and each  *)
(* of its steps is bounded (the POST by a timeout, the idle wait by the    *)
(* fallback poll); time passes.  Nothing obliges a redrive, a crash or a   *)
(* hang to happen.                                                         *)
Fairness ==
    /\ \A w \in Workers : WF_vars(WorkerStep(w))
    /\ \A d \in Deliveries : WF_vars(BecomeDue(d))

FairSpec == Spec /\ Fairness

-----------------------------------------------------------------------------
(* Properties.                                                             *)

(* The types of the variables: a transaction writes rows of the table.     *)
TypeOK ==
    /\ row \in [Deliveries -> Row]
    /\ pc \in [Workers -> {"idle", "batch", "posting", "hung"}]
    /\ tx = [w \in Workers |-> tx[w]]
    /\ \A w \in Workers : /\ DOMAIN tx[w] \subseteq Deliveries
                          /\ tx[w] \in [DOMAIN tx[w] -> Row]
    /\ todo \in [Workers -> SUBSET Deliveries]
    /\ cur \in [Workers -> Deliveries \cup {NoDelivery}]
    /\ seen \in [Redrivers -> Deliveries \cup {NoDelivery}]
    /\ sent \in [Deliveries -> Nat]
    /\ aborts \in Nat
    /\ redriven \in [Deliveries -> Nat]

(* No transaction ever commits a claim: outside the worker that holds it,  *)
(* a delivery is never seen IN_FLIGHT, so that lease recovery finds no row *)
(* to reset (delivery_worker.py: _recover_expired_leases).                 *)
NoClaimCommitted == \A d \in Deliveries : row[d].status # "in_flight"

(* What a transaction holds back is exactly one step of the protocol on    *)
(* top of the committed row, which nobody else has touched meanwhile: the  *)
(* claim of a row still to process, the settlement of one processed.  A    *)
(* commit therefore overwrites no redrive, retry or outcome of another.    *)
NoLostUpdate ==
    \A w \in Workers : \A d \in DOMAIN tx[w] :
        /\ row[d].status = "pending"
        /\ row[d].due
        /\ IF d \in todo[w]
           THEN tx[w][d] = Claimed(row[d], w)
           ELSE \E o \in Outcomes : tx[w][d] = Settled(Claimed(row[d], w), w, o)

(* Two workers never work on the same delivery (SKIP LOCKED), even with a  *)
(* redrive, a crash or a rollback of one of them in between.               *)
ClaimsDisjoint ==
    \A v, w \in Workers : v # w => DOMAIN tx[v] \cap DOMAIN tx[w] = {}

(* The committed attempts of a delivery are numbered 1, 2, ... without gap *)
(* or repetition, and attempt_count is how many there are: what the unique *)
(* key on (delivery_id, attempt_number) and the audit trail rely on.       *)
AttemptsNumbered ==
    \A d \in Deliveries :
        /\ row[d].count = Len(row[d].attempts)
        /\ \A i \in 1 .. Len(row[d].attempts) :
               row[d].attempts[i].attempt_number = i

(* A delivery uses at most max_delivery_attempts attempts, plus one for    *)
(* each redrive: attempt_count is not reset, so that a redriven delivery   *)
(* that fails again is dead-lettered at once.                              *)
AttemptBudget ==
    \A d \in Deliveries : row[d].count <= MaxAttempts + redriven[d]

LastAttempt(r) == r.attempts[Len(r.attempts)]

(* A settled row agrees with its audit trail: succeeded exactly on a last  *)
(* attempt answered 2xx; dead-lettered only on a blocked attempt or after  *)
(* max_delivery_attempts; and it names the worker that made that attempt.  *)
OutcomeJustified ==
    \A d \in Deliveries :
        /\ row[d].status = "succeeded" => LastAttempt(row[d]).outcome = "2xx"
        /\ row[d].status = "dead_lettered" =>
              \/ LastAttempt(row[d]).outcome = "blocked"
              \/ /\ LastAttempt(row[d]).outcome = "failed"
                 /\ row[d].count >= MaxAttempts
        /\ row[d].attempts # << >> =>
              LastAttempt(row[d]).worker_id = row[d].claimed_by

PostsIn(r) ==
    Cardinality({i \in 1 .. Len(r.attempts) : r.attempts[i].outcome # "blocked"})

(* POSTs of d whose attempt row is not committed yet.                      *)
OpenPost(d) ==
    \E w \in Workers :
        d \in DOMAIN tx[w] /\ (cur[w] = d \/ PostsIn(tx[w][d]) > PostsIn(row[d]))

(* A receiver sees a POST that no attempt row accounts for only because a  *)
(* transaction was lost, and each lost transaction costs a delivery at     *)
(* most one such duplicate.  (process_delivery POSTs before it records.)   *)
DuplicatesBounded ==
    \A d \in Deliveries :
        sent[d] <= PostsIn(row[d]) + aborts + (IF OpenPost(d) THEN 1 ELSE 0)

Lifecycle == {<<"pending", "succeeded">>, <<"pending", "dead_lettered">>,
              <<"dead_lettered", "pending">>}

(* The committed status of a delivery only moves along the lifecycle:      *)
(* pending to an outcome, and dead_lettered back to pending by a redrive.  *)
FollowsLifecycle ==
    [][\A d \in Deliveries :
          row'[d].status # row[d].status =>
              <<row[d].status, row'[d].status>> \in Lifecycle]_row

(* The queue as its users see it: committed statuses and outcomes.         *)
OutcomesOf(atts) == [i \in 1 .. Len(atts) |-> atts[i].outcome]

Contract == INSTANCE DeliveryContract WITH
    status <- [d \in Deliveries |-> row[d].status],
    trail  <- [d \in Deliveries |-> OutcomesOf(row[d].attempts)]

(* Workers with their batches, locks, crashes and rollbacks, and redrives, *)
(* implement the contract: a claim and a POST are invisible, a commit is a *)
(* set of attempts, a lost transaction is nothing at all.                  *)
ImplementsContract == Contract!Spec

Terminal == {"succeeded", "dead_lettered"}

(* Every delivery is settled in the end, after crashes and redrives too:   *)
(* retries reach a 2xx or the attempt limit.                               *)
EventuallySettled ==
    \A d \in Deliveries :
        (row[d].status \notin Terminal) ~> (row[d].status \in Terminal)

(* A delivery no worker has trouble with is settled in the end, whatever   *)
(* happens to the others: what "a broken endpoint must not block delivery  *)
(* to other endpoints" promises.                                           *)
HealthySettled ==
    \A d \in Deliveries \ (Undecryptable \cup Unstorable) :
        (row[d].status \notin Terminal) ~> (row[d].status \in Terminal)
=============================================================================
