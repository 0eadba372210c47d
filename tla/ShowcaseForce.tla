---------------------------- MODULE ShowcaseForce ---------------------------
(***************************************************************************)
(* POST /showcase/dead-letter: a request emits an event for the            *)
(* controllable receiver and drives its delivery through process_delivery, *)
(* attempt after attempt, while a worker may claim the same row and the    *)
(* visitor may bring the receiver up again.                                *)
(*                                                                         *)
(* The receiver is served by the same app: it needs a connection of the    *)
(* pool of which the request that waits for its answer holds one.  A       *)
(* delivery and the request that has emitted it go by the same name.  The  *)
(* receiver's endpoint is not deleted here.                                *)
(***************************************************************************)
EXTENDS Naturals, Sequences, FiniteSets

CONSTANTS Forces,          (* requests to force a dead letter                *)
          ForceAttempts,   (* settings.max_delivery_attempts                 *)
          PoolSize,        (* connections of the app's pool                  *)
          ForceTrail       (* bound: attempts beyond which nothing is redriven*)

ASSUME ForceAssumption ==
    /\ ForceAttempts \in Nat \ {0}
    /\ PoolSize \in Nat \ {0}
    /\ ForceTrail \in Nat

VARIABLES
    row,       (* each delivery as committed: its status and its attempts    *)
    copy,      (* the row as whoever has locked it has changed it            *)
    lock,      (* who has locked the row: nobody, a worker or the request    *)
    posted,    (* the deliveries whose POST awaits an answer                 *)
    health,    (* demo_receiver_health.healthy of the receiver               *)
    fpc,       (* where each request is                                      *)
    rounds,    (* the attempts that it has made                              *)
    answer,    (* what it was answered                                       *)
    blocked    (* whether the receiver's URL has an IP literal for its host  *)
               (* that the SSRF check refuses: settings.public_base_url      *)

forceVars == <<row, copy, lock, posted, health, fpc, rounds, answer, blocked>>

Absent == [status |-> "absent", trail |-> <<>>]

Emitted == [status |-> "pending", trail |-> <<>>]

(* The requests that hold a connection: a session has one from its first   *)
(* query to the end of its transaction.                                    *)
Connected == {f \in Forces : fpc[f] \in {"checked", "locking", "forward"}}

PoolFree == Cardinality(Connected) < PoolSize

(* process_delivery's record of an attempt, or of a URL that is blocked.   *)
Attempted(r, outcome) ==
    [status |-> CASE outcome = "2xx" -> "succeeded"
                  [] outcome = "blocked" -> "dead_lettered"
                  [] outcome = "failed" /\ Len(r.trail) + 1 >= ForceAttempts -> "dead_lettered"
                  [] OTHER -> "pending",
     trail  |-> Append(r.trail, outcome)]

(* The receiver's answer is decided by the health it reads.                *)
Verdict == IF health THEN "2xx" ELSE "failed"

-----------------------------------------------------------------------------
ForceInit ==
    /\ row = [f \in Forces |-> Absent]
    /\ copy = [f \in Forces |-> Absent]
    /\ lock = [f \in Forces |-> "nobody"]
    /\ posted = {}
    /\ health \in BOOLEAN
    /\ fpc = [f \in Forces |-> "start"]
    /\ rounds = [f \in Forces |-> 0]
    /\ answer = [f \in Forces |-> "none"]
    /\ blocked \in BOOLEAN

At(f, place) == fpc' = [fpc EXCEPT ![f] = place]

EndWith(f, what) ==
    /\ At(f, "end")
    /\ answer' = [answer EXCEPT ![f] = what]

(* set_receiver_health: the visitor takes the receiver up or down.         *)
SetHealth ==
    /\ health' = ~health
    /\ UNCHANGED <<row, copy, lock, posted, fpc, rounds, answer, blocked>>

(* force_dead_letter: 409 unless the receiver is down.                     *)
CheckHealth(f) ==
    /\ fpc[f] = "start" /\ PoolFree
    /\ IF health THEN EndWith(f, "409") ELSE At(f, "checked") /\ UNCHANGED answer
    /\ UNCHANGED <<row, copy, lock, posted, health, rounds, blocked>>

(* Phase 1: the event and its delivery are committed, workers notified.    *)
Emit(f) ==
    /\ fpc[f] = "checked"
    /\ row' = [row EXCEPT ![f] = Emitted]
    /\ At(f, "emitted")
    /\ UNCHANGED <<copy, lock, posted, health, rounds, answer, blocked>>

(* Phase 2 takes a connection and asks for the lock of the row.            *)
AskLock(f) ==
    /\ fpc[f] = "emitted" /\ PoolFree
    /\ At(f, "locking")
    /\ UNCHANGED <<row, copy, lock, posted, health, rounds, answer, blocked>>

(* Variant: the row as phase 1 left it, not loaded anew under the lock.    *)
LockStale(f) ==
    /\ fpc[f] = "locking" /\ lock[f] = "nobody"
    /\ lock' = [lock EXCEPT ![f] = "request"]
    /\ copy' = [copy EXCEPT ![f] = Emitted]
    /\ At(f, "forward")
    /\ UNCHANGED <<row, posted, health, rounds, answer, blocked>>

(* SELECT ... FOR UPDATE waits, then loads the row as committed by then.   *)
LockRow(f) ==
    /\ fpc[f] = "locking" /\ lock[f] = "nobody"
    /\ lock' = [lock EXCEPT ![f] = "request"]
    /\ copy' = [copy EXCEPT ![f] = row[f]]
    /\ At(f, "forward")
    /\ UNCHANGED <<row, posted, health, rounds, answer, blocked>>

(* lock_timeout: the delivery is left to the worker.                       *)
LockTimesOut(f) ==
    /\ fpc[f] = "locking" /\ lock[f] # "nobody"
    /\ EndWith(f, "none")
    /\ UNCHANGED <<row, copy, lock, posted, health, rounds, blocked>>

(* pool_timeout while waiting for a connection: the request ends in a 500. *)
PoolTimesOut(f) ==
    /\ fpc[f] \in {"start", "emitted", "posted"} /\ ~PoolFree
    /\ EndWith(f, "500")
    /\ UNCHANGED <<row, copy, lock, posted, health, rounds, blocked>>

(* Variant: the loop counts the attempts that a worker has made.           *)
MoreRoundsInAll(f) == copy[f].status # "dead_lettered" /\ Len(copy[f].trail) + 1 < ForceAttempts

(* The loop's condition: only a dead letter ends it early.                 *)
MoreRounds(f) == copy[f].status # "dead_lettered" /\ rounds[f] < ForceAttempts

(* process_delivery POSTs; the transaction stays open.                     *)
ForcePost(f) ==
    /\ fpc[f] = "forward" /\ f \notin posted
    /\ MoreRounds(f) /\ ~blocked
    /\ posted' = posted \cup {f}
    /\ rounds' = [rounds EXCEPT ![f] = @ + 1]
    /\ UNCHANGED <<row, copy, lock, health, fpc, answer, blocked>>

(* process_delivery does not POST to a URL that the SSRF check refuses: it *)
(* records an attempt and dead-letters the delivery at once.               *)
ForceBlock(f) ==
    /\ fpc[f] = "forward" /\ f \notin posted
    /\ MoreRounds(f) /\ blocked
    /\ copy' = [copy EXCEPT ![f] = Attempted(@, "blocked")]
    /\ rounds' = [rounds EXCEPT ![f] = @ + 1]
    /\ UNCHANGED <<row, lock, posted, health, fpc, answer, blocked>>

Recorded(d, outcome) ==
    /\ copy' = [copy EXCEPT ![d] = Attempted(@, outcome)]
    /\ posted' = posted \ {d}
    /\ UNCHANGED <<row, lock, health, fpc, rounds, answer, blocked>>

(* showcase_receiver: one step of the event loop on one connection.        *)
Receive(d) ==
    /\ d \in posted /\ PoolFree
    /\ Recorded(d, Verdict)

(* Variant: a POST waits for its answer as long as it takes.               *)
PostWaits(d) ==
    /\ d \in posted /\ PoolFree
    /\ Recorded(d, "failed")

(* delivery_timeout_seconds pass or the connection fails: the receiver may *)
(* still get a connection and record the request, but nobody hears of it.  *)
PostTimesOut(d) ==
    /\ d \in posted
    /\ Recorded(d, "failed")

(* Phase 2 is committed.                                                   *)
ForceCommit(f) ==
    /\ fpc[f] = "forward" /\ f \notin posted
    /\ ~MoreRounds(f)
    /\ row' = [row EXCEPT ![f] = copy[f]]
    /\ copy' = [copy EXCEPT ![f] = Absent]
    /\ lock' = [lock EXCEPT ![f] = "nobody"]
    /\ At(f, "posted")
    /\ UNCHANGED <<posted, health, rounds, answer, blocked>>

(* The commit has expired the row: its status is read once more.           *)
Report(f) ==
    /\ fpc[f] = "posted" /\ PoolFree
    /\ EndWith(f, IF row[f].status = "dead_lettered" THEN "dead" ELSE "none")
    /\ UNCHANGED <<row, copy, lock, posted, health, rounds, blocked>>

-----------------------------------------------------------------------------
(* A worker claims a delivery that is due and not locked, and POSTs it.    *)
WorkerClaim(d) ==
    /\ row[d].status = "pending" /\ lock[d] = "nobody" /\ ~blocked
    /\ lock' = [lock EXCEPT ![d] = "worker"]
    /\ copy' = [copy EXCEPT ![d] = row[d]]
    /\ posted' = posted \cup {d}
    /\ UNCHANGED <<row, health, fpc, rounds, answer, blocked>>

(* It is dead-lettered unsent when the SSRF check refuses its URL.         *)
WorkerBlock(d) ==
    /\ row[d].status = "pending" /\ lock[d] = "nobody" /\ blocked
    /\ lock' = [lock EXCEPT ![d] = "worker"]
    /\ copy' = [copy EXCEPT ![d] = Attempted(row[d], "blocked")]
    /\ UNCHANGED <<row, posted, health, fpc, rounds, answer, blocked>>

WorkerCommit(d) ==
    /\ lock[d] = "worker" /\ d \notin posted
    /\ row' = [row EXCEPT ![d] = copy[d]]
    /\ copy' = [copy EXCEPT ![d] = Absent]
    /\ lock' = [lock EXCEPT ![d] = "nobody"]
    /\ UNCHANGED <<posted, health, fpc, rounds, answer, blocked>>

(* The worker dies: its transaction is rolled back.                        *)
WorkerCrash(d) ==
    /\ lock[d] = "worker"
    /\ copy' = [copy EXCEPT ![d] = Absent]
    /\ lock' = [lock EXCEPT ![d] = "nobody"]
    /\ posted' = posted \ {d}
    /\ UNCHANGED <<row, health, fpc, rounds, answer, blocked>>

(* POST /showcase/redrive of a dead letter; its UPDATE waits for the lock. *)
ForceRedrive(d) ==
    /\ row[d].status = "dead_lettered" /\ lock[d] = "nobody"
    /\ Len(row[d].trail) < ForceTrail
    /\ row' = [row EXCEPT ![d].status = "pending"]
    /\ UNCHANGED <<copy, lock, posted, health, fpc, rounds, answer, blocked>>

-----------------------------------------------------------------------------
(* The steps of a request and of the calls that it or a worker has made.   *)
ForceStep(f) ==
    \/ CheckHealth(f)
    \/ Emit(f)
    \/ AskLock(f)
    \/ LockRow(f)
    \/ LockTimesOut(f)
    \/ PoolTimesOut(f)
    \/ ForcePost(f)
    \/ ForceBlock(f)
    \/ ForceCommit(f)
    \/ Report(f)

CallStep(d) == Receive(d) \/ PostTimesOut(d)

ForceNext ==
    \/ SetHealth
    \/ \E f \in Forces :
          \/ ForceStep(f)
          \/ CallStep(f)
          \/ WorkerClaim(f)
          \/ WorkerBlock(f)
          \/ WorkerCommit(f)
          \/ WorkerCrash(f)
          \/ ForceRedrive(f)

ForceSpec == ForceInit /\ [][ForceNext]_forceVars

(* The threads of the API keep running, and each call ends.                *)
ForceFairSpec ==
    /\ ForceSpec
    /\ \A f \in Forces : WF_forceVars(ForceStep(f)) /\ WF_forceVars(CallStep(f))

-----------------------------------------------------------------------------
(* Properties.                                                             *)

(* The fast path and the workers never overwrite each other's attempts: the*)
(* committed trail of a delivery only grows (_fast_forward_to_dead_letter  *)
(* waits for the row's lock and loads what is committed by then).          *)
TrailKept ==
    [][\A d \in Forces :
          /\ Len(row[d].trail) <= Len(row'[d].trail)
          /\ row[d].trail = SubSeq(row'[d].trail, 1, Len(row[d].trail))]_row

(* A request that has been through its loop leaves its delivery settled,   *)
(* whatever a worker did to it before and however the receiver answers.  Of*)
(* one that is told of a dead letter max_delivery_attempts were made and an*)
(* attempt from then on failed, unless its URL is one that the SSRF check  *)
(* refuses: then an attempt says so (process_delivery).                    *)
ForcedSettles ==
    /\ [][\A f \in Forces :
             fpc[f] = "forward" /\ fpc'[f] = "posted" =>
                row'[f].status \in {"succeeded", "dead_lettered"}]_<<fpc, row>>
    /\ [](\A f \in Forces :
             answer[f] = "dead" =>
                \E n \in 1..Len(row[f].trail) :
                   \/ row[f].trail[n] = "failed" /\ n >= ForceAttempts
                   \/ row[f].trail[n] = "blocked" /\ blocked)

(* What docs/PROJECT_SPEC.md:118-123 draws: SUCCEEDED is the end of a      *)
(* delivery's lifecycle.  The loop of the fast path stops at nothing but a *)
(* dead letter and POSTs what a worker has delivered (showcase.py:586-589).*)
SucceededIsFinal ==
    [][\A d \in Forces :
          row[d].status = "succeeded" => row'[d].status = "succeeded"]_row

(* A request that is served ends, although it waits for row locks, for     *)
(* connections of the pool and for a receiver that needs one too: each wait*)
(* has a timeout.                                                          *)
EveryForceEnds == \A f \in Forces : fpc[f] # "start" ~> fpc[f] = "end"
=============================================================================
