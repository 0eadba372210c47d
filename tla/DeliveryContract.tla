-------------------------- MODULE DeliveryContract --------------------------
(***************************************************************************)
(* What the delivery queue promises, without workers, claims, locks or     *)
(* transactions: a delivery is pending until attempts settle it, each      *)
(* attempt appends its outcome to the delivery's trail and decides its     *)
(* status at the same moment, and only a dead-lettered delivery is redriven.*)
(* Several deliveries may be attempted in one step (a batch commits as     *)
(* one).                                                                   *)
(***************************************************************************)
EXTENDS Naturals, Sequences

CONSTANTS Deliveries,     (* the deliveries                                  *)
          MaxAttempts     (* failed attempts that dead-letter a delivery     *)

VARIABLES status,         (* of each delivery                                *)
          trail           (* the outcomes of its attempts, oldest first      *)

vars == <<status, trail>>

(* The status an attempt with outcome o leaves, the n-th of its delivery.  *)
After(o, n) ==
    IF o = "2xx" THEN "succeeded"
    ELSE IF o = "blocked" \/ n >= MaxAttempts THEN "dead_lettered"
    ELSE "pending"

Init ==
    /\ status = [d \in Deliveries |-> "pending"]
    /\ trail = [d \in Deliveries |-> << >>]

(* The deliveries of S are attempted once each, with the outcomes of out.  *)
AttemptAll(S, out) ==
    /\ \A d \in S : status[d] = "pending"
    /\ trail' = [d \in Deliveries |->
                    IF d \in S THEN Append(trail[d], out[d]) ELSE trail[d]]
    /\ status' = [d \in Deliveries |->
                    IF d \in S THEN After(out[d], Len(trail[d]) + 1) ELSE status[d]]

Redrive(d) ==
    /\ status[d] = "dead_lettered"
    /\ status' = [status EXCEPT ![d] = "pending"]
    /\ UNCHANGED trail

Next ==
    \/ \E S \in SUBSET Deliveries :
          \E out \in [S -> {"2xx", "failed", "blocked"}] : AttemptAll(S, out)
    \/ \E d \in Deliveries : Redrive(d)

Spec == Init /\ [][Next]_vars
=============================================================================
