--------------------------- MODULE SigningSecrets ---------------------------
(***************************************************************************)
(* The signing secret of an endpoint: the API mints and rotates it, the    *)
(* worker signs with what it has read at the beginning of its transaction, *)
(* the receiver verifies with what its owner was answered and by its own   *)
(* clock.  Time is counted in half seconds, as a timestamp loses a         *)
(* fraction; secrets are numbered in the order in which they are stored.   *)
(***************************************************************************)
EXTENDS Integers, FiniteSets

CONSTANTS Rotations,     (* requests to rotate the secret                    *)
          MaxAge,        (* _MAX_AGE_SECONDS                                 *)
          Skew,          (* by how much the clocks may differ                *)
          MaxSecrets,    (* bound: secrets of the endpoint                   *)
          MaxClock       (* bound: time                                      *)

ASSUME SigningAssumption == MaxAge \in Nat /\ Skew \in Nat

VARIABLES
    stored,      (* endpoint.secret_enc as committed                         *)
    minted,      (* the last secret that was generated                       *)
    rotation,    (* where each rotation is, and the secret it has generated  *)
    alone,       (* ghost: the rotations that have overlapped with no other  *)
    tangled,     (* ghost: what the owner has may not be what is stored      *)
    installed,   (* the secret that the receiver verifies with               *)
    wall,        (* the worker's clock                                       *)
    held,        (* the secret the worker has read, 0 outside a transaction  *)
    wire,        (* the message under way, Nothing if there is none          *)
    steady       (* ghost: no rotation since the worker has read the secret  *)

signingVars == <<stored, minted, rotation, alone, tangled, installed, wall, held, wire, steady>>

Nothing == [secret |-> 0, stamp |-> 0, sent |-> 0]

NotRotating == [place |-> "away", secret |-> 0]

UnderWay == {r \in Rotations : rotation[r] # NotRotating}

-----------------------------------------------------------------------------
(* The endpoint is created, and its owner has the secret it was answered.  *)
SigningInit ==
    /\ stored = 1 /\ minted = 1 /\ installed = 1
    /\ rotation = [r \in Rotations |-> NotRotating]
    /\ alone = {}
    /\ tangled = FALSE
    /\ wall = 0 /\ held = 0
    /\ wire = Nothing
    /\ steady = FALSE

(* A rotation is asked for and generates a secret.                         *)
MintSecret(r) ==
    /\ rotation[r] = NotRotating
    /\ minted < MaxSecrets
    /\ minted' = minted + 1
    /\ rotation' = [rotation EXCEPT ![r] = [place |-> "minted", secret |-> minted + 1]]
    /\ alone' = IF UnderWay = {} THEN {r} ELSE {}
    /\ steady' = FALSE
    /\ UNCHANGED <<stored, tangled, installed, wall, held, wire>>

(* Variant: the new secret is answered and not committed.                  *)
ReplaceSecretForgotten(r) ==
    /\ rotation[r].place = "minted"
    /\ rotation' = [rotation EXCEPT ![r].place = "committed"]
    /\ UNCHANGED <<stored, minted, alone, tangled, installed, wall, held, wire, steady>>

(* It is encrypted, written to the endpoint and committed.                 *)
ReplaceSecret(r) ==
    /\ rotation[r].place = "minted"
    /\ stored' = rotation[r].secret
    /\ rotation' = [rotation EXCEPT ![r].place = "committed"]
    /\ UNCHANGED <<minted, alone, tangled, installed, wall, held, wire, steady>>

(* The request fails before its commit.                                    *)
RotationFails(r) ==
    /\ rotation[r].place = "minted"
    /\ rotation' = [rotation EXCEPT ![r] = NotRotating]
    /\ tangled' = (tangled \/ r \notin alone)
    /\ UNCHANGED <<stored, minted, alone, installed, wall, held, wire, steady>>

(* The one answer that shows the secret arrives and the owner installs it. *)
InstallSecret(r) ==
    /\ rotation[r].place = "committed"
    /\ installed' = rotation[r].secret
    /\ rotation' = [rotation EXCEPT ![r] = NotRotating]
    /\ tangled' = (r \notin alone)
    /\ UNCHANGED <<stored, minted, alone, wall, held, wire, steady>>

(* The answer is lost: nobody has the secret that is stored.               *)
LoseSecret(r) ==
    /\ rotation[r].place = "committed"
    /\ rotation' = [rotation EXCEPT ![r] = NotRotating]
    /\ tangled' = TRUE
    /\ UNCHANGED <<stored, minted, alone, installed, wall, held, wire, steady>>

(* The worker loads the endpoint with the first of its deliveries, and     *)
(* keeps it for the others of the batch.                                   *)
LoadEndpoint ==
    /\ held = 0
    /\ held' = stored
    /\ steady' = (UnderWay = {} /\ ~tangled)
    /\ UNCHANGED <<stored, minted, rotation, alone, tangled, installed, wall, wire>>

(* It signs a delivery, or a retry of it, and sends it.                    *)
SignAndSend ==
    /\ held # 0
    /\ wire = Nothing
    /\ wire' = [secret |-> held, stamp |-> wall - (wall % 2), sent |-> wall]
    /\ UNCHANGED <<stored, minted, rotation, alone, tangled, installed, wall, held, steady>>

(* The transaction ends, when all its messages have been answered or lost. *)
EndBatch ==
    /\ held # 0 /\ wire = Nothing
    /\ held' = 0
    /\ steady' = FALSE
    /\ UNCHANGED <<stored, minted, rotation, alone, tangled, installed, wall, wire>>

PassTime ==
    /\ wall < MaxClock
    /\ wall' = wall + 1
    /\ UNCHANGED <<stored, minted, rotation, alone, tangled, installed, held, wire, steady>>

(* abs(age) is no more than the limit.                                     *)
WithinAge(m, now) == now - m.stamp <= 2 * MaxAge /\ m.stamp - now <= 2 * MaxAge

(* verify_signature, by the receiver's clock.                              *)
Verifies(m, now) == m.secret = installed /\ WithinAge(m, now)

(* The message arrives and is answered 200 or 401.                         *)
Arrives(verdict) ==
    /\ wire # Nothing
    /\ \E lag \in (-Skew)..Skew : Verifies(wire, wall + lag) = verdict
    /\ wire' = Nothing
    /\ UNCHANGED <<stored, minted, rotation, alone, tangled, installed, wall, held, steady>>

AcceptMessage == Arrives(TRUE)
RefuseMessage == Arrives(FALSE)

LoseMessage ==
    /\ wire # Nothing
    /\ wire' = Nothing
    /\ UNCHANGED <<stored, minted, rotation, alone, tangled, installed, wall, held, steady>>

SigningNext ==
    \/ \E r \in Rotations :
          \/ MintSecret(r)
          \/ ReplaceSecret(r)
          \/ RotationFails(r)
          \/ InstallSecret(r)
          \/ LoseSecret(r)
    \/ LoadEndpoint
    \/ SignAndSend
    \/ EndBatch
    \/ PassTime
    \/ AcceptMessage
    \/ RefuseMessage
    \/ LoseMessage

-----------------------------------------------------------------------------
(* Properties.                                                             *)

(* Late: as old as the limit by a clock that may be ahead, if not by the   *)
(* worker's own, and older by the fraction its timestamp has lost.         *)
Late == wall - wire.sent + Skew + 1 > 2 * MaxAge

(* A receiver that was given the secret of the last rotation refuses no    *)
(* message that comes in time: the owner must only let one rotation end    *)
(* before the next, and rotate again when an answer is lost                *)
(* (rotate_endpoint_secret, process_delivery, verify_signature).           *)
GenuineAccepted == [][RefuseMessage => ~steady \/ Late]_signingVars
=============================================================================
