---------------------------- MODULE ReceiverInbox ---------------------------
(***************************************************************************)
(* The tail of received requests that a receiver keeps: recorders insert a *)
(* row each and prune what they see beyond the newest Keep, in transactions*)
(* of their own (the threads of a bank, or several app machines).  A row is*)
(* named by its received_at; every statement sees what is committed then,  *)
(* and what its own transaction has written.                               *)
(***************************************************************************)
EXTENDS Naturals, FiniteSets

CONSTANTS Recorders,       (* threads that record at the same time           *)
          Keep,            (* _INBOX_KEEP                                    *)
          MaxRequests      (* bound: requests received                       *)

ASSUME InboxAssumption ==
    /\ Keep \in Nat \ {0}
    /\ MaxRequests \in Nat
    /\ IsFiniteSet(Recorders)

VARIABLES
    inbox,       (* the committed rows of demo_received_requests             *)
    recorded,    (* ghost: all rows ever committed                           *)
    clock,       (* the received_at of the last row                          *)
    own,         (* the row of each recorder, 0 if it records none           *)
    ipc,         (* where it is                                              *)
    stale        (* what it has selected, then deleted                       *)

inboxVars == <<inbox, recorded, clock, own, ipc, stale>>

(* ORDER BY received_at DESC LIMIT Keep: list_inbox, and what pruning keeps*)
Newest(rows) == {r \in rows : Cardinality({s \in rows : s > r}) < Keep}

(* The rows that recorder r's transaction sees before it has deleted any.  *)
Seen(r) == inbox \cup {own[r]}

(* The rows that others have deleted and not committed yet.                *)
LockedFrom(r) == UNION {stale[s] : s \in {q \in Recorders \ {r} : ipc[q] = "pruned"}}

-----------------------------------------------------------------------------
InboxInit ==
    /\ inbox = {}
    /\ recorded = {}
    /\ clock = 0
    /\ own = [r \in Recorders |-> 0]
    /\ ipc = [r \in Recorders |-> "idle"]
    /\ stale = [r \in Recorders |-> {}]

(* The new row is stamped and flushed.                                     *)
Insert(r) ==
    /\ ipc[r] = "idle" /\ clock < MaxRequests
    /\ clock' = clock + 1
    /\ own' = [own EXCEPT ![r] = clock + 1]
    /\ ipc' = [ipc EXCEPT ![r] = "inserted"]
    /\ UNCHANGED <<inbox, recorded, stale>>

(* Variant: the new row is not flushed yet (the session does not autoflush)*)
SelectStaleUnflushed(r) ==
    /\ ipc[r] = "inserted"
    /\ stale' = [stale EXCEPT ![r] = inbox \ Newest(inbox)]
    /\ ipc' = [ipc EXCEPT ![r] = "selected"]
    /\ UNCHANGED <<inbox, recorded, clock, own>>

(* SELECT ... OFFSET _INBOX_KEEP.                                          *)
SelectStale(r) ==
    /\ ipc[r] = "inserted"
    /\ stale' = [stale EXCEPT ![r] = Seen(r) \ Newest(Seen(r))]
    /\ ipc' = [ipc EXCEPT ![r] = "selected"]
    /\ UNCHANGED <<inbox, recorded, clock, own>>

(* DELETE ... IN (stale) waits for whoever deletes one of them already, and*)
(* deletes those that are still there.                                     *)
Prune(r) ==
    /\ ipc[r] = "selected"
    /\ stale[r] \cap LockedFrom(r) = {}
    /\ stale' = [stale EXCEPT ![r] = @ \cap Seen(r)]
    /\ ipc' = [ipc EXCEPT ![r] = "pruned"]
    /\ UNCHANGED <<inbox, recorded, clock, own>>

EndRecord(r) ==
    /\ own' = [own EXCEPT ![r] = 0]
    /\ stale' = [stale EXCEPT ![r] = {}]
    /\ ipc' = [ipc EXCEPT ![r] = "idle"]
    /\ UNCHANGED clock

(* Variant: what was pruned stays pruned when the transaction fails.       *)
RollBackInsertOnly(r) ==
    /\ ipc[r] # "idle"
    /\ inbox' = inbox \ IF ipc[r] = "pruned" THEN stale[r] ELSE {}
    /\ EndRecord(r)
    /\ UNCHANGED recorded

(* The caller's transaction fails: neither row nor deletions remain.       *)
RollBackRecord(r) ==
    /\ ipc[r] # "idle"
    /\ EndRecord(r)
    /\ UNCHANGED <<inbox, recorded>>

(* The caller commits.                                                     *)
CommitRecord(r) ==
    /\ ipc[r] = "pruned"
    /\ inbox' = Seen(r) \ stale[r]
    /\ recorded' = recorded \cup {own[r]}
    /\ EndRecord(r)

InboxNext ==
    \E r \in Recorders :
        \/ Insert(r)
        \/ SelectStale(r)
        \/ Prune(r)
        \/ RollBackRecord(r)
        \/ CommitRecord(r)

-----------------------------------------------------------------------------
(* Properties.                                                             *)

(* However recorders overlap, list_inbox shows the newest requests there   *)
(* ever were: record_received_request prunes none of them.                 *)
InboxShowsNewest == Newest(inbox) = Newest(recorded)

(* The inbox stays a bounded live tail: recorders that prune at the same   *)
(* time miss each other's rows, but no more than one each.                 *)
InboxBounded == Cardinality(inbox) <= Keep + Cardinality(Recorders) - 1
=============================================================================
