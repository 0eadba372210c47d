----------------------------- MODULE LedgerView -----------------------------
(***************************************************************************)
(* GET /showcase/ledger, which diffs a bank against the platform's event   *)
(* log.  The log, the bank's accounts and its delivery counts are read by  *)
(* three statements, each of which sees what is committed when it runs:    *)
(* trades may be published, delivered and applied in between.  Here the    *)
(* bank is the safe one.                                                   *)
(***************************************************************************)
EXTENDS SafeBank

VARIABLES
    logged,    (* the trades that are published: events with their deliveries*)
    vpc,       (* the statement the reader runs next                         *)
    view,      (* what it has read                                           *)
    quiet      (* ghost: nothing was under way when it began                 *)

viewVars == <<logged, vpc, view, quiet>>

NoView == [expected |-> {}, credits |-> [t \in Trades |-> 0], pending |-> {}, dead |-> {}]

Having(s) == {t \in logged : status[t] = s}

-----------------------------------------------------------------------------
ViewInit ==
    /\ logged = {}
    /\ vpc = "log"
    /\ view = NoView
    /\ quiet = FALSE

(* The producer publishes a trade: its event and its delivery are one      *)
(* transaction.                                                            *)
PublishTrade(t) ==
    /\ t \notin logged
    /\ logged' = logged \cup {t}
    /\ UNCHANGED <<vars, vpc, view, quiet>>

(* The feed and the bank, which have no delivery of what is not published. *)
BankStep ==
    /\ Next
    /\ \A t \in Trades \ logged : waits'[t] = NoCall
    /\ UNCHANGED viewVars

(* expected_from_event_log.                                                *)
ReadLog ==
    /\ vpc = "log"
    /\ view' = [NoView EXCEPT !.expected = logged]
    /\ quiet' = (Having("pending") = {} /\ Having("dead_lettered") = {})
    /\ vpc' = "accounts"
    /\ UNCHANGED <<vars, logged>>

(* The accounts of the bank, whoever they belong to.                       *)
ReadAccounts ==
    /\ vpc = "accounts"
    /\ view' = [view EXCEPT !.credits = [t \in Trades |-> account[trade[t].account].credits[t]]]
    /\ vpc' = "counts"
    /\ UNCHANGED <<vars, logged, quiet>>

(* _delivery_counts; the response is built from what has been read.        *)
CountDeliveries ==
    /\ vpc = "counts"
    /\ view' = [view EXCEPT !.pending = Having("pending"), !.dead = Having("dead_lettered")]
    /\ vpc' = "done"
    /\ UNCHANGED <<vars, logged, quiet>>

(* The dashboard polls again.                                              *)
Refresh ==
    /\ vpc = "done"
    /\ view' = NoView
    /\ vpc' = "log"
    /\ quiet' = FALSE
    /\ UNCHANGED <<vars, logged>>

ViewNext ==
    \/ \E t \in Trades : PublishTrade(t)
    \/ BankStep
    \/ ReadLog
    \/ ReadAccounts
    \/ CountDeliveries
    \/ Refresh

ViewSpec == Init /\ ViewInit /\ [][ViewNext]_<<vars, viewVars>>

-----------------------------------------------------------------------------
(* Properties.                                                             *)

(* The trades by which the balances of the view differ from those that it  *)
(* expects: build_bank_view's drift, trade by trade.                       *)
Drift == {t \in Trades : view.credits[t] # IF t \in view.expected THEN 1 ELSE 0}

(* The meter of a bank that loses nothing shows no drift if all that was   *)
(* published was delivered when the reading began and nothing has been     *)
(* published since.                                                        *)
QuietViewRight ==
    vpc = "done" /\ quiet /\ logged = view.expected => Drift = {}

(* "A bank with nonzero drift and nothing left in flight has genuinely lost*)
(* or invented money" (ledger): when a reading ends with nothing pending, a*)
(* trade that it finds drifting is missing from the bank at that moment, or*)
(* is not in the event log.                                                *)
DriftIsLoss ==
    [][CountDeliveries /\ view'.pending = {} =>
          \A t \in Drift :
              account[trade[t].account].credits[t] # IF t \in logged THEN 1 ELSE 0]_viewVars
=============================================================================
