----------------------------- MODULE LedgerFeed -----------------------------
(***************************************************************************)
(* How trade.executed events reach a bank: each trade is one delivery of   *)
(* the queue, which is taken by its contract, and each attempt of it is a  *)
(* call to the bank.  The worker that makes a call may give up on it       *)
(* (timeout) or die while it waits; the bank goes on with the call, so     *)
(* that the next attempt may overlap with it and trades overtake each other*)
(*                                                                         *)
(* A delivery waits for at most one call (its row is locked by the worker  *)
(* that makes it).  What the bank does with a call is the business of the  *)
(* module that extends this one, by way of Finish.                         *)
(***************************************************************************)
EXTENDS Naturals, Sequences, FiniteSets

CONSTANTS Trades,         (* the trade.executed events, by event id          *)
          Accounts,       (* the accounts they are about                     *)
          Times,          (* executed_at                                     *)
          Calls,          (* the threads that serve the bank's requests      *)
          NoTrade,        (* the trade of a thread that serves no request    *)
          NoCall,         (* what a delivery that waits for nothing waits for*)
          MaxAttempts,    (* settings.max_delivery_attempts                  *)
          MaxTrail,       (* bound: attempts beyond which nothing is redriven*)
          MaxDeaths       (* bound: workers that die while they wait         *)

ASSUME FeedAssumption ==
    /\ Times \subseteq Nat \ {0}
    /\ NoTrade \notin Trades
    /\ NoCall \notin Calls
    /\ MaxAttempts \in Nat \ {0}
    /\ MaxTrail \in Nat
    /\ MaxDeaths \in Nat

VARIABLES
    trade,     (* the account and the executed_at of each trade              *)
    status,    (* the committed status of each trade's delivery              *)
    trail,     (* the outcomes of its attempts                               *)
    waits,     (* the call each trade's delivery waits for                   *)
    deaths,    (* ghost: workers that died while they waited                 *)
    mode,      (* the bank's mode: healthy, flaky or down                    *)
    what,      (* the trade each call is about                               *)
    pc,        (* where each call is in the bank's handler                   *)
    reply      (* the outcome of an answered call                            *)

queueVars == <<status, trail>>
callVars == <<what, pc, reply>>
feedVars == <<trade, status, trail, waits, deaths, mode, what, pc, reply>>

Queue == INSTANCE DeliveryContract WITH Deliveries <- Trades

Modes == {"healthy", "flaky", "down"}

AccountOf(c) == trade[what[c]].account

-----------------------------------------------------------------------------
FeedInit ==
    /\ trade \in [Trades -> [account : Accounts, at : Times]]
    /\ Queue!Init
    /\ waits = [t \in Trades |-> NoCall]
    /\ deaths = 0
    /\ mode = "healthy"
    /\ what = [c \in Calls |-> NoTrade]
    /\ pc = [c \in Calls |-> "free"]
    /\ reply = [c \in Calls |-> "failed"]

(* The worker POSTs the trade; a thread of the bank takes the request.     *)
Post(t, c) ==
    /\ status[t] = "pending" /\ waits[t] = NoCall
    /\ pc[c] = "free"
    /\ waits' = [waits EXCEPT ![t] = c]
    /\ what' = [what EXCEPT ![c] = t]
    /\ pc' = [pc EXCEPT ![c] = "received"]
    /\ UNCHANGED <<trade, queueVars, deaths, mode, reply>>

(* The delivery of t waits no longer; an answer to it goes nowhere.        *)
Leave(t) ==
    /\ waits' = [waits EXCEPT ![t] = NoCall]
    /\ IF pc[waits[t]] = "answered"
       THEN /\ pc' = [pc EXCEPT ![waits[t]] = "free"]
            /\ what' = [what EXCEPT ![waits[t]] = NoTrade]
            /\ reply' = [reply EXCEPT ![waits[t]] = "failed"]
       ELSE UNCHANGED callVars

(* The answer arrives and the worker commits the attempt.                  *)
GetAnswer(t) ==
    /\ waits[t] # NoCall
    /\ pc[waits[t]] = "answered"
    /\ Queue!AttemptAll({t}, [d \in {t} |-> reply[waits[t]]])
    /\ Leave(t)
    /\ UNCHANGED <<trade, deaths, mode>>

(* No answer within delivery_timeout_seconds, or a broken connection.      *)
TimeOut(t) ==
    /\ waits[t] # NoCall
    /\ Queue!AttemptAll({t}, [d \in {t} |-> "failed"])
    /\ Leave(t)
    /\ UNCHANGED <<trade, deaths, mode>>

(* The worker dies before it commits: the delivery is pending as before.   *)
WorkerDies(t) ==
    /\ waits[t] # NoCall
    /\ deaths < MaxDeaths
    /\ deaths' = deaths + 1
    /\ Leave(t)
    /\ UNCHANGED <<trade, queueVars, mode>>

Redrive(t) ==
    /\ Len(trail[t]) < MaxTrail
    /\ Queue!Redrive(t)
    /\ UNCHANGED <<trade, waits, deaths, mode, callVars>>

(* set_bank_mode.                                                          *)
SetMode ==
    /\ \E m \in Modes \ {mode} : mode' = m
    /\ UNCHANGED <<trade, queueVars, waits, deaths, callVars>>

FeedNext ==
    \/ \E t \in Trades :
          \/ \E c \in Calls : Post(t, c)
          \/ GetAnswer(t)
          \/ TimeOut(t)
          \/ WorkerDies(t)
          \/ Redrive(t)
    \/ SetMode

(* Variant: the thread of a call is free before its caller has the answer. *)
FinishUnread(c, o) ==
    /\ pc' = [pc EXCEPT ![c] = "free"]
    /\ what' = [what EXCEPT ![c] = NoTrade]
    /\ UNCHANGED <<trade, queueVars, waits, deaths, mode, reply>>

(* The bank is done with call c: its answer awaits the worker, or goes     *)
(* nowhere if none waits for it.                                           *)
Finish(c, o) ==
    /\ IF \E t \in Trades : waits[t] = c
       THEN /\ pc' = [pc EXCEPT ![c] = "answered"]
            /\ reply' = [reply EXCEPT ![c] = o]
            /\ UNCHANGED what
       ELSE /\ pc' = [pc EXCEPT ![c] = "free"]
            /\ what' = [what EXCEPT ![c] = NoTrade]
            /\ UNCHANGED reply
    /\ UNCHANGED <<trade, queueVars, waits, deaths, mode>>

(* The bank goes on to the next step of its handler.                       *)
GoTo(c, label) ==
    /\ pc' = [pc EXCEPT ![c] = label]
    /\ UNCHANGED <<trade, queueVars, waits, deaths, mode, what, reply>>
=============================================================================
