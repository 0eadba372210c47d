----------------------------- MODULE NaiveBank ------------------------------
(***************************************************************************)
(* Bank A: POST /showcase/ledger/naive, which applies whatever arrives: no *)
(* processed rows, a balance read without a lock and written back after a  *)
(* pause, a status stamped in the order of arrival, a signature that is    *)
(* looked at for display only.  It is wrong on purpose; what is claimed of *)
(* it is how far each of its faults can go.                                *)
(***************************************************************************)
EXTENDS LedgerFeed

CONSTANT MaxForged    (* bound: calls that nobody's delivery has made      *)

ASSUME NaiveAssumption ==
    /\ IsFiniteSet(Calls)
    /\ MaxForged \in Nat

VARIABLES
    nontrades,    (* the events whose payload parse_trade does not recognise *)
    forgers,      (* ghost: the calls under way that no delivery has made    *)
    forgeries,    (* ghost: how many there have been                         *)
    naive,        (* the committed rows of demo_ledger_accounts              *)
    nread,        (* the credits behind the balance each call has read       *)
    nflaky,       (* the calls that have read the mode flaky                 *)
    applied,      (* ghost: how often each trade's application was committed *)
                  (* for a delivery of it                                    *)
    forged,       (* ghost: and how often for a forged call                  *)
    overlapped    (* ghost: the accounts of which a call read the balance    *)
                  (* while another was between its read and its commit       *)

ghostVars == <<applied, forged, overlapped>>
naiveVars == <<nontrades, forgers, forgeries, naive, nread, nflaky, ghostVars>>

NoCredits == [t \in Trades |-> 0]

Unopened == [opened |-> FALSE, credits |-> NoCredits, shows |-> NoTrade]

(* Between the read of the balance of account a and the commit.            *)
InGap(a) == {c \in Calls : pc[c] \in {"write", "commit"} /\ AccountOf(c) = a}

(* The calls that have inserted, or found, the row of account a.           *)
HasRow(a) == InGap(a) \cup {c \in Calls : pc[c] = "read" /\ AccountOf(c) = a}

NaiveAnswer(c) == IF c \in nflaky THEN "failed" ELSE "2xx"

-----------------------------------------------------------------------------
NaiveInit ==
    /\ FeedInit
    /\ nontrades \in SUBSET Trades
    /\ forgers = {}
    /\ forgeries = 0
    /\ naive = [a \in Accounts |-> Unopened]
    /\ nread = [c \in Calls |-> NoCredits]
    /\ nflaky = {}
    /\ applied = NoCredits
    /\ forged = NoCredits
    /\ overlapped = {}

(* What is known of a call ends with it.                                   *)
NaiveForget(c) ==
    /\ nread' = [nread EXCEPT ![c] = NoCredits]
    /\ nflaky' = nflaky \ {c}
    /\ forgers' = forgers \ {c}
    /\ UNCHANGED <<nontrades, forgeries>>

(* Anybody may POST what looks like the delivery of t: the bank does not   *)
(* hold the signature against the call, and no delivery waits for it.      *)
Forge(t, c) ==
    /\ forgeries < MaxForged
    /\ pc[c] = "free"
    /\ what' = [what EXCEPT ![c] = t]
    /\ pc' = [pc EXCEPT ![c] = "received"]
    /\ forgers' = forgers \cup {c}
    /\ forgeries' = forgeries + 1
    /\ UNCHANGED <<trade, queueVars, waits, deaths, mode, reply>>
    /\ UNCHANGED <<nontrades, naive, nread, nflaky, ghostVars>>

(* The bank is down.                                                       *)
NaiveRefuse(c) ==
    /\ pc[c] = "received"
    /\ mode = "down"
    /\ Finish(c, "failed")
    /\ NaiveForget(c)
    /\ UNCHANGED <<naive, ghostVars>>

(* The payload is not a trade: nothing is applied, and it is acknowledged  *)
(* as ever.                                                                *)
NaiveIgnore(c) ==
    /\ pc[c] = "received"
    /\ mode # "down"
    /\ what[c] \in nontrades
    /\ Finish(c, IF mode = "flaky" THEN "failed" ELSE "2xx")
    /\ NaiveForget(c)
    /\ UNCHANGED <<naive, ghostVars>>

(* The mode is read once, before the trade is touched.                     *)
NaiveAccept(c) ==
    /\ pc[c] = "received"
    /\ mode # "down"
    /\ what[c] \notin nontrades
    /\ nflaky' = IF mode = "flaky" THEN nflaky \cup {c} ELSE nflaky
    /\ GoTo(c, "ensure")
    /\ UNCHANGED <<nontrades, forgers, forgeries, naive, nread, ghostVars>>

(* _ensure_account_row waits for an open transaction that inserts the row. *)
NaiveEnsure(c) ==
    /\ pc[c] = "ensure"
    /\ naive[AccountOf(c)].opened \/ HasRow(AccountOf(c)) = {}
    /\ GoTo(c, "read")
    /\ UNCHANGED naiveVars

(* The balance is read without a lock.                                     *)
NaiveRead(c) ==
    /\ pc[c] = "read"
    /\ nread' = [nread EXCEPT ![c] = naive[AccountOf(c)].credits]
    /\ overlapped' = overlapped \cup
                        {a \in {AccountOf(c)} : InGap(a) # {}}
    /\ GoTo(c, "write")
    /\ UNCHANGED <<nontrades, forgers, forgeries, naive, nflaky, applied, forged>>

(* After the pause the UPDATE waits for the row lock of another's UPDATE.  *)
NaiveUpdate(c) ==
    /\ pc[c] = "write"
    /\ ~\E d \in InGap(AccountOf(c)) : pc[d] = "commit"
    /\ GoTo(c, "commit")
    /\ UNCHANGED naiveVars

(* The row that the UPDATE writes: what was read, and the trade.           *)
Written(c) ==
    [opened  |-> TRUE,
     credits |-> [nread[c] EXCEPT ![what[c]] = @ + 1],
     shows   |-> what[c]]

NaiveCommit(c) ==
    /\ pc[c] = "commit"
    /\ naive' = [naive EXCEPT ![AccountOf(c)] = Written(c)]
    /\ IF c \in forgers
       THEN /\ forged' = [forged EXCEPT ![what[c]] = @ + 1]
            /\ UNCHANGED applied
       ELSE /\ applied' = [applied EXCEPT ![what[c]] = @ + 1]
            /\ UNCHANGED forged
    /\ Finish(c, NaiveAnswer(c))
    /\ NaiveForget(c)
    /\ UNCHANGED overlapped

(* Variant: the UPDATE stays although its transaction fails.               *)
NaiveAbortWritten(c) ==
    /\ pc[c] \notin {"free", "answered"}
    /\ naive' = IF pc[c] = "commit" THEN [naive EXCEPT ![AccountOf(c)] = Written(c)] ELSE naive
    /\ Finish(c, "failed")
    /\ NaiveForget(c)
    /\ UNCHANGED ghostVars

(* The transaction fails or the API stops: rolled back.                    *)
NaiveAbort(c) ==
    /\ pc[c] \notin {"free", "answered"}
    /\ Finish(c, "failed")
    /\ NaiveForget(c)
    /\ UNCHANGED <<naive, ghostVars>>

NaiveHandle(c) ==
    \/ NaiveRefuse(c)
    \/ NaiveIgnore(c)
    \/ NaiveAccept(c)
    \/ NaiveEnsure(c)
    \/ NaiveRead(c)
    \/ NaiveUpdate(c)
    \/ NaiveCommit(c)

NaiveNext ==
    \/ FeedNext /\ UNCHANGED naiveVars
    \/ \E t \in Trades, c \in Calls : Forge(t, c)
    \/ \E c \in Calls : NaiveHandle(c) \/ NaiveAbort(c)

-----------------------------------------------------------------------------
(* Properties.                                                             *)

(* How far the faults of Bank A go (bank_naive_receiver,                   *)
(* apply_trade_naive), trade by trade.  Duplicates: what is credited beyond*)
(* one application costs a further POST of the delivery each, hence an     *)
(* attempt on record or a worker that died.  Forgery: every other credit is*)
(* of a forged call.  Concurrency: a credit is lost only in an account     *)
(* whose calls overlapped.  Disorder: the status shown is of some trade    *)
(* that was applied, not of the latest.  And what the platform takes for   *)
(* delivered was applied, unless it is no trade, which is never credited.  *)
NaiveFaultsExplained ==
    /\ \A t \in Trades :
          LET credits == naive[trade[t].account].credits[t]
              waiting == IF waits[t] = NoCall THEN 0 ELSE 1
          IN  /\ applied[t] <= Len(trail[t]) + waiting + deaths
              /\ credits <= applied[t] + forged[t]
              /\ trade[t].account \notin overlapped => credits = applied[t] + forged[t]
              /\ status[t] = "succeeded" => applied[t] > 0 \/ t \in nontrades
              /\ t \in nontrades => credits = 0
    /\ \A a \in Accounts :
          naive[a].opened => naive[a].shows \in {t \in Trades : applied[t] + forged[t] > 0}
=============================================================================
