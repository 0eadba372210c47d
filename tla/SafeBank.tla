------------------------------ MODULE SafeBank ------------------------------
(***************************************************************************)
(* Bank B: POST /showcase/ledger/safe, served by concurrent threads, each  *)
(* in one READ COMMITTED transaction, over the feed of LedgerFeed.         *)
(*                                                                         *)
(* What a transaction has written follows from where its call is: the      *)
(* processed row of its trade from "ensure" on, the row of an account that *)
(* nobody has opened from "lock" on.  The balance of an account is kept as *)
(* the bag of trades credited to it, so that a lost or a repeated credit   *)
(* shows; it is read and written as a whole, like the number in the code.  *)
(***************************************************************************)
EXTENDS LedgerFeed

VARIABLES
    processed,    (* the committed rows of demo_ledger_processed             *)
    account,      (* the committed rows of demo_ledger_accounts              *)
    flaky,        (* the calls that have read the mode flaky                 *)
    read          (* the account row each call has read under its lock       *)

bankVars == <<processed, account, flaky, read>>
vars == <<feedVars, bankVars>>

Row == [opened : BOOLEAN, credits : [Trades -> Nat], as_of : Nat]

NoRow == [opened |-> FALSE, credits |-> [t \in Trades |-> 0], as_of |-> 0]

(* The row of an account that earlier trades have opened, of which only    *)
(* this is kept: 0 is before all Times, and their credits are not counted. *)
EarlierRow == [NoRow EXCEPT !.opened = TRUE]

(* Variant: the status fields are stamped in the order of arrival.         *)
AppliedInArrivalOrder(row, t) ==
    [opened  |-> TRUE,
     credits |-> [row.credits EXCEPT ![t] = @ + 1],
     as_of   |-> trade[t].at]

(* The row that apply_trade_safe writes.                                   *)
Applied(row, t) ==
    [opened  |-> TRUE,
     credits |-> [row.credits EXCEPT ![t] = @ + 1],
     as_of   |-> IF trade[t].at > row.as_of THEN trade[t].at ELSE row.as_of]

(* The transactions that have inserted the processed row of t.             *)
Inserted(t) == {c \in Calls : what[c] = t /\ pc[c] \in {"ensure", "lock", "commit"}}

(* Those that have inserted, or may yet find, the row of account a.        *)
Ensured(a) == {c \in Calls : pc[c] \in {"lock", "commit"} /\ AccountOf(c) = a}

(* Those that hold the row lock of account a.                              *)
Holders(a) == {c \in Ensured(a) : pc[c] = "commit"}

(* The answer after a commit: a flaky bank withholds it.                   *)
Ack(c) == IF c \in flaky THEN "failed" ELSE "2xx"

-----------------------------------------------------------------------------
Init ==
    /\ FeedInit
    /\ processed = {}
    /\ account \in [Accounts -> {NoRow, EarlierRow}]
    /\ flaky = {}
    /\ read = [c \in Calls |-> NoRow]

(* What a call has read ends with its transaction.                         *)
Forget(c) ==
    /\ flaky' = flaky \ {c}
    /\ read' = [read EXCEPT ![c] = NoRow]

(* The bank is down, or the signature or the payload is refused.           *)
Refuse(c) ==
    /\ pc[c] = "received"
    /\ Finish(c, "failed")
    /\ UNCHANGED bankVars

(* The mode is read once, before the trade is touched.                     *)
Accept(c) ==
    /\ pc[c] = "received"
    /\ mode # "down"
    /\ flaky' = IF mode = "flaky" THEN flaky \cup {c} ELSE flaky
    /\ GoTo(c, "insert")
    /\ UNCHANGED <<processed, account, read>>

(* Variant: no processed row, every delivery is applied.                   *)
InsertAlways(c) ==
    /\ pc[c] = "insert"
    /\ GoTo(c, "ensure")
    /\ UNCHANGED bankVars

(* INSERT ... ON CONFLICT DO NOTHING waits for an open transaction that has*)
(* inserted the same event.                                                *)
InsertProcessed(c) ==
    /\ pc[c] = "insert"
    /\ what[c] \notin processed
    /\ Inserted(what[c]) = {}
    /\ GoTo(c, "ensure")
    /\ UNCHANGED bankVars

(* Variant: a row that is not yet committed counts as a duplicate.         *)
DuplicateUnwaited(c) ==
    /\ pc[c] = "insert"
    /\ what[c] \in processed \/ Inserted(what[c]) # {}
    /\ Finish(c, Ack(c))
    /\ Forget(c)
    /\ UNCHANGED <<processed, account>>

(* A conflict: "duplicate", committed and answered like an application.    *)
Duplicate(c) ==
    /\ pc[c] = "insert"
    /\ what[c] \in processed
    /\ Finish(c, Ack(c))
    /\ Forget(c)
    /\ UNCHANGED <<processed, account>>

(* _ensure_account_row waits for an open transaction that inserts the row. *)
EnsureAccount(c) ==
    /\ pc[c] = "ensure"
    /\ account[AccountOf(c)].opened \/ Ensured(AccountOf(c)) = {}
    /\ GoTo(c, "lock")
    /\ UNCHANGED bankVars

(* Variant: the balance is read without FOR UPDATE.                        *)
LockPlain(c) ==
    /\ pc[c] = "lock"
    /\ read' = [read EXCEPT ![c] = account[AccountOf(c)]]
    /\ GoTo(c, "commit")
    /\ UNCHANGED <<processed, account, flaky>>

(* Variant: making sure of the row locks it already.                       *)
LockUpserted(c) ==
    /\ pc[c] = "lock"
    /\ Ensured(AccountOf(c)) = {c}
    /\ read' = [read EXCEPT ![c] = account[AccountOf(c)]]
    /\ GoTo(c, "commit")
    /\ UNCHANGED <<processed, account, flaky>>

(* SELECT ... FOR UPDATE waits for the lock and reads what is committed.   *)
LockAccount(c) ==
    /\ pc[c] = "lock"
    /\ Holders(AccountOf(c)) = {}
    /\ read' = [read EXCEPT ![c] = account[AccountOf(c)]]
    /\ GoTo(c, "commit")
    /\ UNCHANGED <<processed, account, flaky>>

(* Processed row and balance are committed as one, then answered.          *)
Commit(c) ==
    /\ pc[c] = "commit"
    /\ processed' = processed \cup {what[c]}
    /\ account' = [account EXCEPT ![AccountOf(c)] = Applied(read[c], what[c])]
    /\ Finish(c, Ack(c))
    /\ Forget(c)

(* The transaction fails or the API stops: rolled back, never a 2xx.       *)
Abort(c) ==
    /\ pc[c] \notin {"free", "answered"}
    /\ Finish(c, "failed")
    /\ Forget(c)
    /\ UNCHANGED <<processed, account>>

-----------------------------------------------------------------------------
(* The steps of a call that nothing stops.                                 *)
Handle(c) ==
    \/ Refuse(c)
    \/ Accept(c)
    \/ InsertProcessed(c)
    \/ Duplicate(c)
    \/ EnsureAccount(c)
    \/ LockAccount(c)
    \/ Commit(c)

Next ==
    \/ FeedNext /\ UNCHANGED bankVars
    \/ \E c \in Calls : Handle(c) \/ Abort(c)

Spec == Init /\ [][Next]_vars

(* The threads of the API keep running, and a worker that waits for an     *)
(* answered call takes the answer unless its timeout came first.           *)
FairSpec ==
    /\ Spec
    /\ \A c \in Calls : WF_vars(Handle(c))
    /\ \A t \in Trades : WF_vars(GetAnswer(t) /\ UNCHANGED bankVars)

-----------------------------------------------------------------------------
(* Properties.                                                             *)

(* The types of the variables, and what ties a waiting delivery to its call*)
TypeOK ==
    /\ trade \in [Trades -> [account : Accounts, at : Times]]
    /\ status \in [Trades -> {"pending", "succeeded", "dead_lettered"}]
    /\ trail \in [Trades -> Seq({"2xx", "failed", "blocked"})]
    /\ waits \in [Trades -> Calls \cup {NoCall}]
    /\ deaths \in Nat
    /\ mode \in Modes
    /\ what \in [Calls -> Trades \cup {NoTrade}]
    /\ pc \in [Calls -> {"free", "received", "insert", "ensure", "lock", "commit", "answered"}]
    /\ reply \in [Calls -> {"2xx", "failed"}]
    /\ processed \subseteq Trades
    /\ account \in [Accounts -> Row]
    /\ flaky \subseteq Calls
    /\ read \in [Calls -> Row]
    /\ \A c \in Calls : pc[c] = "free" <=> what[c] = NoTrade
    /\ \A t \in Trades : waits[t] # NoCall => what[waits[t]] = t

(* The balance of an account is that of the trades in processed, each once:*)
(* apply_trade_safe's "processed" and "applied" never disagree, whatever is*)
(* repeated, overlaps, overtakes or is rolled back.                        *)
CreditedOnce ==
    \A a \in Accounts :
        account[a].credits =
            [t \in Trades |-> IF t \in processed /\ trade[t].account = a THEN 1 ELSE 0]

(* status_as_of is the latest executed_at of what has been applied: a late *)
(* retry never overwrites fresher state.                                   *)
StatusIsLatest ==
    \A a \in Accounts :
        LET times == {trade[t].at : t \in {u \in processed : trade[u].account = a}}
        IN  /\ \A n \in times : n <= account[a].as_of
            /\ account[a].as_of \in times \cup {0}

(* The platform takes a trade for delivered only if the bank has applied   *)
(* it, for good: an answer 2xx, to the applying call or to a duplicate of  *)
(* it, comes after the commit of the balance.                              *)
AckedIsApplied == \A t \in Trades : status[t] = "succeeded" => t \in processed

(* Concurrent calls never wait for each other in a circle: each request the*)
(* bank has received ends (the unique keys and row locks of                *)
(* apply_trade_safe are taken in one order).                               *)
EveryCallEnds == \A c \in Calls : pc[c] # "free" ~> pc[c] = "free"

Ledger == INSTANCE ExactlyOnceLedger WITH
    credits <- [t \in Trades |-> account[trade[t].account].credits[t]],
    as_of   <- [a \in Accounts |-> account[a].as_of],
    acked   <- {t \in Trades : status[t] = "succeeded"}

(* Over at-least-once delivery, Bank B is an exactly-once ledger.          *)
ImplementsLedger == Ledger!Spec
=============================================================================
