------------------------- MODULE ExactlyOnceLedger -------------------------
(***************************************************************************)
(* What a correct bank makes of an at-least-once stream of trades, without *)
(* requests, transactions or locks: every trade is credited to its account *)
(* at most once, an account's status moves forward in event time, and only *)
(* a credited trade is acknowledged.                                       *)
(***************************************************************************)
EXTENDS Naturals

CONSTANTS Trades, Accounts, Times

VARIABLES trade,      (* the account and the time of each trade              *)
          credits,    (* how often each trade is in its account's balance    *)
          as_of,      (* the time of the trade an account's status is from   *)
          acked       (* the trades whose delivery has succeeded             *)

vars == <<trade, credits, as_of, acked>>

Init ==
    /\ trade \in [Trades -> [account : Accounts, at : Times]]
    /\ credits = [t \in Trades |-> 0]
    /\ as_of = [a \in Accounts |-> 0]
    /\ acked = {}

Apply(t) ==
    /\ credits[t] = 0
    /\ credits' = [credits EXCEPT ![t] = 1]
    /\ as_of' = [as_of EXCEPT ![trade[t].account] = IF trade[t].at > @ THEN trade[t].at ELSE @]
    /\ UNCHANGED <<trade, acked>>

Acknowledge(t) ==
    /\ credits[t] = 1
    /\ acked' = acked \cup {t}
    /\ UNCHANGED <<trade, credits, as_of>>

Next == \E t \in Trades : Apply(t) \/ Acknowledge(t)

Spec == Init /\ [][Next]_vars
=============================================================================
