--------------------------- MODULE PriceProducer ----------------------------
(***************************************************************************)
(* The producer: an event loop with a task that polls prices, a task that  *)
(* trades, and a control server that fires bursts for the dashboard's      *)
(* visitors.  All of them publish through the app's API, and a visitor's   *)
(* request holds a thread of the same app while it waits for the producer. *)
(* Symbols are their places in settings.symbol_list.  An upstream answer   *)
(* may hold an amount that is a Decimal but no finite number: it passes    *)
(* parse_spot_price, and what reckons with it raises InvalidOperation,     *)
(* which none of the tasks catches.                                        *)
(***************************************************************************)
EXTENDS Integers, Sequences, FiniteSets

CONSTANTS NumSymbols,      (* the length of settings.symbol_list             *)
          Prices,          (* what a finite price can be                     *)
          ThresholdPct,    (* settings.alert_threshold_pct                   *)
          BurstCount,      (* settings.burst_count                           *)
          TradeBurstCount, (* settings.trade_burst_count                     *)
          Visitors,        (* those who press the buttons                    *)
          AppThreads,      (* the threads that serve the app's requests      *)
          MaxRestarts      (* bound: restarts of the producer                *)

ASSUME ProducerAssumption ==
    /\ NumSymbols \in Nat \ {0} /\ Prices \subseteq Nat
    /\ BurstCount \in Nat \ {0} /\ TradeBurstCount \in Nat \ {0}
    /\ AppThreads \in Nat /\ MaxRestarts \in Nat

VARIABLES
    tracker,    (* PriceTracker: the last price and the anchor of a symbol   *)
    polling,    (* the symbol at which the poll loop is, 0 while it sleeps,  *)
                (* and the events of it that it has yet to publish; or Ended *)
    trading,    (* what the trade loop does                                  *)
    visit,      (* the visitors whose request waits in a thread of the app   *)
    control,    (* what the control server does for each visitor             *)
    spoilt,     (* ghost: an amount that the poll loop got was not finite    *)
    restarts    (* ghost: how often the producer has started again           *)

producerVars == <<tracker, polling, trading, visit, control, spoilt, restarts>>

NaN == -1

Infinity == -2      (* of either sign *)

Ended == [at |-> -1, events |-> <<>>]

Symbols == 1..NumSymbols

Unobserved == [last |-> 0, anchor |-> 0]

(* PriceTracker.latest, as the set of symbols that have a price.           *)
Latest == {s \in Symbols : tracker[s] # Unobserved}

(* Of these the price is not finite.                                       *)
Poisoned == {s \in Latest : tracker[s].last \notin Prices}

(* abs(_pct_change(anchor, price)) >= threshold_pct, of a finite anchor.   *)
Moved(anchor, price) ==
    LET change == IF price > anchor THEN price - anchor ELSE anchor - price
    IN  anchor # 0 /\ (price = Infinity \/ change * 100 >= ThresholdPct * anchor)

(* observe compares the price with the last one.                           *)
Raises(s, price) == s \in Poisoned \/ (s \in Latest /\ price = NaN)

Idle == [kind |-> "none", seeds |-> {}, bad |-> {}, seed |-> 0, left |-> 0]

FreeThread == Cardinality({v \in Visitors : visit[v] # "away"}) < AppThreads

-----------------------------------------------------------------------------
ProducerInit ==
    /\ tracker = [s \in Symbols |-> Unobserved]
    /\ polling = [at |-> 1, events |-> <<>>]
    /\ trading = "asleep"
    /\ visit = [v \in Visitors |-> "away"]
    /\ control = [v \in Visitors |-> Idle]
    /\ spoilt = FALSE
    /\ restarts = 0

(* The loop goes on to the next symbol, or to sleep.                       *)
NextSymbol == [at |-> (polling.at + 1) % (NumSymbols + 1), events |-> <<>>]

WakePoll ==
    /\ polling.at = 0
    /\ polling' = NextSymbol
    /\ UNCHANGED <<tracker, trading, visit, control, spoilt, restarts>>

(* spot fails, or answers what parse_spot_price does not recognise.        *)
SkipSymbol ==
    /\ polling.at > 0 /\ polling.events = <<>>
    /\ polling' = NextSymbol
    /\ UNCHANGED <<tracker, trading, visit, control, spoilt, restarts>>

(* A price arrives, and the tracker turns it into a tick and, if it is far *)
(* enough from the anchor, an alert; or raises, and the loop's task ends.  *)
Observe ==
    /\ polling.at > 0 /\ polling.events = <<>>
    /\ \E price \in Prices \cup {NaN, Infinity} :
          LET s == polling.at
              alert == s \in Latest /\ Moved(tracker[s].anchor, price)
          IN  /\ spoilt' = (spoilt \/ price \notin Prices)
              /\ IF Raises(s, price)
                 THEN polling' = Ended /\ UNCHANGED tracker
                 ELSE /\ tracker' = [tracker EXCEPT ![s] =
                            [last   |-> price,
                             anchor |-> IF alert \/ @ = Unobserved THEN price ELSE @.anchor]]
                      /\ polling' = [polling EXCEPT !.events =
                            IF alert THEN <<"tick", "alert">> ELSE <<"tick">>]
    /\ UNCHANGED <<trading, visit, control, restarts>>

(* Variant: the client waits for an answer as long as it takes.            *)
PublishNextWaiting ==
    /\ polling.events # <<>>
    /\ FreeThread
    /\ polling' = IF Len(polling.events) = 1 THEN NextSymbol
                  ELSE [polling EXCEPT !.events = Tail(@)]
    /\ UNCHANGED <<tracker, trading, visit, control, spoilt, restarts>>

(* publish returns, whether the event was taken, refused or lost.          *)
PublishNext ==
    /\ polling.events # <<>>
    /\ polling' = IF Len(polling.events) = 1 THEN NextSymbol
                  ELSE [polling EXCEPT !.events = Tail(@)]
    /\ UNCHANGED <<tracker, trading, visit, control, spoilt, restarts>>

(* The trade loop prices a trade off one of the symbols, publishes it and  *)
(* sleeps.                                                                 *)
TradeStep ==
    /\ \/ trading = "asleep" /\ \E s \in Latest :
             trading' = IF s \in Poisoned THEN "ended" ELSE "publishing"
       \/ trading = "publishing" /\ trading' = "asleep"
    /\ UNCHANGED <<tracker, polling, visit, control, spoilt, restarts>>

(* The posts that a request is made of, given the symbols it has prices of *)
(* and those of them whose price is not finite.  A spike uses all of them, *)
(* the others draw one (a duplicate takes the one observed first).  It     *)
(* posts nothing without a price, and fails with one that is not finite.   *)
Posts(kind, latest, bad) ==
    LET all == CASE kind = "ticks"     -> BurstCount + Cardinality(latest)
                 [] kind = "trades"    -> TradeBurstCount
                 [] kind = "duplicate" -> 2
    IN  {n \in {0, all} :
            IF n = 0 THEN latest = {} \/ bad # {}
            ELSE IF kind = "ticks" THEN latest # {} /\ bad = {} ELSE latest \ bad # {}}

(* What the control server may go on with: to post what it has prices for, *)
(* or to answer with nothing.                                              *)
Fired(kind, latest, bad) ==
    {[kind |-> kind, seeds |-> latest, bad |-> bad, seed |-> 0, left |-> n] :
        n \in Posts(kind, latest, bad)}

(* Without a price it is seeded from live fetches first, but for trades.   *)
Begun(kind) ==
    IF Latest = {} /\ kind # "trades" THEN {[Idle EXCEPT !.kind = kind, !.seed = 1]}
    ELSE Fired(kind, Latest, Poisoned)

(* A visitor's request takes a thread of the app, which asks the producer. *)
Press(v) ==
    /\ visit[v] = "away" /\ control[v] = Idle
    /\ FreeThread
    /\ visit' = [visit EXCEPT ![v] = "waiting"]
    /\ \E kind \in {"ticks", "trades", "duplicate"} : \E c \in Begun(kind) :
          control' = [control EXCEPT ![v] = c]
    /\ UNCHANGED <<tracker, polling, trading, spoilt, restarts>>

(* A fetch for a request that found no price: it fails, or brings a price. *)
(* A duplicate needs only one.                                             *)
SeedOne(v) ==
    /\ control[v].seed # 0
    /\ LET c == control[v]
           next == (c.seed + 1) % (NumSymbols + 1)
       IN  \E got \in {{}, {c.seed}} : \E spoils \in SUBSET got :
              LET seeds == c.seeds \cup got
                  bad == c.bad \cup spoils
              IN  IF next = 0 \/ (c.kind = "duplicate" /\ got # {})
                  THEN \E f \in Fired(c.kind, seeds, bad) : control' = [control EXCEPT ![v] = f]
                  ELSE control' = [control EXCEPT ![v] =
                                      [c EXCEPT !.seeds = seeds, !.bad = bad, !.seed = next]]
    /\ UNCHANGED <<tracker, polling, trading, visit, spoilt, restarts>>

(* One of the posts is answered by a thread of the app, or is refused,     *)
(* lost or given up.                                                       *)
PostReturns(v) ==
    /\ control[v].left > 0
    /\ control' = [control EXCEPT ![v].left = @ - 1]
    /\ UNCHANGED <<tracker, polling, trading, visit, spoilt, restarts>>

(* All have returned: the control server answers, the visitor is shown it. *)
AnswerPress(v) ==
    /\ control[v] # Idle
    /\ control[v].seed = 0 /\ control[v].left = 0
    /\ control' = [control EXCEPT ![v] = Idle]
    /\ visit' = [visit EXCEPT ![v] = "away"]
    /\ UNCHANGED <<tracker, polling, trading, spoilt, restarts>>

(* The app gives up on the producer and shows 0: the posts go on.          *)
GiveUpPress(v) ==
    /\ visit[v] = "waiting"
    /\ visit' = [visit EXCEPT ![v] = "away"]
    /\ UNCHANGED <<tracker, polling, trading, control, spoilt, restarts>>

(* The producer stops and starts: its memory and its requests are gone.    *)
RestartProducer ==
    /\ restarts < MaxRestarts
    /\ restarts' = restarts + 1
    /\ tracker' = [s \in Symbols |-> Unobserved]
    /\ polling' = [at |-> 1, events |-> <<>>]
    /\ trading' = "asleep"
    /\ control' = [v \in Visitors |-> Idle]
    /\ spoilt' = FALSE
    /\ UNCHANGED visit

PollStep == WakePoll \/ SkipSymbol \/ Observe \/ PublishNext
ControlStep(v) == SeedOne(v) \/ PostReturns(v) \/ AnswerPress(v)

ProducerNext ==
    \/ PollStep
    \/ TradeStep
    \/ \E v \in Visitors : Press(v) \/ ControlStep(v) \/ GiveUpPress(v)
    \/ RestartProducer

(* The producer's event loop keeps running, and so do its clients' and the *)
(* app's timeouts.                                                         *)
ProducerSpec ==
    /\ ProducerInit /\ [][ProducerNext]_producerVars
    /\ WF_producerVars(PollStep)
    /\ WF_producerVars(TradeStep)
    /\ \A v \in Visitors :
          /\ WF_producerVars(ControlStep(v))
          /\ WF_producerVars(GiveUpPress(v))

-----------------------------------------------------------------------------
(* Properties.                                                             *)

(* What _poll_loop says of itself (__main__.py:57-58): "a transient        *)
(* upstream hiccup never stops the stream".  The loop goes round for ever. *)
StreamGoesOn == []<>(polling.at = 0) /\ []<>(polling.at # 0)

(* The poll loop and the trade loop go on as long as the amounts that the  *)
(* poll loop gets are finite, although their posts need the threads of the *)
(* app that visitors' requests to the producer hold (_poll_loop, publish). *)
ProducerKeepsGoing ==
    <>[]~spoilt => StreamGoesOn /\ []<>(trading = "asleep")

(* Each request that the control server takes is finished, whichever of its*)
(* fetches and posts fail, whatever prices they bring, and although the app*)
(* may have given up on it (burst, duplicate).                             *)
EveryPressEnds == \A v \in Visitors : control[v] # Idle ~> control[v] = Idle
=============================================================================
