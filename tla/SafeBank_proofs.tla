--------------------------- MODULE SafeBank_proofs ---------------------------
(***************************************************************************)
(* Proofs about SafeBank for every set of trades, accounts, times and      *)
(* calls.                                                                  *)
(***************************************************************************)
EXTENDS SafeBank, TLAPS

-----------------------------------------------------------------------------
(* The feed, whatever the bank it feeds: Labels are the places of a call in*)
(* the handler of that bank.                                               *)

FeedTypes(Labels) ==
    /\ trade \in [Trades -> [account : Accounts, at : Times]]
    /\ status \in [Trades -> {"pending", "succeeded", "dead_lettered"}]
    /\ trail \in [Trades -> Seq({"2xx", "failed", "blocked"})]
    /\ waits \in [Trades -> Calls \cup {NoCall}]
    /\ deaths \in Nat
    /\ mode \in Modes
    /\ what \in [Calls -> Trades \cup {NoTrade}]
    /\ pc \in [Calls -> Labels]
    /\ reply \in [Calls -> {"2xx", "failed"}]
    /\ \A c \in Calls : pc[c] = "free" <=> what[c] = NoTrade
    /\ \A t \in Trades : waits[t] # NoCall => what[waits[t]] = t

(* What a delivery can be acknowledged by.                                 *)
AnsweredFor(t) == \E c \in Calls : what[c] = t /\ pc[c] = "answered" /\ reply[c] = "2xx"

(* What a step of the feed may do: to the calls, and to the status of t.   *)
CallsFed ==
    \A c \in Calls :
        \/ pc'[c] = "free" /\ what'[c] = NoTrade
        \/ /\ pc[c] = "free" /\ pc'[c] = "received"
           /\ what'[c] \in Trades /\ waits'[what'[c]] # NoCall
        \/ pc'[c] = pc[c] /\ what'[c] = what[c] /\ reply'[c] = reply[c]

StatusFed(t) ==
    /\ status'[t] = "succeeded" => status[t] = "succeeded" \/ AnsweredFor(t)
    /\ waits[t] = NoCall /\ status[t] = "pending" => status'[t] = "pending"

(* What Leave does to the calls.                                           *)
LEMMA LeaveShape ==
    ASSUME NEW Labels, "free" \in Labels, FeedTypes(Labels),
           NEW t \in Trades, waits[t] # NoCall, Leave(t),
           status' \in [Trades -> {"pending", "succeeded", "dead_lettered"}],
           trail' \in [Trades -> Seq({"2xx", "failed", "blocked"})],
           deaths' \in Nat, UNCHANGED <<trade, mode>>
    PROVE  FeedTypes(Labels)' /\ CallsFed
<1> DEFINE c == waits[t]
<1>1. c \in Calls /\ what[c] = t
  BY DEF FeedTypes
<1>2. \A u \in Trades : waits'[u] # NoCall => waits'[u] = waits[u] /\ waits[u] # c
  BY <1>1 DEF Leave, FeedTypes
<1>3. waits' \in [Trades -> Calls \cup {NoCall}]
  BY DEF Leave, FeedTypes
<1>4. CASE pc[c] = "answered"
  <2>1. /\ pc' = [pc EXCEPT ![c] = "free"]
        /\ what' = [what EXCEPT ![c] = NoTrade]
        /\ reply' = [reply EXCEPT ![c] = "failed"]
    BY <1>4 DEF Leave
  <2>2. /\ what' \in [Calls -> Trades \cup {NoTrade}]
        /\ pc' \in [Calls -> Labels]
        /\ reply' \in [Calls -> {"2xx", "failed"}]
    BY <1>1, <2>1 DEF FeedTypes
  <2>3. pc'[c] = "free" /\ what'[c] = NoTrade
    BY <1>1, <2>1 DEF FeedTypes
  <2>4. \A b \in Calls \ {c} : pc'[b] = pc[b] /\ what'[b] = what[b] /\ reply'[b] = reply[b]
    BY <1>1, <2>1 DEF FeedTypes
  <2>5. \A b \in Calls : pc'[b] = "free" <=> what'[b] = NoTrade
    BY <2>3, <2>4 DEF FeedTypes
  <2>6. \A u \in Trades : waits'[u] # NoCall => what'[waits'[u]] = u
    BY <1>2, <1>3, <2>4 DEF FeedTypes
  <2>7. CallsFed
    BY <2>3, <2>4 DEF CallsFed
  <2>8. QED
    BY <1>3, <2>2, <2>5, <2>6, <2>7 DEF FeedTypes
<1>5. CASE pc[c] # "answered"
  <2>1. UNCHANGED <<what, pc, reply>>
    BY <1>5 DEF Leave, callVars
  <2>2. \A u \in Trades : waits'[u] # NoCall => what'[waits'[u]] = u
    BY <1>2, <2>1 DEF FeedTypes
  <2>3. CallsFed
    BY <2>1 DEF CallsFed
  <2>4. QED
    BY <1>3, <2>1, <2>2, <2>3 DEF FeedTypes
<1>6. QED
  BY <1>4, <1>5

(* The queue's step for one delivery.                                      *)
LEMMA AttemptShape ==
    ASSUME NEW Labels, FeedTypes(Labels), NEW t \in Trades, NEW o \in {"2xx", "failed"},
           Queue!AttemptAll({t}, [d \in {t} |-> o])
    PROVE  /\ status' \in [Trades -> {"pending", "succeeded", "dead_lettered"}]
           /\ trail' \in [Trades -> Seq({"2xx", "failed", "blocked"})]
           /\ status[t] = "pending"
           /\ \A u \in Trades \ {t} : status'[u] = status[u]
           /\ status'[t] = "succeeded" <=> o = "2xx"
<1>1. status' = [u \in Trades |->
                    IF u = t THEN Queue!After(o, Len(trail[t]) + 1) ELSE status[u]]
  BY DEF Queue!AttemptAll
<1>2. trail' = [u \in Trades |-> IF u = t THEN Append(trail[t], o) ELSE trail[u]]
  BY DEF Queue!AttemptAll
<1>3. Queue!After(o, Len(trail[t]) + 1) \in {"pending", "succeeded", "dead_lettered"}
  BY DEF Queue!After
<1>4. Queue!After(o, Len(trail[t]) + 1) = "succeeded" <=> o = "2xx"
  BY DEF Queue!After
<1>5. status' \in [Trades -> {"pending", "succeeded", "dead_lettered"}]
  BY <1>1, <1>3 DEF FeedTypes
<1>6. trail' \in [Trades -> Seq({"2xx", "failed", "blocked"})]
  <2>1. Append(trail[t], o) \in Seq({"2xx", "failed", "blocked"})
    BY DEF FeedTypes
  <2>2. QED
    BY <1>2, <2>1 DEF FeedTypes
<1>7. status[t] = "pending"
  BY DEF Queue!AttemptAll
<1>8. QED
  BY <1>1, <1>4, <1>5, <1>6, <1>7

LEMMA FeedShape ==
    ASSUME NEW Labels, {"free", "received"} \subseteq Labels, FeedTypes(Labels), FeedNext
    PROVE  /\ FeedTypes(Labels)' /\ UNCHANGED trade
           /\ CallsFed /\ \A t \in Trades : StatusFed(t)
<1> DEFINE Goal == /\ FeedTypes(Labels)' /\ UNCHANGED trade
                   /\ CallsFed /\ \A t \in Trades : StatusFed(t)
<1>1. ASSUME NEW t \in Trades, NEW c \in Calls, Post(t, c) PROVE Goal
  <2>1. /\ pc[c] = "free" /\ what[c] = NoTrade /\ waits[t] = NoCall
        /\ waits' = [waits EXCEPT ![t] = c]
        /\ what' = [what EXCEPT ![c] = t]
        /\ pc' = [pc EXCEPT ![c] = "received"]
        /\ UNCHANGED <<trade, status, trail, deaths, mode, reply>>
    BY <1>1 DEF Post, FeedTypes, queueVars
  <2>2. FeedTypes(Labels)'
    BY <2>1, FeedAssumption DEF FeedTypes
  <2>3. \A b \in Calls \ {c} : pc'[b] = pc[b] /\ what'[b] = what[b] /\ reply'[b] = reply[b]
    BY <2>1 DEF FeedTypes
  <2>4. pc'[c] = "received" /\ what'[c] = t /\ waits'[t] # NoCall
    BY <2>1, FeedAssumption DEF FeedTypes
  <2>5. CallsFed
    BY <2>1, <2>3, <2>4 DEF CallsFed
  <2>6. \A u \in Trades : StatusFed(u)
    BY <2>1 DEF StatusFed
  <2>7. QED
    BY <2>1, <2>2, <2>5, <2>6
<1>2. ASSUME NEW t \in Trades, NEW o \in {"2xx", "failed"}, waits[t] # NoCall, Leave(t),
             Queue!AttemptAll({t}, [d \in {t} |-> o]), o = "2xx" => AnsweredFor(t),
             UNCHANGED <<trade, deaths, mode>>
      PROVE  Goal
  <2>1. /\ status' \in [Trades -> {"pending", "succeeded", "dead_lettered"}]
        /\ trail' \in [Trades -> Seq({"2xx", "failed", "blocked"})]
        /\ \A u \in Trades \ {t} : status'[u] = status[u]
        /\ status'[t] = "succeeded" <=> o = "2xx"
    BY <1>2, AttemptShape
  <2>2. deaths' \in Nat
    BY <1>2 DEF FeedTypes
  <2>3. FeedTypes(Labels)' /\ CallsFed
    BY <1>2, <2>1, <2>2, LeaveShape
  <2>4. \A u \in Trades : StatusFed(u)
    BY <1>2, <2>1 DEF StatusFed
  <2>5. QED
    BY <1>2, <2>3, <2>4
<1>3. ASSUME NEW t \in Trades, GetAnswer(t) PROVE Goal
  <2>1. /\ waits[t] \in Calls /\ what[waits[t]] = t
        /\ pc[waits[t]] = "answered" /\ reply[waits[t]] \in {"2xx", "failed"}
    BY <1>3 DEF GetAnswer, FeedTypes
  <2>2. PICK o \in {"2xx", "failed"} : o = reply[waits[t]]
    BY <2>1
  <2>3. o = "2xx" => AnsweredFor(t)
    BY <2>1, <2>2 DEF AnsweredFor
  <2>4. /\ waits[t] # NoCall /\ Leave(t) /\ UNCHANGED <<trade, deaths, mode>>
        /\ Queue!AttemptAll({t}, [d \in {t} |-> o])
    BY <1>3, <2>2 DEF GetAnswer
  <2>5. QED
    BY <1>2, <2>3, <2>4
<1>4. ASSUME NEW t \in Trades, TimeOut(t) PROVE Goal
  <2>1. PICK o \in {"2xx", "failed"} : o = "failed"
    OBVIOUS
  <2>2. /\ waits[t] # NoCall /\ Leave(t) /\ UNCHANGED <<trade, deaths, mode>>
        /\ Queue!AttemptAll({t}, [d \in {t} |-> o])
    BY <1>4, <2>1 DEF TimeOut
  <2>3. QED
    BY <1>2, <2>1, <2>2
<1>5. ASSUME NEW t \in Trades, WorkerDies(t) PROVE Goal
  <2>1. /\ waits[t] # NoCall /\ Leave(t) /\ deaths' = deaths + 1
        /\ UNCHANGED <<trade, status, trail, mode>>
    BY <1>5 DEF WorkerDies, queueVars
  <2>2. /\ status' \in [Trades -> {"pending", "succeeded", "dead_lettered"}]
        /\ trail' \in [Trades -> Seq({"2xx", "failed", "blocked"})]
        /\ deaths' \in Nat
    BY <2>1 DEF FeedTypes
  <2>3. FeedTypes(Labels)' /\ CallsFed
    BY <2>1, <2>2, LeaveShape
  <2>4. \A u \in Trades : StatusFed(u)
    BY <2>1 DEF StatusFed
  <2>5. QED
    BY <2>1, <2>3, <2>4
<1>6. ASSUME NEW t \in Trades, Redrive(t) PROVE Goal
  <2>1. /\ status[t] = "dead_lettered" /\ status' = [status EXCEPT ![t] = "pending"]
        /\ UNCHANGED <<trade, trail, waits, deaths, mode, what, pc, reply>>
    BY <1>6 DEF Redrive, Queue!Redrive, callVars
  <2>2. FeedTypes(Labels)'
    BY <2>1 DEF FeedTypes
  <2>3. CallsFed
    BY <2>1 DEF CallsFed
  <2>4. \A u \in Trades : StatusFed(u)
    BY <2>1 DEF StatusFed, FeedTypes
  <2>5. QED
    BY <2>1, <2>2, <2>3, <2>4
<1>7. ASSUME SetMode PROVE Goal
  <2>1. mode' \in Modes /\ UNCHANGED <<trade, status, trail, waits, deaths, what, pc, reply>>
    BY <1>7 DEF SetMode, queueVars, callVars
  <2>2. FeedTypes(Labels)'
    BY <2>1 DEF FeedTypes
  <2>3. CallsFed
    BY <2>1 DEF CallsFed
  <2>4. \A u \in Trades : StatusFed(u)
    BY <2>1 DEF StatusFed
  <2>5. QED
    BY <2>1, <2>2, <2>3, <2>4
<1>8. QED
  BY <1>1, <1>3, <1>4, <1>5, <1>6, <1>7 DEF FeedNext

(* What the end of a call does to the calls.                               *)
LEMMA FinishShape ==
    ASSUME NEW Labels, {"free", "answered"} \subseteq Labels, FeedTypes(Labels),
           NEW c \in Calls, pc[c] # "free", NEW o \in {"2xx", "failed"}, Finish(c, o)
    PROVE  /\ FeedTypes(Labels)'
           /\ UNCHANGED <<trade, status, trail, waits, deaths, mode>>
           /\ \A b \in Calls \ {c} :
                 pc'[b] = pc[b] /\ what'[b] = what[b] /\ reply'[b] = reply[b]
           /\ \/ pc'[c] = "free" /\ what'[c] = NoTrade
              \/ pc'[c] = "answered" /\ what'[c] = what[c] /\ reply'[c] = o
<1>1. UNCHANGED <<trade, status, trail, waits, deaths, mode>>
  BY DEF Finish, queueVars
<1>2. CASE \E t \in Trades : waits[t] = c
  <2>1. /\ pc' = [pc EXCEPT ![c] = "answered"]
        /\ reply' = [reply EXCEPT ![c] = o]
        /\ what' = what
    BY <1>2 DEF Finish
  <2>2. QED
    BY <1>1, <2>1 DEF FeedTypes
<1>3. CASE \A t \in Trades : waits[t] # c
  <2>1. /\ pc' = [pc EXCEPT ![c] = "free"]
        /\ what' = [what EXCEPT ![c] = NoTrade]
        /\ reply' = reply
    BY <1>3 DEF Finish
  <2>2. \A u \in Trades : waits[u] # NoCall => what'[waits[u]] = u
    BY <1>3, <2>1 DEF FeedTypes
  <2>3. QED
    BY <1>1, <2>1, <2>2 DEF FeedTypes
<1>4. QED
  BY <1>2, <1>3

(* A call that goes on.                                                    *)
LEMMA GoToTypes ==
    ASSUME NEW Labels, FeedTypes(Labels), NEW c \in Calls, pc[c] # "free",
           NEW l \in Labels \ {"free"}, GoTo(c, l)
    PROVE  /\ FeedTypes(Labels)'
           /\ UNCHANGED <<trade, status, trail, waits, deaths, mode, what, reply>>
           /\ pc' = [pc EXCEPT ![c] = l]
<1>1. /\ pc' = [pc EXCEPT ![c] = l]
      /\ UNCHANGED <<trade, status, trail, waits, deaths, mode, what, reply>>
  BY DEF GoTo, queueVars
<1>2. QED
  BY <1>1 DEF FeedTypes

-----------------------------------------------------------------------------
(* Bank B.                                                                 *)

SafeLabels == {"free", "received", "insert", "ensure", "lock", "commit", "answered"}

Writing == {"ensure", "lock", "commit"}

(* What an open transaction relies on: nobody else has processed its trade *)
(* or is about to; what it has read under the row lock is still committed, *)
(* and nobody else holds that lock.  A 2xx that is under way is of a trade *)
(* that has been processed.                                                *)
Guarded ==
    \A c \in Calls :
        /\ pc[c] \in Writing =>
              /\ what[c] \notin processed
              /\ \A b \in Calls : pc[b] \in Writing /\ what[b] = what[c] => b = c
        /\ pc[c] = "commit" =>
              /\ read[c] = account[AccountOf(c)]
              /\ \A b \in Calls : pc[b] = "commit" /\ AccountOf(b) = AccountOf(c) => b = c
        /\ pc[c] = "answered" /\ reply[c] = "2xx" => what[c] \in processed

(* The inductive invariant.                                                *)
IInv ==
    /\ TypeOK
    /\ Guarded
    /\ CreditedOnce
    /\ StatusIsLatest
    /\ AckedIsApplied

-----------------------------------------------------------------------------
LEMMA RowTypes == NoRow \in Row /\ EarlierRow \in Row
  BY DEF Row, NoRow, EarlierRow

LEMMA InitIInv == Init => IInv
<1> SUFFICES ASSUME Init PROVE IInv
  OBVIOUS
<1> USE FeedAssumption DEF Init, FeedInit, Queue!Init
<1>1. TypeOK
  BY RowTypes DEF TypeOK, Modes
<1>2. Guarded
  BY DEF Guarded, Writing
<1>3. CreditedOnce
  BY DEF CreditedOnce, NoRow, EarlierRow
<1>4. StatusIsLatest
  BY DEF StatusIsLatest, NoRow, EarlierRow
<1>5. AckedIsApplied
  BY DEF AckedIsApplied
<1>6. QED
  BY <1>1, <1>2, <1>3, <1>4, <1>5 DEF IInv

(* A step that writes nothing to the bank's tables and takes no call into a*)
(* transaction keeps the invariant, if the types and the acknowledged      *)
(* deliveries are right.                                                   *)
LEMMA QuietStep ==
    ASSUME IInv, TypeOK', AckedIsApplied',
           UNCHANGED <<trade, processed, account>>,
           \A c \in Calls :
               \/ pc'[c] \notin {"ensure", "lock", "commit", "answered"}
               \/ /\ pc'[c] = pc[c] /\ what'[c] = what[c]
                  /\ reply'[c] = reply[c] /\ read'[c] = read[c]
               \/ /\ pc'[c] = "answered" /\ what'[c] = what[c]
                  /\ reply'[c] = "2xx" => what[c] \in processed
    PROVE  IInv'
<1>1. Guarded'
  BY DEF IInv, Guarded, Writing, AccountOf
<1>2. CreditedOnce' /\ StatusIsLatest'
  BY DEF IInv, CreditedOnce, StatusIsLatest
<1>3. QED
  BY <1>1, <1>2 DEF IInv

LEMMA TypeOKFeeds == TypeOK => FeedTypes(SafeLabels)
  BY DEF TypeOK, FeedTypes, SafeLabels

LEMMA FeedKeeps == ASSUME IInv, FeedNext, UNCHANGED bankVars PROVE IInv'
<1>1. /\ FeedTypes(SafeLabels)' /\ UNCHANGED trade
      /\ CallsFed /\ \A t \in Trades : StatusFed(t)
  BY FeedShape, TypeOKFeeds DEF IInv, SafeLabels
<1>2. UNCHANGED <<processed, account, flaky, read>>
  BY DEF bankVars
<1>3. TypeOK'
  BY <1>1, <1>2 DEF IInv, TypeOK, FeedTypes, SafeLabels
<1>4. AckedIsApplied'
  BY <1>1, <1>2 DEF IInv, AckedIsApplied, Guarded, StatusFed, AnsweredFor
<1>5. \A c \in Calls :
          \/ pc'[c] \in {"free", "received"}
          \/ /\ pc'[c] = pc[c] /\ what'[c] = what[c]
             /\ reply'[c] = reply[c] /\ read'[c] = read[c]
  BY <1>1, <1>2 DEF CallsFed
<1>6. QED
  BY <1>1, <1>2, <1>3, <1>4, <1>5, QuietStep

-----------------------------------------------------------------------------
(* The transactions of the bank.                                           *)

LEMMA ForgetTypes ==
    ASSUME IInv, NEW c \in Calls, Forget(c)
    PROVE  /\ flaky' \subseteq Calls /\ read' \in [Calls -> Row]
           /\ \A b \in Calls \ {c} : read'[b] = read[b]
  BY RowTypes DEF Forget, IInv, TypeOK

(* A call that ends without writing anything.                              *)
LEMMA FinishKeeps ==
    ASSUME IInv, NEW c \in Calls, pc[c] # "free", NEW o \in {"2xx", "failed"}, Finish(c, o),
           o = "2xx" => what[c] \in processed,
           flaky' \subseteq Calls, read' \in [Calls -> Row],
           \A b \in Calls \ {c} : read'[b] = read[b],
           UNCHANGED <<processed, account>>
    PROVE  IInv'
<1>1. /\ FeedTypes(SafeLabels)'
      /\ UNCHANGED <<trade, status, trail, waits, deaths, mode>>
      /\ \A b \in Calls \ {c} :
            pc'[b] = pc[b] /\ what'[b] = what[b] /\ reply'[b] = reply[b]
      /\ \/ pc'[c] = "free"
         \/ pc'[c] = "answered" /\ what'[c] = what[c] /\ reply'[c] = o
  BY FinishShape, TypeOKFeeds DEF IInv, SafeLabels
<1>2. TypeOK'
  BY <1>1 DEF IInv, TypeOK, FeedTypes, SafeLabels
<1>3. AckedIsApplied'
  BY <1>1 DEF IInv, AckedIsApplied
<1>4. \A b \in Calls :
          \/ pc'[b] \notin {"ensure", "lock", "commit", "answered"}
          \/ /\ pc'[b] = pc[b] /\ what'[b] = what[b]
             /\ reply'[b] = reply[b] /\ read'[b] = read[b]
          \/ /\ pc'[b] = "answered" /\ what'[b] = what[b]
             /\ reply'[b] = "2xx" => what[b] \in processed
  BY <1>1
<1>5. QED
  BY <1>1, <1>2, <1>3, <1>4, QuietStep

LEMMA RefuseKeeps == ASSUME IInv, NEW c \in Calls, Refuse(c) PROVE IInv'
<1>1. /\ pc[c] # "free" /\ Finish(c, "failed") /\ "failed" \in {"2xx", "failed"}
      /\ UNCHANGED <<processed, account, flaky, read>>
  BY DEF Refuse, bankVars
<1>2. flaky' \subseteq Calls /\ read' \in [Calls -> Row]
  BY <1>1 DEF IInv, TypeOK
<1>3. QED
  BY <1>1, <1>2, FinishKeeps

LEMMA AbortKeeps == ASSUME IInv, NEW c \in Calls, Abort(c) PROVE IInv'
<1>1. /\ pc[c] # "free" /\ Finish(c, "failed") /\ "failed" \in {"2xx", "failed"}
      /\ Forget(c) /\ UNCHANGED <<processed, account>>
  BY DEF Abort
<1>2. QED
  BY <1>1, ForgetTypes, FinishKeeps

LEMMA DuplicateKeeps == ASSUME IInv, NEW c \in Calls, Duplicate(c) PROVE IInv'
<1>1. /\ pc[c] # "free" /\ Finish(c, Ack(c)) /\ Ack(c) \in {"2xx", "failed"}
      /\ what[c] \in processed /\ Forget(c) /\ UNCHANGED <<processed, account>>
  BY DEF Duplicate, Ack
<1>2. QED
  BY <1>1, ForgetTypes, FinishKeeps

(* A call that goes on: the types, and what it leaves alone.               *)
LEMMA GoToShape ==
    ASSUME IInv, NEW c \in Calls, pc[c] # "free",
           NEW l \in {"insert", "ensure", "lock", "commit"}, GoTo(c, l),
           flaky' \subseteq Calls, read' \in [Calls -> Row],
           UNCHANGED <<processed, account>>
    PROVE  /\ TypeOK' /\ AckedIsApplied' /\ CreditedOnce' /\ StatusIsLatest'
           /\ pc' = [pc EXCEPT ![c] = l]
           /\ UNCHANGED <<trade, what, reply>>
<1>1. /\ pc' = [pc EXCEPT ![c] = l]
      /\ UNCHANGED <<trade, status, trail, waits, deaths, mode, what, reply>>
  BY DEF GoTo, queueVars
<1>2. TypeOK'
  BY <1>1 DEF IInv, TypeOK
<1>3. AckedIsApplied' /\ CreditedOnce' /\ StatusIsLatest'
  BY <1>1 DEF IInv, AckedIsApplied, CreditedOnce, StatusIsLatest
<1>4. QED
  BY <1>1, <1>2, <1>3

LEMMA AcceptKeeps == ASSUME IInv, NEW c \in Calls, Accept(c) PROVE IInv'
<1>1. /\ pc[c] # "free" /\ GoTo(c, "insert") /\ UNCHANGED <<processed, account, read>>
      /\ flaky' \subseteq Calls /\ read' \in [Calls -> Row]
  BY DEF Accept, IInv, TypeOK
<1>2. /\ TypeOK' /\ AckedIsApplied'
      /\ pc' = [pc EXCEPT ![c] = "insert"] /\ UNCHANGED <<trade, what, reply>>
  BY <1>1, GoToShape
<1>3. \A b \in Calls :
          \/ pc'[b] = "insert"
          \/ /\ pc'[b] = pc[b] /\ what'[b] = what[b]
             /\ reply'[b] = reply[b] /\ read'[b] = read[b]
  BY <1>1, <1>2 DEF IInv, TypeOK
<1>4. QED
  BY <1>1, <1>2, <1>3, QuietStep

LEMMA InsertKeeps == ASSUME IInv, NEW c \in Calls, InsertProcessed(c) PROVE IInv'
<1>1. /\ pc[c] = "insert" /\ GoTo(c, "ensure") /\ UNCHANGED <<processed, account, flaky, read>>
      /\ flaky' \subseteq Calls /\ read' \in [Calls -> Row]
      /\ what[c] \notin processed
      /\ \A b \in Calls : ~(what[b] = what[c] /\ pc[b] \in Writing)
  BY DEF InsertProcessed, bankVars, Inserted, Writing, IInv, TypeOK
<1>2. /\ TypeOK' /\ AckedIsApplied' /\ CreditedOnce' /\ StatusIsLatest'
      /\ pc' = [pc EXCEPT ![c] = "ensure"] /\ UNCHANGED <<trade, what, reply>>
  BY <1>1, GoToShape
<1>3. /\ pc'[c] = "ensure"
      /\ \A b \in Calls \ {c} : pc'[b] = pc[b]
  BY <1>2 DEF IInv, TypeOK
<1>4. Guarded'
  BY <1>1, <1>2, <1>3 DEF IInv, Guarded, Writing, AccountOf
<1>5. QED
  BY <1>2, <1>4 DEF IInv

LEMMA EnsureKeeps == ASSUME IInv, NEW c \in Calls, EnsureAccount(c) PROVE IInv'
<1>1. /\ pc[c] = "ensure" /\ GoTo(c, "lock") /\ UNCHANGED <<processed, account, flaky, read>>
      /\ flaky' \subseteq Calls /\ read' \in [Calls -> Row]
  BY DEF EnsureAccount, bankVars, IInv, TypeOK
<1>2. /\ TypeOK' /\ AckedIsApplied' /\ CreditedOnce' /\ StatusIsLatest'
      /\ pc' = [pc EXCEPT ![c] = "lock"] /\ UNCHANGED <<trade, what, reply>>
  BY <1>1, GoToShape
<1>3. /\ pc'[c] = "lock"
      /\ \A b \in Calls \ {c} : pc'[b] = pc[b]
  BY <1>2 DEF IInv, TypeOK
<1>4. Guarded'
  BY <1>1, <1>2, <1>3 DEF IInv, Guarded, Writing, AccountOf
<1>5. QED
  BY <1>2, <1>4 DEF IInv

LEMMA LockKeeps == ASSUME IInv, NEW c \in Calls, LockAccount(c) PROVE IInv'
<1> DEFINE a == AccountOf(c)
<1>1. /\ pc[c] = "lock" /\ GoTo(c, "commit") /\ UNCHANGED <<processed, account, flaky>>
      /\ \A b \in Calls : ~(pc[b] = "commit" /\ AccountOf(b) = a)
      /\ read' = [read EXCEPT ![c] = account[a]]
  BY DEF LockAccount, Holders, Ensured
<1>2. what[c] \in Trades /\ a \in Accounts
  BY <1>1 DEF IInv, TypeOK, AccountOf
<1>3. flaky' \subseteq Calls /\ read' \in [Calls -> Row]
  BY <1>1, <1>2 DEF IInv, TypeOK
<1>4. /\ TypeOK' /\ AckedIsApplied' /\ CreditedOnce' /\ StatusIsLatest'
      /\ pc' = [pc EXCEPT ![c] = "commit"] /\ UNCHANGED <<trade, what, reply>>
  BY <1>1, <1>3, GoToShape
<1>5. /\ pc'[c] = "commit" /\ read'[c] = account[a]
      /\ \A b \in Calls \ {c} : pc'[b] = pc[b] /\ read'[b] = read[b]
  BY <1>1, <1>4 DEF IInv, TypeOK
<1>6. Guarded'
  BY <1>1, <1>4, <1>5 DEF IInv, Guarded, Writing, AccountOf
<1>7. QED
  BY <1>4, <1>6 DEF IInv

(* What a commit does to the tables.                                       *)
LEMMA CommitShape ==
    ASSUME IInv, NEW c \in Calls, Commit(c)
    PROVE  /\ pc[c] = "commit" /\ what[c] \in Trades /\ AccountOf(c) \in Accounts
           /\ what[c] \notin processed /\ processed' = processed \cup {what[c]}
           /\ account' = [account EXCEPT ![AccountOf(c)] =
                                Applied(account[AccountOf(c)], what[c])]
           /\ UNCHANGED <<trade, status, trail, waits, deaths, mode>>
<1>1. pc[c] = "commit" /\ what[c] \in Trades /\ AccountOf(c) \in Accounts
  BY DEF Commit, IInv, TypeOK, AccountOf
<1>2. what[c] \notin processed /\ read[c] = account[AccountOf(c)]
  BY <1>1 DEF IInv, Guarded, Writing
<1>3. /\ processed' = processed \cup {what[c]}
      /\ account' = [account EXCEPT ![AccountOf(c)] = Applied(read[c], what[c])]
  BY DEF Commit
<1>4. UNCHANGED <<trade, status, trail, waits, deaths, mode>>
  BY DEF Commit, Finish, queueVars
<1>5. QED
  BY <1>1, <1>2, <1>3, <1>4

LEMMA AppliedFields ==
    ASSUME TypeOK, NEW row \in Row, NEW t \in Trades
    PROVE  /\ Applied(row, t) \in Row
           /\ Applied(row, t).credits = [row.credits EXCEPT ![t] = @ + 1]
           /\ Applied(row, t).as_of = IF trade[t].at > row.as_of THEN trade[t].at ELSE row.as_of
<1>1. trade[t].at \in Nat
  BY FeedAssumption DEF TypeOK
<1>2. row.credits \in [Trades -> Nat] /\ row.as_of \in Nat
  BY DEF Row
<1>3. [row.credits EXCEPT ![t] = @ + 1] \in [Trades -> Nat]
  BY <1>2
<1>4. (IF trade[t].at > row.as_of THEN trade[t].at ELSE row.as_of) \in Nat
  BY <1>1, <1>2
<1>5. QED
  BY <1>3, <1>4 DEF Applied, Row

LEMMA CommitKeeps == ASSUME IInv, NEW c \in Calls, Commit(c) PROVE IInv'
<1> DEFINE t == what[c]
           a == AccountOf(c)
<1>1. /\ pc[c] = "commit" /\ t \in Trades /\ a \in Accounts /\ trade[t].account = a
      /\ t \notin processed /\ processed' = processed \cup {t}
      /\ account' = [account EXCEPT ![a] = Applied(account[a], t)]
      /\ UNCHANGED <<trade, status, trail, waits, deaths, mode>>
  BY CommitShape DEF AccountOf
<1>2. account[a] \in Row
  BY <1>1 DEF IInv, TypeOK
<1>3. /\ Applied(account[a], t) \in Row
      /\ Applied(account[a], t).credits = [account[a].credits EXCEPT ![t] = @ + 1]
      /\ Applied(account[a], t).as_of =
             IF trade[t].at > account[a].as_of THEN trade[t].at ELSE account[a].as_of
  BY <1>1, <1>2, AppliedFields DEF IInv
<1>4. PICK o \in {"2xx", "failed"} : Finish(c, o)
  BY DEF Commit, Ack
<1>5. /\ FeedTypes(SafeLabels)'
      /\ \A b \in Calls \ {c} :
            pc'[b] = pc[b] /\ what'[b] = what[b] /\ reply'[b] = reply[b]
      /\ \/ pc'[c] = "free"
         \/ pc'[c] = "answered" /\ what'[c] = what[c]
  BY <1>1, <1>4, FinishShape, TypeOKFeeds DEF IInv, SafeLabels
<1>6. /\ flaky' \subseteq Calls /\ read' \in [Calls -> Row]
      /\ \A b \in Calls \ {c} : read'[b] = read[b]
  BY ForgetTypes DEF Commit
<1>7. TypeOK'
  <2>1. account' \in [Accounts -> Row] /\ processed' \subseteq Trades
    BY <1>1, <1>3 DEF IInv, TypeOK
  <2>2. QED
    BY <1>1, <1>5, <1>6, <2>1 DEF IInv, TypeOK, FeedTypes, SafeLabels
<1>8. Guarded'
  <2>1. \A b \in Calls \ {c} : pc[b] \in Writing => what[b] # t
    BY <1>1 DEF IInv, Guarded, Writing
  <2>2. \A b \in Calls \ {c} : pc[b] = "commit" => AccountOf(b) # a
    BY <1>1 DEF IInv, Guarded
  <2>3. \A b \in Calls \ {c} : AccountOf(b)' = AccountOf(b)
    BY <1>1, <1>5 DEF AccountOf
  <2>4. pc'[c] \notin Writing /\ pc'[c] # "commit"
    BY <1>5 DEF Writing
  <2>5. ASSUME NEW b \in Calls \ {c}, pc'[b] \in Writing
        PROVE  /\ what'[b] \notin processed'
               /\ \A d \in Calls : pc'[d] \in Writing /\ what'[d] = what'[b] => d = b
    BY <1>1, <1>5, <2>1, <2>4, <2>5 DEF IInv, Guarded
  <2>6. ASSUME NEW b \in Calls \ {c}, pc'[b] = "commit"
        PROVE  /\ read'[b] = account'[AccountOf(b)']
               /\ \A d \in Calls : pc'[d] = "commit" /\ AccountOf(d)' = AccountOf(b)' => d = b
    <3>1. pc[b] = "commit" /\ read'[b] = read[b] /\ read[b] = account[AccountOf(b)]
      BY <1>5, <1>6, <2>6 DEF IInv, Guarded
    <3>2. account'[AccountOf(b)] = account[AccountOf(b)]
      BY <1>1, <2>2, <3>1 DEF IInv, TypeOK
    <3>3. \A d \in Calls : pc'[d] = "commit" /\ AccountOf(d)' = AccountOf(b)' => d = b
      BY <1>5, <2>3, <2>4, <3>1 DEF IInv, Guarded
    <3>4. QED
      BY <2>3, <3>1, <3>2, <3>3
  <2>7. \A b \in Calls : pc'[b] = "answered" /\ reply'[b] = "2xx" => what'[b] \in processed'
    BY <1>1, <1>5 DEF IInv, Guarded
  <2>8. QED
    BY <2>4, <2>5, <2>6, <2>7 DEF Guarded
<1>9. CreditedOnce'
  <2>1. ASSUME NEW b \in Accounts
        PROVE  account'[b].credits =
                  [u \in Trades |-> IF u \in processed' /\ trade'[u].account = b THEN 1 ELSE 0]
    <3>1. account[b].credits =
             [u \in Trades |-> IF u \in processed /\ trade[u].account = b THEN 1 ELSE 0]
      BY DEF IInv, CreditedOnce
    <3>2. CASE b = a
      <4>1. account'[b].credits = [account[b].credits EXCEPT ![t] = @ + 1]
        BY <1>1, <1>3, <3>2 DEF IInv, TypeOK
      <4>2. QED
        BY <1>1, <3>1, <3>2, <4>1
    <3>3. CASE b # a
      <4>1. account'[b] = account[b]
        BY <1>1, <3>3 DEF IInv, TypeOK
      <4>2. QED
        BY <1>1, <3>1, <3>3, <4>1
    <3>4. QED
      BY <3>2, <3>3
  <2>2. QED
    BY <2>1 DEF CreditedOnce
<1>10. StatusIsLatest'
  <2> DEFINE TimesOf(b) == {trade[u].at : u \in {v \in processed : trade[v].account = b}}
  <2>1. trade[t].at \in Nat /\ \A u \in processed : trade[u].at \in Nat
    BY <1>1, FeedAssumption DEF IInv, TypeOK
  <2>2. ASSUME NEW b \in Accounts
        PROVE  /\ \A n \in TimesOf(b)' : n <= account'[b].as_of
               /\ account'[b].as_of \in TimesOf(b)' \cup {0}
    <3>1. /\ \A n \in TimesOf(b) : n <= account[b].as_of
          /\ account[b].as_of \in TimesOf(b) \cup {0}
          /\ account[b].as_of \in Nat
      BY DEF IInv, StatusIsLatest, TypeOK, Row
    <3>2. CASE b = a
      <4>1. TimesOf(b)' = TimesOf(b) \cup {trade[t].at}
        BY <1>1, <3>2
      <4>2. account'[b].as_of =
               IF trade[t].at > account[b].as_of THEN trade[t].at ELSE account[b].as_of
        BY <1>1, <1>3, <3>2 DEF IInv, TypeOK
      <4>3. \A n \in TimesOf(b) : n \in Nat
        BY <2>1
      <4> DEFINE S == TimesOf(b)
                 m == account[b].as_of
                 n == trade[t].at
      <4>4. account'[b].as_of \in Nat /\ n <= account'[b].as_of /\ m <= account'[b].as_of
        BY <2>1, <3>1, <4>2
      <4>5. \A k \in S : k <= account'[b].as_of
        <5>1. SUFFICES ASSUME NEW k \in S PROVE k <= account'[b].as_of
          OBVIOUS
        <5>2. k \in Nat /\ k <= m
          BY <3>1, <4>3
        <5>3. QED
          BY <3>1, <4>4, <5>2
      <4>6. account'[b].as_of \in S \cup {n} \cup {0}
        BY <3>1, <4>2
      <4>7. QED
        BY <4>1, <4>4, <4>5, <4>6
    <3>3. CASE b # a
      <4>1. account'[b] = account[b]
        BY <1>1, <3>3 DEF IInv, TypeOK
      <4>2. TimesOf(b)' = TimesOf(b)
        BY <1>1, <3>3
      <4>3. QED
        BY <3>1, <4>1, <4>2
    <3>4. QED
      BY <3>2, <3>3
  <2>3. QED
    BY <2>2 DEF StatusIsLatest
<1>11. AckedIsApplied'
  BY <1>1 DEF IInv, AckedIsApplied
<1>12. QED
  BY <1>7, <1>8, <1>9, <1>10, <1>11 DEF IInv

-----------------------------------------------------------------------------
LEMMA NextIInv == IInv /\ [Next]_vars => IInv'
<1> SUFFICES ASSUME IInv, [Next]_vars PROVE IInv'
  OBVIOUS
<1>1. CASE FeedNext /\ UNCHANGED bankVars
  BY <1>1, FeedKeeps
<1>2. ASSUME NEW c \in Calls, Handle(c) PROVE IInv'
  BY <1>2, RefuseKeeps, AcceptKeeps, InsertKeeps, DuplicateKeeps, EnsureKeeps,
     LockKeeps, CommitKeeps DEF Handle
<1>3. ASSUME NEW c \in Calls, Abort(c) PROVE IInv'
  BY <1>3, AbortKeeps
<1>4. CASE UNCHANGED vars
  <2>1. /\ UNCHANGED <<trade, status, trail, waits, deaths, mode, what, pc, reply>>
        /\ UNCHANGED <<processed, account, flaky, read>>
    BY <1>4 DEF vars, feedVars, bankVars
  <2>2. TypeOK' /\ AckedIsApplied'
    BY <2>1 DEF IInv, TypeOK, AckedIsApplied
  <2>3. QED
    BY <2>1, <2>2, QuietStep
<1>5. QED
  BY <1>1, <1>2, <1>3, <1>4 DEF Next

LEMMA Invariance == Spec => []IInv
<1>1. QED
  BY InitIInv, NextIInv, PTL DEF Spec

(* The types hold for any sets of trades, accounts and calls.              *)
THEOREM BankTypes == Spec => []TypeOK
<1>1. IInv => TypeOK
  BY DEF IInv
<1>2. QED
  BY <1>1, Invariance, PTL

(* apply_trade_safe credits each processed trade once, and nothing else,   *)
(* whatever the feed repeats or reorders and however calls overlap.        *)
THEOREM TradesCreditedOnce == Spec => []CreditedOnce
<1>1. IInv => CreditedOnce
  BY DEF IInv
<1>2. QED
  BY <1>1, Invariance, PTL

(* The status of an account is from its latest processed trade: the        *)
(* executed_at guard works under the row lock.                             *)
THEOREM StatusMovesForward == Spec => []StatusIsLatest
<1>1. IInv => StatusIsLatest
  BY DEF IInv
<1>2. QED
  BY <1>1, Invariance, PTL

(* A delivery that the queue counts as succeeded has been applied.         *)
THEOREM AcknowledgedIsApplied == Spec => []AckedIsApplied
<1>1. IInv => AckedIsApplied
  BY DEF IInv
<1>2. QED
  BY <1>1, Invariance, PTL

-----------------------------------------------------------------------------
(* Refinement of the exactly-once ledger.                                  *)

CreditsOf == [t \in Trades |-> account[trade[t].account].credits[t]]
LatestOf == [a \in Accounts |-> account[a].as_of]
Acked == {t \in Trades : status[t] = "succeeded"}

LEMMA LedgerInit == Init => Ledger!Init
<1> SUFFICES ASSUME Init PROVE Ledger!Init
  OBVIOUS
<1>1. \A a \in Accounts : account[a].credits = [t \in Trades |-> 0] /\ account[a].as_of = 0
  BY DEF Init, NoRow, EarlierRow
<1>2. trade \in [Trades -> [account : Accounts, at : Times]]
  BY DEF Init, FeedInit
<1>3. {t \in Trades : status[t] = "succeeded"} = {}
  BY DEF Init, FeedInit, Queue!Init
<1>4. QED
  BY <1>1, <1>2, <1>3 DEF Ledger!Init

(* A step that neither writes the bank's tables nor acknowledges a trade.  *)
LEMMA LedgerStutter ==
    ASSUME UNCHANGED <<trade, account>>, Acked' = Acked
    PROVE  UNCHANGED Ledger!vars
  BY DEF Ledger!vars, Acked

(* A delivery that waited for a call moves: acknowledged, or not.          *)
LEMMA AttemptLedger ==
    ASSUME IInv, NEW t \in Trades, NEW o \in {"2xx", "failed"},
           Queue!AttemptAll({t}, [d \in {t} |-> o]),
           o = "2xx" => t \in processed,
           UNCHANGED <<trade, account>>
    PROVE  Ledger!Next \/ UNCHANGED Ledger!vars
<1>1. /\ status[t] = "pending"
      /\ \A u \in Trades \ {t} : status'[u] = status[u]
      /\ status'[t] = "succeeded" <=> o = "2xx"
  BY AttemptShape, TypeOKFeeds DEF IInv
<1>2. CASE o = "2xx"
  <2>1. Acked' = Acked \cup {t}
    BY <1>1, <1>2 DEF Acked
  <2>2. CreditsOf[t] = 1
    <3>1. trade[t].account \in Accounts /\ t \in processed
      BY <1>2 DEF IInv, TypeOK
    <3>2. account[trade[t].account].credits[t] = 1
      BY <3>1 DEF IInv, CreditedOnce
    <3>3. QED
      BY <3>2 DEF CreditsOf
  <2>3. Ledger!Acknowledge(t)
    BY <2>1, <2>2 DEF Ledger!Acknowledge, CreditsOf, Acked
  <2>4. QED
    BY <2>3 DEF Ledger!Next
<1>3. CASE o # "2xx"
  <2>1. Acked' = Acked
    BY <1>1, <1>3 DEF Acked
  <2>2. QED
    BY <2>1, LedgerStutter
<1>4. QED
  BY <1>2, <1>3

LEMMA FeedLedger ==
    ASSUME IInv, FeedNext, UNCHANGED bankVars
    PROVE  Ledger!Next \/ UNCHANGED Ledger!vars
<1>1. UNCHANGED <<trade, account>>
  BY DEF FeedNext, Post, GetAnswer, TimeOut, WorkerDies, Redrive, SetMode, bankVars
<1>2. ASSUME NEW t \in Trades, GetAnswer(t) PROVE Ledger!Next \/ UNCHANGED Ledger!vars
  <2>1. /\ what[waits[t]] = t /\ waits[t] \in Calls /\ pc[waits[t]] = "answered"
        /\ reply[waits[t]] \in {"2xx", "failed"}
    BY <1>2 DEF GetAnswer, IInv, TypeOK
  <2>2. PICK o \in {"2xx", "failed"} : o = reply[waits[t]]
    BY <2>1
  <2>3. Queue!AttemptAll({t}, [d \in {t} |-> o])
    BY <1>2, <2>2 DEF GetAnswer
  <2>4. o = "2xx" => t \in processed
    BY <2>1, <2>2 DEF IInv, Guarded
  <2>5. QED
    BY <1>1, <2>3, <2>4, AttemptLedger
<1>3. ASSUME NEW t \in Trades, TimeOut(t) PROVE Ledger!Next \/ UNCHANGED Ledger!vars
  <2>1. PICK o \in {"2xx", "failed"} : o = "failed"
    OBVIOUS
  <2>2. Queue!AttemptAll({t}, [d \in {t} |-> o])
    BY <1>3, <2>1 DEF TimeOut
  <2>3. QED
    BY <1>1, <2>1, <2>2, AttemptLedger
<1>4. ASSUME NEW t \in Trades, Redrive(t) PROVE UNCHANGED Ledger!vars
  <2>1. status[t] = "dead_lettered" /\ status' = [status EXCEPT ![t] = "pending"]
    BY <1>4 DEF Redrive, Queue!Redrive
  <2>2. Acked' = Acked
    BY <2>1 DEF Acked, IInv, TypeOK
  <2>3. QED
    BY <1>1, <2>2, LedgerStutter
<1>5. ASSUME UNCHANGED status PROVE UNCHANGED Ledger!vars
  BY <1>1, <1>5, LedgerStutter DEF Acked
<1>6. QED
  BY <1>2, <1>3, <1>4, <1>5 DEF FeedNext, Post, WorkerDies, SetMode, queueVars

LEMMA CommitLedger == ASSUME IInv, NEW c \in Calls, Commit(c) PROVE Ledger!Next
<1> DEFINE t == what[c]
           a == AccountOf(c)
<1>1. /\ t \in Trades /\ a \in Accounts /\ trade[t].account = a /\ t \notin processed
      /\ account' = [account EXCEPT ![a] = Applied(account[a], t)]
      /\ UNCHANGED <<trade, status>>
  BY CommitShape DEF AccountOf
<1>2. account[a] \in Row /\ account \in [Accounts -> Row]
  BY <1>1 DEF IInv, TypeOK
<1>3. /\ Applied(account[a], t).credits = [account[a].credits EXCEPT ![t] = @ + 1]
      /\ Applied(account[a], t).as_of =
             IF trade[t].at > account[a].as_of THEN trade[t].at ELSE account[a].as_of
  BY <1>1, <1>2, AppliedFields DEF IInv
<1>4. account[a].credits \in [Trades -> Nat] /\ account[a].credits[t] = 0
  BY <1>1, <1>2 DEF IInv, CreditedOnce, Row
<1>5. CreditsOf[t] = 0
  BY <1>1, <1>4 DEF CreditsOf
<1>6. CreditsOf' = [CreditsOf EXCEPT ![t] = 1]
  <2>1. CreditsOf'[t] = 1
    BY <1>1, <1>2, <1>3, <1>4 DEF CreditsOf
  <2>2. ASSUME NEW u \in Trades, u # t PROVE CreditsOf'[u] = CreditsOf[u]
    <3>1. trade[u].account \in Accounts
      BY DEF IInv, TypeOK
    <3>2. account'[trade[u].account].credits[u] = account[trade[u].account].credits[u]
      BY <1>1, <1>2, <1>3, <1>4, <2>2, <3>1
    <3>3. QED
      BY <1>1, <3>2 DEF CreditsOf
  <2>3. QED
    BY <1>1, <2>1, <2>2 DEF CreditsOf
<1>7. LatestOf' = [LatestOf EXCEPT ![a] = IF trade[t].at > @ THEN trade[t].at ELSE @]
  BY <1>1, <1>2, <1>3 DEF LatestOf
<1>8. Acked' = Acked
  BY <1>1 DEF Acked
<1>9. PICK u \in Trades : u = t
  BY <1>1
<1>10. Ledger!Apply(u)
  BY <1>1, <1>5, <1>6, <1>7, <1>8, <1>9 DEF Ledger!Apply, CreditsOf, LatestOf, Acked
<1>11. QED
  BY <1>10 DEF Ledger!Next

LEMMA LedgerStep == IInv /\ [Next]_vars => [Ledger!Next]_Ledger!vars
<1> SUFFICES ASSUME IInv, [Next]_vars PROVE [Ledger!Next]_Ledger!vars
  OBVIOUS
<1>1. CASE FeedNext /\ UNCHANGED bankVars
  BY <1>1, FeedLedger
<1>2. ASSUME NEW c \in Calls, Commit(c) PROVE Ledger!Next
  BY <1>2, CommitLedger
<1>3. ASSUME NEW c \in Calls,
             \/ Refuse(c) \/ Accept(c) \/ InsertProcessed(c) \/ Duplicate(c)
             \/ EnsureAccount(c) \/ LockAccount(c) \/ Abort(c)
      PROVE  UNCHANGED Ledger!vars
  <2>1. UNCHANGED <<trade, account, status>>
    BY <1>3 DEF Refuse, Accept, InsertProcessed, Duplicate, EnsureAccount, LockAccount,
                Abort, Finish, GoTo, bankVars, queueVars
  <2>2. QED
    BY <2>1, LedgerStutter DEF Acked
<1>4. CASE UNCHANGED vars
  BY <1>4, LedgerStutter DEF vars, feedVars, bankVars, Acked
<1>5. QED
  BY <1>1, <1>2, <1>3, <1>4 DEF Next, Handle

(* Over at-least-once, unordered delivery, with overlapping calls, lost    *)
(* answers and rollbacks, Bank B behaves as an exactly-once ledger.        *)
THEOREM BankImplementsLedger == Spec => ImplementsLedger
<1>1. QED
  BY LedgerInit, LedgerStep, Invariance, PTL DEF Spec, ImplementsLedger, Ledger!Spec
=============================================================================
