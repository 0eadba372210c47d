----------------------------- MODULE Banks_proofs -----------------------------
(***************************************************************************)
(* Proofs about the naive bank and about the view of the safe one, for     *)
(* every set of trades, accounts, times and calls.                         *)
(***************************************************************************)
EXTENDS MCServices, SafeBank_proofs, FiniteSetTheorems

-----------------------------------------------------------------------------
(* Bank A.                                                                 *)

NaiveLabels == {"free", "received", "ensure", "read", "write", "commit", "answered"}

Counts == [Trades -> Nat]

NaiveTypes ==
    /\ FeedTypes(NaiveLabels)
    /\ nontrades \subseteq Trades
    /\ forgers \subseteq Calls
    /\ naive \in [Accounts -> [opened : BOOLEAN, credits : Counts, shows : Trades \cup {NoTrade}]]
    /\ nread \in [Calls -> Counts]
    /\ nflaky \subseteq Calls
    /\ applied \in Counts
    /\ forged \in Counts
    /\ overlapped \subseteq Accounts

Gap == {"write", "commit"}

(* All that was ever applied of a trade.                                   *)
InAll(u) == applied[u] + forged[u]

(* Nothing is credited, nor about to be, that has not been applied.        *)
CreditsBacked ==
    \A u \in Trades : naive[trade[u].account].credits[u] <= InAll(u)

ReadsBacked ==
    \A c \in Calls : pc[c] \in Gap =>
        \A u \in Trades : trade[u].account = AccountOf(c) => nread[c][u] <= InAll(u)

(* In an account whose calls have never overlapped nothing is lost: at most*)
(* one call is in the gap, and what it has read is still committed.        *)
Undisturbed ==
    \A a \in Accounts \ overlapped :
        /\ \A u \in Trades : trade[u].account = a => naive[a].credits[u] = InAll(u)
        /\ \A c \in InGap(a) : nread[c] = naive[a].credits
        /\ \A c, d \in InGap(a) : c = d

(* An answer 2xx, on its way or taken, is of a trade that was applied or of*)
(* no trade.                                                               *)
AnswersBacked ==
    /\ \A c \in Calls : pc[c] = "answered" /\ reply[c] = "2xx" =>
          applied[what[c]] > 0 \/ what[c] \in nontrades
    /\ \A u \in Trades : status[u] = "succeeded" => applied[u] > 0 \/ u \in nontrades

(* The status that an account shows is of a trade that was applied.        *)
ShownBacked ==
    \A a \in Accounts : naive[a].opened =>
        naive[a].shows \in Trades /\ InAll(naive[a].shows) > 0

(* What the bank's tables and the answers of its calls rely on.            *)
NaiveCore ==
    /\ NaiveTypes
    /\ CreditsBacked
    /\ ReadsBacked
    /\ Undisturbed
    /\ AnswersBacked
    /\ ShownBacked

Handling == {"ensure", "read", "write", "commit"}

(* No delivery waits for a forged call, and a free thread serves none.     *)
ForgedApart ==
    /\ \A c \in forgers : pc[c] # "free"
    /\ \A u \in Trades : waits[u] \notin forgers

(* What is no trade is never taken up.                                     *)
TradesOnly ==
    /\ \A c \in Calls : pc[c] \in Handling => what[c] \notin nontrades
    /\ \A u \in nontrades : InAll(u) = 0

(* The calls that deliveries of u have made and that may yet apply it.     *)
OnTheWay(u) == {c \in Calls \ forgers : what[c] = u /\ pc[c] \notin {"free", "answered"}}

Awaited(u) == IF waits[u] = NoCall THEN 0 ELSE 1

(* Each application, made or under way, has cost a POST of its own, which  *)
(* is on record, waited for, or lost with the worker that made it.         *)
PostsPaid ==
    \A u \in Trades :
        applied[u] + Cardinality(OnTheWay(u)) <= Len(trail[u]) + Awaited(u) + deaths

(* What the reckoning of POSTs relies on.                                  *)
NaiveBooks ==
    /\ ForgedApart
    /\ TradesOnly
    /\ PostsPaid

(* The inductive invariant.                                                *)
NaiveIInv == NaiveCore /\ NaiveBooks

LEMMA NaiveInitIInv == NaiveInit => NaiveIInv
<1> SUFFICES ASSUME NaiveInit PROVE NaiveIInv
  OBVIOUS
<1> USE FeedAssumption DEF NaiveInit, FeedInit, Queue!Init
<1>1. NoCredits \in Counts /\ \A u \in Trades : NoCredits[u] = 0
  BY DEF NoCredits, Counts
<1>2. FeedTypes(NaiveLabels)
  BY DEF FeedTypes, NaiveLabels, Modes
<1>3. NaiveTypes
  BY <1>1, <1>2 DEF NaiveTypes, Unopened
<1>4. \A c \in Calls : pc[c] = "free"
  OBVIOUS
<1>5. \A u \in Trades : naive[trade[u].account].credits[u] = 0 /\ applied[u] = 0 /\ InAll(u) = 0
  BY <1>1, <1>2 DEF FeedTypes, Unopened, InAll
<1>6. CreditsBacked
  BY <1>5 DEF CreditsBacked
<1>7. ReadsBacked /\ AnswersBacked
  BY <1>2, <1>4 DEF ReadsBacked, AnswersBacked, Gap, FeedTypes
<1>8. Undisturbed
  BY <1>4, <1>5 DEF Undisturbed, InGap
<1>9. ShownBacked
  BY DEF ShownBacked, Unopened
<1>10. ForgedApart
  BY DEF ForgedApart
<1>11. TradesOnly
  BY <1>4, <1>5 DEF TradesOnly, Handling
<1>12. PostsPaid
  <2>1. ASSUME NEW u \in Trades
        PROVE  applied[u] + Cardinality(OnTheWay(u)) <= Len(trail[u]) + Awaited(u) + deaths
    <3>1. OnTheWay(u) = {}
      BY <1>4 DEF OnTheWay
    <3>2. Cardinality(OnTheWay(u)) = 0
      BY <3>1, FS_EmptySet
    <3>3. Len(trail[u]) \in Nat /\ Awaited(u) \in Nat /\ deaths \in Nat
      BY <1>2 DEF FeedTypes, Awaited
    <3>4. QED
      BY <1>5, <3>2, <3>3
  <2>2. QED
    BY <2>1 DEF PostsPaid
<1>13. QED
  BY <1>3, <1>6, <1>7, <1>8, <1>9, <1>10, <1>11, <1>12 DEF NaiveIInv, NaiveCore, NaiveBooks

(* A step that writes nothing to the bank's tables and takes no call into  *)
(* the gap keeps the core, if its answers are right.                       *)
LEMMA NaiveQuietStep ==
    ASSUME NaiveIInv, NaiveTypes', AnswersBacked',
           UNCHANGED <<trade, naive, applied, forged, overlapped>>,
           \A c \in Calls :
               \/ pc'[c] \notin Gap
               \/ pc[c] \in Gap /\ what'[c] = what[c] /\ nread'[c] = nread[c]
    PROVE  NaiveCore'
<1> USE DEF NaiveIInv, NaiveCore
<1>1. \A c \in Calls : pc'[c] \in Gap =>
          pc[c] \in Gap /\ nread'[c] = nread[c] /\ AccountOf(c)' = AccountOf(c)
  BY DEF AccountOf
<1>2. CreditsBacked' /\ ShownBacked'
  BY DEF CreditsBacked, ShownBacked, InAll
<1>3. ReadsBacked'
  BY <1>1 DEF ReadsBacked, InAll
<1>4. \A a \in Accounts : \A c \in InGap(a)' : c \in InGap(a) /\ nread'[c] = nread[c]
  BY <1>1 DEF InGap, Gap
<1>5. Undisturbed'
  BY <1>4 DEF Undisturbed, InAll
<1>6. QED
  BY <1>2, <1>3, <1>5

(* The calls on their way are finitely many.                               *)
LEMMA OnTheWayFinite ==
    ASSUME NEW u \in Trades
    PROVE  IsFiniteSet(OnTheWay(u)) /\ Cardinality(OnTheWay(u)) \in Nat
<1>1. IsFiniteSet(OnTheWay(u))
  BY NaiveAssumption, FS_Subset DEF OnTheWay
<1>2. QED
  BY <1>1, FS_CardinalityType

(* The reckoning of POSTs for a delivery of u, step by step.               *)
LEMMA PostsStep ==
    ASSUME NaiveIInv, NEW u \in Trades, NEW n \in Nat,
           applied'[u] = applied[u] + n,
           n > 0 => \E c \in OnTheWay(u) : n = 1 /\ OnTheWay(u)' = OnTheWay(u) \ {c},
           n = 0 => \/ /\ OnTheWay(u)' \subseteq OnTheWay(u)
                       /\ Len(trail'[u]) + Awaited(u)' + deaths' >= Len(trail[u]) + Awaited(u) + deaths
                    \/ \E c \in Calls :
                          /\ OnTheWay(u)' \subseteq OnTheWay(u) \cup {c}
                          /\ Len(trail'[u]) + Awaited(u)' + deaths' = Len(trail[u]) + Awaited(u) + deaths + 1,
           n > 0 => UNCHANGED <<trail, waits, deaths>>,
           Len(trail'[u]) + Awaited(u)' + deaths' \in Nat
    PROVE  applied'[u] + Cardinality(OnTheWay(u)') <= Len(trail'[u]) + Awaited(u)' + deaths'
<1> DEFINE Paid == Len(trail[u]) + Awaited(u) + deaths
           PaidNext == Len(trail'[u]) + Awaited(u)' + deaths'
<1>1. Paid \in Nat /\ PaidNext \in Nat /\ applied[u] \in Nat
  <2>1. Paid \in Nat /\ applied[u] \in Nat
    BY DEF NaiveIInv, NaiveCore, NaiveTypes, Counts, FeedTypes, Awaited
  <2>2. QED
    BY <2>1
<1>2. applied[u] + Cardinality(OnTheWay(u)) <= Paid
  BY DEF NaiveIInv, NaiveBooks, PostsPaid
<1>3. IsFiniteSet(OnTheWay(u)) /\ Cardinality(OnTheWay(u)) \in Nat
  BY OnTheWayFinite
<1>4. CASE n > 0
  <2>1. PICK c \in OnTheWay(u) : n = 1 /\ OnTheWay(u)' = OnTheWay(u) \ {c}
    BY <1>4
  <2>2. Cardinality(OnTheWay(u)') = Cardinality(OnTheWay(u)) - 1
    <3> DEFINE Way == OnTheWay(u)
    <3>1. IsFiniteSet(Way) /\ c \in Way
      BY <1>3
    <3> HIDE DEF Way
    <3>2. Cardinality(Way \ {c}) = Cardinality(Way) - 1
      BY <3>1, FS_RemoveElement
    <3>3. QED
      BY <2>1, <3>2 DEF Way
  <2>3. PaidNext = Paid
    BY <1>4 DEF Awaited
  <2>4. applied'[u] = applied[u] + 1
    BY <2>1
  <2> HIDE DEF Paid, PaidNext
  <2>5. applied'[u] + Cardinality(OnTheWay(u)') <= PaidNext
    BY <1>1, <1>2, <1>3, <2>2, <2>3, <2>4
  <2>6. QED
    BY <2>5 DEF PaidNext
<1>5. CASE n = 0 /\ OnTheWay(u)' \subseteq OnTheWay(u) /\ PaidNext >= Paid
  <2>1. Cardinality(OnTheWay(u)') <= Cardinality(OnTheWay(u)) /\ IsFiniteSet(OnTheWay(u)')
    BY <1>3, <1>5, FS_Subset
  <2>2. Cardinality(OnTheWay(u)') \in Nat
    BY <2>1, FS_CardinalityType
  <2>3. QED
    BY <1>1, <1>2, <1>3, <1>5, <2>1, <2>2
<1>6. CASE n = 0 /\ \E c \in Calls : OnTheWay(u)' \subseteq OnTheWay(u) \cup {c} /\ PaidNext = Paid + 1
  <2>1. PICK c \in Calls : OnTheWay(u)' \subseteq OnTheWay(u) \cup {c} /\ PaidNext = Paid + 1
    BY <1>6
  <2>2. /\ IsFiniteSet(OnTheWay(u) \cup {c})
        /\ Cardinality(OnTheWay(u) \cup {c}) \in {Cardinality(OnTheWay(u)), Cardinality(OnTheWay(u)) + 1}
    BY <1>3, FS_AddElement
  <2>3. /\ Cardinality(OnTheWay(u)') <= Cardinality(OnTheWay(u) \cup {c})
        /\ IsFiniteSet(OnTheWay(u)')
    BY <2>1, <2>2, FS_Subset
  <2>4. Cardinality(OnTheWay(u)') \in Nat
    BY <2>3, FS_CardinalityType
  <2>5. applied'[u] = applied[u]
    BY <1>1, <1>6
  <2>6. Cardinality(OnTheWay(u)') <= Cardinality(OnTheWay(u)) + 1
    BY <1>3, <2>2, <2>3, <2>4
  <2>7. PaidNext = Paid + 1
    BY <2>1
  <2> HIDE DEF Paid, PaidNext
  <2>8. applied'[u] + Cardinality(OnTheWay(u)') <= PaidNext
    BY <1>1, <1>2, <1>3, <2>4, <2>5, <2>6, <2>7
  <2>9. QED
    BY <2>8 DEF PaidNext
<1>7. QED
  <2>1. n > 0 \/ n = 0
    OBVIOUS
  <2>2. QED
    BY <1>4, <1>5, <1>6, <2>1

(* What a call's step does to the reckoning: it may drop out, and it may   *)
(* have been applied.                                                      *)
LEMMA CallBooks ==
    ASSUME NaiveIInv, NEW c \in Calls, pc[c] \notin {"free", "answered"},
           UNCHANGED <<trail, waits, deaths, nontrades>>,
           forgers' \subseteq forgers, forgers \ {c} \subseteq forgers',
           \A d \in Calls \ {c} : pc'[d] = pc[d] /\ what'[d] = what[d],
           \/ /\ pc'[c] \in Handling /\ what'[c] = what[c] /\ forgers' = forgers
              /\ what[c] \notin nontrades
              /\ UNCHANGED <<applied, forged>>
           \/ /\ pc'[c] \in {"free", "answered"} /\ c \notin forgers'
              /\ UNCHANGED <<applied, forged>>
           \/ /\ pc'[c] \in {"free", "answered"} /\ c \notin forgers'
              /\ what[c] \in Trades \ nontrades
              /\ \/ c \notin forgers /\ forged' = forged /\ applied' = [applied EXCEPT ![what[c]] = @ + 1]
                 \/ c \in forgers /\ applied' = applied /\ forged' = [forged EXCEPT ![what[c]] = @ + 1]
    PROVE  NaiveBooks'
<1> USE DEF NaiveIInv
<1>t. /\ applied \in Counts /\ forged \in Counts /\ trail \in [Trades -> Seq({"2xx", "failed", "blocked"})]
      /\ forgers \subseteq Calls /\ nontrades \subseteq Trades /\ deaths \in Nat
  BY DEF NaiveCore, NaiveTypes, FeedTypes
<1>1. ForgedApart'
  <2>1. \A d \in forgers' : pc'[d] # "free"
    <3> SUFFICES ASSUME NEW d \in forgers' PROVE pc'[d] # "free"
      OBVIOUS
    <3>1. CASE d = c
      BY <3>1 DEF Handling
    <3>2. CASE d # c
      BY <1>t, <3>2 DEF NaiveBooks, ForgedApart
    <3>3. QED
      BY <3>1, <3>2
  <2>2. QED
    BY <2>1 DEF NaiveBooks, ForgedApart
<1>2. TradesOnly'
  <2>1. \A d \in Calls : pc'[d] \in Handling => what'[d] \notin nontrades
    BY DEF NaiveBooks, TradesOnly, Handling
  <2>2. \A v \in nontrades : applied'[v] = applied[v] /\ forged'[v] = forged[v]
    BY <1>t DEF Counts
  <2>3. QED
    BY <2>1, <2>2 DEF NaiveBooks, TradesOnly, InAll
<1>3. ASSUME NEW u \in Trades
      PROVE  applied'[u] + Cardinality(OnTheWay(u)') <= Len(trail'[u]) + Awaited(u)' + deaths'
  <2>1. Len(trail[u]) \in Nat /\ Awaited(u) \in Nat /\ Awaited(u)' = Awaited(u)
    BY <1>t DEF Awaited
  <2>2. Len(trail'[u]) + Awaited(u)' + deaths' \in Nat
    BY <1>t, <2>1
  <2>3. CASE applied'[u] = applied[u]
    <3>1. OnTheWay(u)' \subseteq OnTheWay(u)
      BY DEF OnTheWay, Handling
    <3>2. PICK n \in Nat : n = 0
      OBVIOUS
    <3>3. applied'[u] = applied[u] + n
      BY <1>t, <2>3, <3>2 DEF Counts
    <3>4. Len(trail'[u]) + Awaited(u)' + deaths' >= Len(trail[u]) + Awaited(u) + deaths
      BY <1>t, <2>1
    <3>5. ~(n > 0)
      BY <3>2
    <3>6. QED
      BY <2>2, <3>1, <3>3, <3>4, <3>5, PostsStep
  <2>4. CASE applied'[u] # applied[u]
    <3>1. /\ c \notin forgers /\ u = what[c] /\ applied'[u] = applied[u] + 1
          /\ pc'[c] \in {"free", "answered"}
      BY <1>t, <2>4 DEF Counts
    <3>2. c \in OnTheWay(u)
      BY <3>1 DEF OnTheWay
    <3>3. OnTheWay(u)' = OnTheWay(u) \ {c}
      BY <3>1 DEF OnTheWay
    <3>4. PICK n \in Nat : n = 1
      OBVIOUS
    <3>5. applied'[u] = applied[u] + n /\ ~(n = 0)
      BY <3>1, <3>4
    <3>6. \E d \in OnTheWay(u) : n = 1 /\ OnTheWay(u)' = OnTheWay(u) \ {d}
      BY <3>2, <3>3, <3>4
    <3>7. UNCHANGED <<trail, waits, deaths>>
      OBVIOUS
    <3>8. QED
      BY <2>2, <3>5, <3>6, <3>7, PostsStep
  <2>5. QED
    BY <2>3, <2>4
<1>4. PostsPaid'
  BY <1>3 DEF PostsPaid
<1>5. QED
  BY <1>1, <1>2, <1>4 DEF NaiveBooks

(* What a step of the feed does to the reckoning: a delivery waits for one *)
(* more call, or no longer for the one it waited for.                      *)
LEMMA FeedReckoned ==
    ASSUME FeedTypes(NaiveLabels), FeedNext, NEW u \in Trades
    PROVE  \/ /\ \A c \in Calls : what'[c] = u /\ pc'[c] \notin {"free", "answered"} =>
                                     what[c] = u /\ pc[c] = pc'[c]
              /\ waits'[u] \in {NoCall, waits[u]}
              /\ Len(trail'[u]) + Awaited(u)' + deaths' >= Len(trail[u]) + Awaited(u) + deaths
           \/ \E d \in Calls :
                 /\ pc[d] = "free" /\ pc'[d] # "free" /\ waits'[u] = d
                 /\ \A c \in Calls \ {d} : pc'[c] = pc[c] /\ what'[c] = what[c]
                 /\ Len(trail'[u]) + Awaited(u)' + deaths' = Len(trail[u]) + Awaited(u) + deaths + 1
<1> DEFINE Kept == /\ \A c \in Calls : what'[c] = u /\ pc'[c] \notin {"free", "answered"} =>
                                     what[c] = u /\ pc[c] = pc'[c]
                   /\ waits'[u] \in {NoCall, waits[u]}
                   /\ Len(trail'[u]) + Awaited(u)' + deaths' >= Len(trail[u]) + Awaited(u) + deaths
<1>t. /\ Len(trail[u]) \in Nat /\ deaths \in Nat /\ Awaited(u) \in {0, 1} /\ Awaited(u)' \in {0, 1}
      /\ waits \in [Trades -> Calls \cup {NoCall}] /\ trail[u] \in Seq({"2xx", "failed", "blocked"})
  BY DEF FeedTypes, Awaited
<1>1. ASSUME NEW t \in Trades, NEW d \in Calls, Post(t, d)
      PROVE  \/ Kept
             \/ /\ pc[d] = "free" /\ pc'[d] # "free" /\ waits'[u] = d
                /\ \A c \in Calls \ {d} : pc'[c] = pc[c] /\ what'[c] = what[c]
                /\ Len(trail'[u]) + Awaited(u)' + deaths' = Len(trail[u]) + Awaited(u) + deaths + 1
  <2>1. /\ pc[d] = "free" /\ pc'[d] = "received" /\ waits[t] = NoCall
        /\ waits' = [waits EXCEPT ![t] = d] /\ what'[d] = t
        /\ UNCHANGED <<trail, deaths>>
        /\ \A c \in Calls \ {d} : pc'[c] = pc[c] /\ what'[c] = what[c]
    BY <1>1 DEF Post, queueVars, FeedTypes
  <2>2. CASE u = t
    <3>1. Awaited(u) = 0 /\ Awaited(u)' = 1 /\ waits'[u] = d
      BY <1>t, <2>1, <2>2, FeedAssumption DEF Awaited
    <3>2. QED
      BY <1>t, <2>1, <3>1
  <2>3. CASE u # t
    <3>1. waits'[u] = waits[u] /\ Awaited(u)' = Awaited(u)
      BY <1>t, <2>1, <2>3 DEF Awaited
    <3>2. QED
      BY <1>t, <2>1, <2>3, <3>1
  <2>4. QED
    BY <2>2, <2>3
<1>2. ASSUME NEW t \in Trades, waits[t] # NoCall, Leave(t)
      PROVE  /\ \A c \in Calls : what'[c] = u /\ pc'[c] \notin {"free", "answered"} =>
                                    what[c] = u /\ pc[c] = pc'[c]
             /\ waits'[u] \in {NoCall, waits[u]}
             /\ u = t => Awaited(u) = 1 /\ Awaited(u)' = 0
             /\ u # t => Awaited(u)' = Awaited(u)
  <2>1. waits[t] \in Calls
    BY <1>2, <1>t
  <2>2. waits' = [waits EXCEPT ![t] = NoCall]
    BY <1>2 DEF Leave
  <2>3. \A c \in Calls : \/ pc'[c] = "free"
                         \/ pc'[c] = pc[c] /\ what'[c] = what[c]
    BY <1>2, <2>1 DEF Leave, callVars, FeedTypes
  <2>4. QED
    BY <1>2, <1>t, <2>2, <2>3 DEF Awaited
<1>3. ASSUME NEW t \in Trades, NEW o, waits[t] # NoCall, Leave(t), deaths' = deaths,
             Queue!AttemptAll({t}, [d \in {t} |-> o])
      PROVE  Kept
  <2>1. trail'[u] = IF u = t THEN Append(trail[t], o) ELSE trail[u]
    BY <1>3 DEF Queue!AttemptAll
  <2>2. Len(trail'[u]) = IF u = t THEN Len(trail[u]) + 1 ELSE Len(trail[u])
    BY <1>t, <2>1
  <2>3. /\ \A c \in Calls : what'[c] = u /\ pc'[c] \notin {"free", "answered"} =>
                               what[c] = u /\ pc[c] = pc'[c]
        /\ waits'[u] \in {NoCall, waits[u]}
        /\ u = t => Awaited(u) = 1 /\ Awaited(u)' = 0
        /\ u # t => Awaited(u)' = Awaited(u)
    BY <1>2, <1>3
  <2>4. QED
    BY <1>3, <1>t, <2>2, <2>3
<1>4. ASSUME NEW t \in Trades, GetAnswer(t) \/ TimeOut(t) PROVE Kept
  BY <1>3, <1>4 DEF GetAnswer, TimeOut
<1>5. ASSUME NEW t \in Trades, WorkerDies(t) PROVE Kept
  <2>1. /\ \A c \in Calls : what'[c] = u /\ pc'[c] \notin {"free", "answered"} =>
                               what[c] = u /\ pc[c] = pc'[c]
        /\ waits'[u] \in {NoCall, waits[u]}
        /\ u = t => Awaited(u) = 1 /\ Awaited(u)' = 0
        /\ u # t => Awaited(u)' = Awaited(u)
    BY <1>2, <1>5 DEF WorkerDies
  <2>2. trail' = trail /\ deaths' = deaths + 1
    BY <1>5 DEF WorkerDies, queueVars
  <2>3. QED
    BY <1>t, <2>1, <2>2
<1>6. ASSUME SetMode \/ \E t \in Trades : Redrive(t) PROVE Kept
  <2>1. UNCHANGED <<trail, waits, deaths, what, pc>>
    BY <1>6 DEF SetMode, Redrive, Queue!Redrive, queueVars, callVars
  <2>2. Awaited(u)' = Awaited(u)
    BY <2>1 DEF Awaited
  <2>3. QED
    BY <1>t, <2>1, <2>2
<1>7. QED
  BY <1>1, <1>4, <1>5, <1>6 DEF FeedNext

LEMMA FeedBooks == ASSUME NaiveIInv, FeedNext, UNCHANGED naiveVars PROVE NaiveBooks'
<1>1. /\ UNCHANGED <<nontrades, forgers, naive, applied, forged>>
      /\ FeedTypes(NaiveLabels) /\ forgers \subseteq Calls /\ applied \in Counts
  BY DEF naiveVars, ghostVars, NaiveIInv, NaiveCore, NaiveTypes
<1>2. FeedTypes(NaiveLabels)' /\ CallsFed
  BY <1>1, FeedShape DEF NaiveLabels
<1>3. TradesOnly'
  BY <1>1, <1>2 DEF NaiveIInv, NaiveBooks, TradesOnly, CallsFed, Handling, InAll
<1>4. \A u \in Trades : waits'[u] \notin forgers
  <2> SUFFICES ASSUME NEW u \in Trades, waits'[u] \in forgers PROVE FALSE
    OBVIOUS
  <2>1. CASE waits'[u] \in {NoCall, waits[u]}
    BY <1>1, <2>1, FeedAssumption DEF NaiveIInv, NaiveBooks, ForgedApart
  <2>2. CASE pc[waits'[u]] = "free"
    BY <2>2 DEF NaiveIInv, NaiveBooks, ForgedApart
  <2>3. QED
    BY <1>1, <2>1, <2>2, FeedReckoned
<1>5. \A c \in forgers : pc'[c] # "free"
  <2> SUFFICES ASSUME NEW c \in forgers, pc'[c] = "free" PROVE FALSE
    OBVIOUS
  <2>1. c \in Calls /\ pc[c] # "free" /\ \A u \in Trades : waits[u] # c
    BY <1>1 DEF NaiveIInv, NaiveBooks, ForgedApart
  <2>2. ASSUME NEW t \in Trades, waits[t] # NoCall, Leave(t) PROVE FALSE
    <3>1. waits[t] \in Calls \ {c}
      BY <1>1, <2>1, <2>2 DEF FeedTypes
    <3>2. pc'[c] = pc[c]
      BY <1>1, <2>1, <2>2, <3>1 DEF Leave, callVars, FeedTypes
    <3>3. QED
      BY <2>1, <3>2
  <2>3. ASSUME NEW t \in Trades, NEW d \in Calls, Post(t, d) PROVE FALSE
    BY <1>1, <2>1, <2>3 DEF Post, FeedTypes
  <2>4. ASSUME SetMode \/ \E t \in Trades : Redrive(t) PROVE FALSE
    BY <2>1, <2>4 DEF SetMode, Redrive, callVars
  <2>5. QED
    BY <2>2, <2>3, <2>4 DEF FeedNext, GetAnswer, TimeOut, WorkerDies
<1>6. ForgedApart'
  BY <1>1, <1>4, <1>5 DEF ForgedApart
<1>7. ASSUME NEW u \in Trades
      PROVE  applied'[u] + Cardinality(OnTheWay(u)') <= Len(trail'[u]) + Awaited(u)' + deaths'
  <2>1. Len(trail'[u]) + Awaited(u)' + deaths' \in Nat
    BY <1>2 DEF FeedTypes, Awaited
  <2>2. PICK n \in Nat : n = 0
    OBVIOUS
  <2>3. applied'[u] = applied[u] + n
    BY <1>1, <2>2 DEF Counts
  <2>4. \/ /\ OnTheWay(u)' \subseteq OnTheWay(u)
           /\ Len(trail'[u]) + Awaited(u)' + deaths' >= Len(trail[u]) + Awaited(u) + deaths
        \/ \E c \in Calls :
              /\ OnTheWay(u)' \subseteq OnTheWay(u) \cup {c}
              /\ Len(trail'[u]) + Awaited(u)' + deaths' = Len(trail[u]) + Awaited(u) + deaths + 1
    <3>1. CASE \A c \in Calls : what'[c] = u /\ pc'[c] \notin {"free", "answered"} =>
                                     what[c] = u /\ pc[c] = pc'[c]
      <4>1. OnTheWay(u)' \subseteq OnTheWay(u)
        BY <1>1, <3>1 DEF OnTheWay
      <4>2. CASE Len(trail'[u]) + Awaited(u)' + deaths' >= Len(trail[u]) + Awaited(u) + deaths
        BY <4>1, <4>2
      <4>3. CASE \E d \in Calls :
                    Len(trail'[u]) + Awaited(u)' + deaths' = Len(trail[u]) + Awaited(u) + deaths + 1
        BY <4>1, <4>3
      <4>4. QED
        BY <1>1, <4>2, <4>3, FeedReckoned
    <3>2. ASSUME NEW d \in Calls, \A c \in Calls \ {d} : pc'[c] = pc[c] /\ what'[c] = what[c]
          PROVE  OnTheWay(u)' \subseteq OnTheWay(u) \cup {d}
      BY <1>1, <3>2 DEF OnTheWay
    <3>3. QED
      BY <1>1, <3>1, <3>2, FeedReckoned
  <2>5. ~(n > 0)
    BY <2>2
  <2>6. QED
    BY <2>1, <2>3, <2>4, <2>5, PostsStep
<1>8. PostsPaid'
  BY <1>7 DEF PostsPaid
<1>9. QED
  BY <1>3, <1>6, <1>8 DEF NaiveBooks

LEMMA NaiveFeedKeeps == ASSUME NaiveIInv, FeedNext, UNCHANGED naiveVars PROVE NaiveIInv'
<1>1. /\ FeedTypes(NaiveLabels)' /\ UNCHANGED trade
      /\ CallsFed /\ \A u \in Trades : StatusFed(u)
  BY FeedShape DEF NaiveIInv, NaiveCore, NaiveTypes, NaiveLabels
<1>2. UNCHANGED <<nontrades, forgers, naive, nread, nflaky, applied, forged, overlapped>>
  BY DEF naiveVars, ghostVars
<1>3. NaiveTypes'
  BY <1>1, <1>2 DEF NaiveIInv, NaiveCore, NaiveTypes
<1>4. \A c \in Calls :
          \/ pc'[c] \in {"free", "received"}
          \/ pc'[c] = pc[c] /\ what'[c] = what[c] /\ reply'[c] = reply[c]
  BY <1>1 DEF CallsFed
<1>5. AnswersBacked'
  BY <1>1, <1>2, <1>4 DEF NaiveIInv, NaiveCore, AnswersBacked, StatusFed, AnsweredFor
<1>6. \A c \in Calls :
          \/ pc'[c] \notin Gap
          \/ pc[c] \in Gap /\ what'[c] = what[c] /\ nread'[c] = nread[c]
  BY <1>2, <1>4 DEF Gap
<1>7. NaiveCore'
  BY <1>1, <1>2, <1>3, <1>5, <1>6, NaiveQuietStep
<1>8. QED
  BY <1>7, FeedBooks DEF NaiveIInv

(* A forged call comes in.                                                 *)
LEMMA ForgeKeeps == ASSUME NaiveIInv, NEW t \in Trades, NEW c \in Calls, Forge(t, c) PROVE NaiveIInv'
<1>1. /\ pc[c] = "free" /\ what' = [what EXCEPT ![c] = t] /\ pc' = [pc EXCEPT ![c] = "received"]
      /\ forgers' = forgers \cup {c}
      /\ UNCHANGED <<trade, status, trail, waits, deaths, mode, reply>>
      /\ UNCHANGED <<nontrades, naive, nread, nflaky, applied, forged, overlapped>>
  BY DEF Forge, queueVars, ghostVars
<1>2. FeedTypes(NaiveLabels)
  BY DEF NaiveIInv, NaiveCore, NaiveTypes
<1>3. \A u \in Trades : waits[u] # c
  <2>1. what[c] = NoTrade
    BY <1>1, <1>2 DEF FeedTypes
  <2>2. \A u \in Trades : waits[u] # NoCall => what[waits[u]] = u
    BY <1>2 DEF FeedTypes
  <2>3. QED
    BY <2>1, <2>2, FeedAssumption
<1>4. /\ pc'[c] = "received" /\ what'[c] = t
      /\ \A d \in Calls \ {c} : pc'[d] = pc[d] /\ what'[d] = what[d]
  BY <1>1, <1>2 DEF FeedTypes
<1>5. FeedTypes(NaiveLabels)'
  <2>1. what' \in [Calls -> Trades \cup {NoTrade}] /\ pc' \in [Calls -> NaiveLabels]
    BY <1>1, <1>2 DEF FeedTypes, NaiveLabels
  <2>2. \A d \in Calls : pc'[d] = "free" <=> what'[d] = NoTrade
    BY <1>2, <1>4, FeedAssumption DEF FeedTypes
  <2>3. \A u \in Trades : waits'[u] # NoCall => what'[waits'[u]] = u
    BY <1>1, <1>2, <1>3, <1>4 DEF FeedTypes
  <2>4. QED
    BY <1>1, <1>2, <2>1, <2>2, <2>3 DEF FeedTypes
<1>6. NaiveTypes'
  BY <1>1, <1>5 DEF NaiveIInv, NaiveCore, NaiveTypes
<1>7. AnswersBacked'
  BY <1>1, <1>4 DEF NaiveIInv, NaiveCore, AnswersBacked
<1>8. \A d \in Calls :
          \/ pc'[d] \notin Gap
          \/ pc[d] \in Gap /\ what'[d] = what[d] /\ nread'[d] = nread[d]
  BY <1>1, <1>4 DEF Gap
<1>9. NaiveCore'
  BY <1>1, <1>6, <1>7, <1>8, NaiveQuietStep
<1>10. ForgedApart'
  BY <1>1, <1>2, <1>3, <1>4 DEF NaiveIInv, NaiveCore, NaiveTypes, NaiveBooks, ForgedApart
<1>11. TradesOnly'
  BY <1>1, <1>4 DEF NaiveIInv, NaiveBooks, TradesOnly, Handling, InAll
<1>12. \A u \in Trades : OnTheWay(u)' = OnTheWay(u) /\ Awaited(u)' = Awaited(u)
  BY <1>1, <1>4 DEF OnTheWay, Awaited
<1>13. PostsPaid'
  BY <1>1, <1>12 DEF NaiveIInv, NaiveBooks, PostsPaid
<1>14. QED
  BY <1>9, <1>10, <1>11, <1>13 DEF NaiveIInv, NaiveBooks

(* What is known of a call ends with it; its answer is awaited only if a   *)
(* delivery made it.                                                       *)
LEMMA NaiveFinishShape ==
    ASSUME NaiveIInv, NEW c \in Calls, pc[c] \notin {"free", "answered"},
           NEW o \in {"2xx", "failed"}, Finish(c, o), NaiveForget(c)
    PROVE  /\ FeedTypes(NaiveLabels)'
           /\ UNCHANGED <<trade, status, trail, waits, deaths, nontrades>>
           /\ \A d \in Calls \ {c} : /\ pc'[d] = pc[d] /\ what'[d] = what[d]
                                     /\ reply'[d] = reply[d] /\ nread'[d] = nread[d]
           /\ pc'[c] \in {"free", "answered"}
           /\ pc'[c] = "answered" => what'[c] = what[c] /\ reply'[c] = o /\ c \notin forgers
           /\ nread' \in [Calls -> Counts] /\ nflaky' \subseteq Calls /\ forgers' = forgers \ {c}
<1>1. FeedTypes(NaiveLabels)
  BY DEF NaiveIInv, NaiveCore, NaiveTypes
<1>2. /\ FeedTypes(NaiveLabels)'
      /\ UNCHANGED <<trade, status, trail, waits, deaths>>
      /\ \A d \in Calls \ {c} :
            pc'[d] = pc[d] /\ what'[d] = what[d] /\ reply'[d] = reply[d]
      /\ \/ pc'[c] = "free"
         \/ pc'[c] = "answered" /\ what'[c] = what[c] /\ reply'[c] = o
  BY <1>1, FinishShape DEF NaiveLabels
<1>3. pc'[c] = "answered" => c \notin forgers
  <2>1. CASE \E t \in Trades : waits[t] = c
    BY <2>1 DEF NaiveIInv, NaiveBooks, ForgedApart
  <2>2. CASE ~\E t \in Trades : waits[t] = c
    BY <1>1, <2>2 DEF Finish, FeedTypes
  <2>3. QED
    BY <2>1, <2>2
<1>4. /\ nread' \in [Calls -> Counts] /\ nflaky' \subseteq Calls /\ forgers' = forgers \ {c}
      /\ nontrades' = nontrades
      /\ \A d \in Calls \ {c} : nread'[d] = nread[d]
  BY DEF NaiveForget, NaiveIInv, NaiveCore, NaiveTypes, NoCredits, Counts
<1>5. QED
  BY <1>2, <1>3, <1>4

(* A call that ends without a commit.                                      *)
LEMMA NaiveEnds ==
    ASSUME NaiveIInv, NEW c \in Calls, pc[c] \notin {"free", "answered"},
           NEW o \in {"2xx", "failed"}, Finish(c, o), o = "2xx" => what[c] \in nontrades,
           NaiveForget(c), UNCHANGED <<naive, ghostVars>>
    PROVE  NaiveIInv'
<1>1. /\ FeedTypes(NaiveLabels)'
      /\ UNCHANGED <<trade, status, trail, waits, deaths, nontrades>>
      /\ \A d \in Calls \ {c} : /\ pc'[d] = pc[d] /\ what'[d] = what[d]
                                /\ reply'[d] = reply[d] /\ nread'[d] = nread[d]
      /\ pc'[c] \in {"free", "answered"}
      /\ pc'[c] = "answered" => what'[c] = what[c] /\ reply'[c] = o
      /\ nread' \in [Calls -> Counts] /\ nflaky' \subseteq Calls /\ forgers' = forgers \ {c}
  BY NaiveFinishShape
<1>2. UNCHANGED <<naive, applied, forged, overlapped>>
  BY DEF ghostVars
<1>3. NaiveTypes'
  BY <1>1, <1>2 DEF NaiveIInv, NaiveCore, NaiveTypes
<1>4. AnswersBacked'
  BY <1>1, <1>2 DEF NaiveIInv, NaiveCore, AnswersBacked
<1>5. \A d \in Calls :
          \/ pc'[d] \notin Gap
          \/ pc[d] \in Gap /\ what'[d] = what[d] /\ nread'[d] = nread[d]
  BY <1>1 DEF Gap
<1>6. NaiveCore'
  BY <1>1, <1>2, <1>3, <1>4, <1>5, NaiveQuietStep
<1>7. NaiveBooks'
  BY <1>1, <1>2, CallBooks
<1>8. QED
  BY <1>6, <1>7 DEF NaiveIInv

LEMMA NaiveRefuseKeeps == ASSUME NaiveIInv, NEW c \in Calls, NaiveRefuse(c) PROVE NaiveIInv'
<1>1. PICK o \in {"2xx", "failed"} : o = "failed"
  OBVIOUS
<1>2. QED
  BY <1>1, NaiveEnds DEF NaiveRefuse

LEMMA NaiveIgnoreKeeps == ASSUME NaiveIInv, NEW c \in Calls, NaiveIgnore(c) PROVE NaiveIInv'
<1>1. PICK o \in {"2xx", "failed"} : o = IF mode = "flaky" THEN "failed" ELSE "2xx"
  OBVIOUS
<1>2. /\ pc[c] \notin {"free", "answered"} /\ Finish(c, o) /\ what[c] \in nontrades
      /\ NaiveForget(c) /\ UNCHANGED <<naive, ghostVars>>
  BY <1>1 DEF NaiveIgnore
<1>3. QED
  BY <1>2, NaiveEnds

LEMMA NaiveAbortKeeps == ASSUME NaiveIInv, NEW c \in Calls, NaiveAbort(c) PROVE NaiveIInv'
<1>1. PICK o \in {"2xx", "failed"} : o = "failed"
  OBVIOUS
<1>2. QED
  BY <1>1, NaiveEnds DEF NaiveAbort

(* A call that goes on: the types, and what it leaves alone.               *)
LEMMA NaiveGoes ==
    ASSUME NaiveIInv, NEW c \in Calls, pc[c] # "free",
           NEW l \in Handling, GoTo(c, l),
           pc[c] \in Handling \/ (pc[c] = "received" /\ what[c] \notin nontrades),
           nread' \in [Calls -> Counts], nflaky' \subseteq Calls, overlapped' \subseteq Accounts,
           UNCHANGED <<nontrades, forgers, naive, applied, forged>>
    PROVE  /\ NaiveTypes' /\ CreditsBacked' /\ AnswersBacked' /\ ShownBacked' /\ NaiveBooks'
           /\ pc' = [pc EXCEPT ![c] = l] /\ pc'[c] = l
           /\ \A d \in Calls \ {c} : pc'[d] = pc[d]
           /\ UNCHANGED <<trade, what, reply>>
<1>1. l \in NaiveLabels \ {"free"}
  BY DEF NaiveLabels, Handling
<1>2. /\ FeedTypes(NaiveLabels)'
      /\ UNCHANGED <<trade, status, trail, waits, deaths, mode, what, reply>>
      /\ pc' = [pc EXCEPT ![c] = l]
  BY <1>1, GoToTypes DEF NaiveIInv, NaiveCore, NaiveTypes
<1>3. NaiveTypes'
  BY <1>2 DEF NaiveIInv, NaiveCore, NaiveTypes
<1>4. pc'[c] = l /\ \A d \in Calls \ {c} : pc'[d] = pc[d]
  BY <1>2 DEF NaiveIInv, NaiveCore, NaiveTypes, FeedTypes
<1>5. CreditsBacked' /\ ShownBacked'
  BY <1>2 DEF NaiveIInv, NaiveCore, CreditsBacked, ShownBacked, InAll
<1>6. AnswersBacked'
  BY <1>2, <1>4 DEF NaiveIInv, NaiveCore, AnswersBacked, Handling
<1>7. what[c] \notin nontrades /\ pc[c] \notin {"free", "answered"}
  BY DEF NaiveIInv, NaiveBooks, TradesOnly, Handling
<1>8. NaiveBooks'
  BY <1>2, <1>4, <1>7, CallBooks
<1>9. QED
  BY <1>2, <1>3, <1>4, <1>5, <1>6, <1>8

(* A call that goes on to a place outside the gap, or was in it already.   *)
LEMMA NaiveGoesOn ==
    ASSUME NaiveIInv, NEW c \in Calls, pc[c] # "free",
           NEW l \in Handling, GoTo(c, l),
           pc[c] \in Handling \/ (pc[c] = "received" /\ what[c] \notin nontrades),
           l \notin Gap \/ pc[c] \in Gap, nflaky' \subseteq Calls,
           UNCHANGED <<nontrades, forgers, naive, nread, applied, forged, overlapped>>
    PROVE  NaiveIInv'
<1>1. nread' \in [Calls -> Counts] /\ overlapped' \subseteq Accounts
  BY DEF NaiveIInv, NaiveCore, NaiveTypes
<1>2. /\ NaiveTypes' /\ AnswersBacked' /\ NaiveBooks' /\ pc'[c] = l
      /\ \A d \in Calls \ {c} : pc'[d] = pc[d]
      /\ UNCHANGED <<trade, what>>
  BY <1>1, NaiveGoes
<1>3. \A d \in Calls :
          \/ pc'[d] \notin Gap
          \/ pc[d] \in Gap /\ what'[d] = what[d] /\ nread'[d] = nread[d]
  BY <1>2
<1>4. NaiveCore'
  BY <1>2, <1>3, NaiveQuietStep
<1>5. QED
  BY <1>2, <1>4 DEF NaiveIInv

LEMMA NaiveAcceptKeeps == ASSUME NaiveIInv, NEW c \in Calls, NaiveAccept(c) PROVE NaiveIInv'
<1>1. /\ pc[c] = "received" /\ GoTo(c, "ensure") /\ what[c] \notin nontrades /\ nflaky' \subseteq Calls
      /\ UNCHANGED <<nontrades, forgers, naive, nread, applied, forged, overlapped>>
  BY DEF NaiveAccept, ghostVars, NaiveIInv, NaiveCore, NaiveTypes
<1>2. PICK l \in Handling : l = "ensure"
  BY DEF Handling
<1>3. QED
  BY <1>1, <1>2, NaiveGoesOn DEF Gap

LEMMA NaiveEnsureKeeps == ASSUME NaiveIInv, NEW c \in Calls, NaiveEnsure(c) PROVE NaiveIInv'
<1>1. /\ pc[c] = "ensure" /\ GoTo(c, "read") /\ nflaky' \subseteq Calls
      /\ UNCHANGED <<nontrades, forgers, naive, nread, applied, forged, overlapped>>
  BY DEF NaiveEnsure, naiveVars, ghostVars, NaiveIInv, NaiveCore, NaiveTypes
<1>2. PICK l \in Handling : l = "read"
  BY DEF Handling
<1>3. QED
  BY <1>1, <1>2, NaiveGoesOn DEF Gap, Handling

LEMMA NaiveUpdateKeeps == ASSUME NaiveIInv, NEW c \in Calls, NaiveUpdate(c) PROVE NaiveIInv'
<1>1. /\ pc[c] = "write" /\ GoTo(c, "commit") /\ nflaky' \subseteq Calls
      /\ UNCHANGED <<nontrades, forgers, naive, nread, applied, forged, overlapped>>
  BY DEF NaiveUpdate, naiveVars, ghostVars, NaiveIInv, NaiveCore, NaiveTypes
<1>2. PICK l \in Handling : l = "commit"
  BY DEF Handling
<1>3. QED
  BY <1>1, <1>2, NaiveGoesOn DEF Gap, Handling

(* The read: from then on its call is in the gap.                          *)
LEMMA NaiveReadKeeps == ASSUME NaiveIInv, NEW c \in Calls, NaiveRead(c) PROVE NaiveIInv'
<1>1. /\ pc[c] = "read" /\ what[c] \in Trades /\ AccountOf(c) \in Accounts
      /\ trade \in [Trades -> [account : Accounts, at : Times]]
  BY DEF NaiveRead, NaiveIInv, NaiveCore, NaiveTypes, FeedTypes, NaiveLabels, AccountOf
<1>2. PICK a \in Accounts : a = AccountOf(c)
  BY <1>1
<1>3. /\ GoTo(c, "write") /\ UNCHANGED <<nontrades, forgers, naive, nflaky, applied, forged>>
      /\ nread' = [nread EXCEPT ![c] = naive[a].credits]
      /\ overlapped' = overlapped \cup {b \in {a} : InGap(b) # {}}
  BY <1>2 DEF NaiveRead
<1>4. naive[a].credits \in Counts
  BY DEF NaiveIInv, NaiveCore, NaiveTypes
<1>5. /\ nread' \in [Calls -> Counts] /\ nread'[c] = naive[a].credits
      /\ \A d \in Calls \ {c} : nread'[d] = nread[d]
      /\ nflaky' \subseteq Calls /\ overlapped' \subseteq Accounts
  BY <1>3, <1>4 DEF NaiveIInv, NaiveCore, NaiveTypes
<1>6. PICK l \in Handling : l = "write"
  BY DEF Handling
<1>7. /\ NaiveTypes' /\ AnswersBacked' /\ CreditsBacked' /\ ShownBacked' /\ NaiveBooks'
      /\ pc'[c] = "write"
      /\ \A d \in Calls \ {c} : pc'[d] = pc[d]
      /\ UNCHANGED <<trade, what>>
  BY <1>1, <1>3, <1>5, <1>6, NaiveGoes DEF Handling
<1>8. \A d \in Calls : AccountOf(d)' = AccountOf(d)
  BY <1>7 DEF AccountOf
<1>9. ReadsBacked'
  <2>1. \A u \in Trades : trade[u].account = a => nread'[c][u] <= InAll(u)
    BY <1>5 DEF NaiveIInv, NaiveCore, CreditsBacked
  <2>2. \A d \in Calls \ {c} : pc'[d] \in Gap =>
            \A u \in Trades : trade[u].account = AccountOf(d) => nread'[d][u] <= InAll(u)
    BY <1>5, <1>7 DEF NaiveIInv, NaiveCore, ReadsBacked
  <2>3. QED
    BY <1>2, <1>3, <1>7, <1>8, <2>1, <2>2 DEF ReadsBacked, InAll
<1>10. InGap(a)' = InGap(a) \cup {c}
  BY <1>2, <1>7, <1>8 DEF InGap
<1>11. \A b \in Accounts : b # a => InGap(b)' = InGap(b) /\ c \notin InGap(b)
  BY <1>2, <1>7, <1>8 DEF InGap
<1>12. ASSUME NEW b \in Accounts \ overlapped'
       PROVE  /\ \A u \in Trades : trade'[u].account = b => naive'[b].credits[u] = InAll(u)'
              /\ \A d \in InGap(b)' : nread'[d] = naive'[b].credits
              /\ \A d, e \in InGap(b)' : d = e
  <2>1. b \notin overlapped /\ UNCHANGED <<trade, naive, applied, forged>>
    BY <1>3, <1>7
  <2>2. CASE b = a
    <3>1. InGap(b) = {}
      BY <1>3, <2>2
    <3>2. InGap(b)' = {c}
      BY <1>10, <2>2, <3>1
    <3>3. QED
      BY <1>5, <2>1, <2>2, <3>2 DEF NaiveIInv, NaiveCore, Undisturbed, InAll
  <2>3. CASE b # a
    <3>1. InGap(b)' = InGap(b) /\ InGap(b) \subseteq Calls \ {c}
      BY <1>11, <2>3 DEF InGap
    <3>2. QED
      BY <1>5, <2>1, <3>1 DEF NaiveIInv, NaiveCore, Undisturbed, InAll
  <2>4. QED
    BY <2>2, <2>3
<1>13. Undisturbed'
  BY <1>12 DEF Undisturbed
<1>14. QED
  BY <1>7, <1>9, <1>13 DEF NaiveIInv, NaiveCore

(* What a commit does.                                                     *)
LEMMA NaiveCommitShape ==
    ASSUME NaiveIInv, NEW c \in Calls, NEW u \in Trades, NEW a \in Accounts,
           NaiveCommit(c), u = what[c], a = AccountOf(c)
    PROVE  /\ c \in InGap(a) /\ trade[u].account = a /\ nread[c] \in Counts
           /\ naive' = [naive EXCEPT ![a] = Written(c)]
           /\ Written(c).credits = [nread[c] EXCEPT ![u] = @ + 1] /\ Written(c).shows = u
           /\ \A v \in Trades : InAll(v)' = IF v = u THEN InAll(v) + 1 ELSE InAll(v)
           /\ \A v \in Trades : applied'[v] >= applied[v]
           /\ NaiveTypes' /\ NaiveBooks'
           /\ UNCHANGED <<trade, status, nontrades, overlapped>>
           /\ \A d \in Calls \ {c} : /\ pc'[d] = pc[d] /\ what'[d] = what[d]
                                     /\ reply'[d] = reply[d] /\ nread'[d] = nread[d]
           /\ \/ pc'[c] = "free"
              \/ pc'[c] = "answered" /\ what'[c] = u /\ applied'[u] > 0
<1>1. /\ pc[c] = "commit" /\ Finish(c, NaiveAnswer(c)) /\ NaiveForget(c)
      /\ naive' = [naive EXCEPT ![a] = Written(c)]
      /\ \/ c \notin forgers /\ forged' = forged /\ applied' = [applied EXCEPT ![u] = @ + 1]
         \/ c \in forgers /\ applied' = applied /\ forged' = [forged EXCEPT ![u] = @ + 1]
      /\ overlapped' = overlapped
  BY DEF NaiveCommit
<1>2. PICK o \in {"2xx", "failed"} : o = NaiveAnswer(c)
  BY DEF NaiveAnswer
<1>3. /\ FeedTypes(NaiveLabels)'
      /\ UNCHANGED <<trade, status, trail, waits, deaths, nontrades>>
      /\ \A d \in Calls \ {c} : /\ pc'[d] = pc[d] /\ what'[d] = what[d]
                                /\ reply'[d] = reply[d] /\ nread'[d] = nread[d]
      /\ pc'[c] \in {"free", "answered"}
      /\ pc'[c] = "answered" => what'[c] = u /\ c \notin forgers
      /\ nread' \in [Calls -> Counts] /\ nflaky' \subseteq Calls /\ forgers' = forgers \ {c}
  BY <1>1, <1>2, NaiveFinishShape
<1>4. nread[c] \in Counts /\ applied \in Counts /\ forged \in Counts
  BY DEF NaiveIInv, NaiveCore, NaiveTypes
<1>5. /\ Written(c).credits = [nread[c] EXCEPT ![u] = @ + 1] /\ Written(c).shows = u
      /\ Written(c) \in [opened : BOOLEAN, credits : Counts, shows : Trades \cup {NoTrade}]
  BY <1>4 DEF Written, Counts
<1>6. applied' \in Counts /\ forged' \in Counts
  BY <1>1, <1>4 DEF Counts
<1>7. NaiveTypes'
  BY <1>1, <1>3, <1>5, <1>6 DEF NaiveIInv, NaiveCore, NaiveTypes
<1>8. c \in InGap(a) /\ trade[u].account = a
  BY <1>1 DEF InGap, AccountOf
<1>9. u \notin nontrades
  BY <1>1 DEF NaiveIInv, NaiveBooks, TradesOnly, Handling
<1>10. NaiveBooks'
  BY <1>1, <1>3, <1>9, CallBooks
<1>11. \A v \in Trades : InAll(v)' = IF v = u THEN InAll(v) + 1 ELSE InAll(v)
  BY <1>1, <1>4 DEF InAll, Counts
<1>12. \A v \in Trades : applied'[v] >= applied[v]
  BY <1>1, <1>4 DEF Counts
<1>13. c \notin forgers => applied'[u] > 0
  BY <1>1, <1>4 DEF Counts
<1>14. QED
  BY <1>1, <1>3, <1>4, <1>5, <1>7, <1>8, <1>10, <1>11, <1>12, <1>13

LEMMA NaiveCommitKeeps == ASSUME NaiveIInv, NEW c \in Calls, NaiveCommit(c) PROVE NaiveIInv'
<1>1. pc[c] = "commit" /\ what[c] \in Trades /\ AccountOf(c) \in Accounts
  BY DEF NaiveCommit, NaiveIInv, NaiveCore, NaiveTypes, FeedTypes, AccountOf
<1>2. PICK u \in Trades : u = what[c]
  BY <1>1
<1>3. PICK a \in Accounts : a = AccountOf(c)
  BY <1>1
<1>4. /\ c \in InGap(a) /\ trade[u].account = a /\ nread[c] \in Counts
      /\ naive' = [naive EXCEPT ![a] = Written(c)]
      /\ Written(c).credits = [nread[c] EXCEPT ![u] = @ + 1] /\ Written(c).shows = u
      /\ \A v \in Trades : InAll(v)' = IF v = u THEN InAll(v) + 1 ELSE InAll(v)
      /\ \A v \in Trades : applied'[v] >= applied[v]
      /\ NaiveTypes' /\ NaiveBooks' /\ UNCHANGED <<trade, status, nontrades, overlapped>>
      /\ \A d \in Calls \ {c} : /\ pc'[d] = pc[d] /\ what'[d] = what[d]
                                /\ reply'[d] = reply[d] /\ nread'[d] = nread[d]
      /\ \/ pc'[c] = "free"
         \/ pc'[c] = "answered" /\ what'[c] = u /\ applied'[u] > 0
  BY <1>2, <1>3, NaiveCommitShape
<1>5. /\ naive'[a].credits = [nread[c] EXCEPT ![u] = @ + 1] /\ naive'[a].shows = u
      /\ \A b \in Accounts : b # a => naive'[b] = naive[b]
  BY <1>4 DEF NaiveIInv, NaiveCore, NaiveTypes
<1>6. /\ InAll(u)' = InAll(u) + 1
      /\ \A v \in Trades : v # u => InAll(v)' = InAll(v)
      /\ \A v \in Trades : InAll(v) \in Nat /\ InAll(v)' \in Nat /\ InAll(v) <= InAll(v)'
  <2>1. \A v \in Trades : InAll(v) \in Nat
    BY DEF NaiveIInv, NaiveCore, NaiveTypes, Counts, InAll
  <2>2. QED
    BY <1>4, <2>1
<1>7. /\ naive'[a].credits[u] = nread[c][u] + 1
      /\ \A v \in Trades : v # u => naive'[a].credits[v] = nread[c][v]
      /\ \A v \in Trades : nread[c][v] \in Nat
  BY <1>4, <1>5 DEF Counts
<1>8. \A v \in Trades : trade[v].account \in Accounts
  BY DEF NaiveIInv, NaiveCore, NaiveTypes, FeedTypes
<1>9. CreditsBacked'
  <2>1. \A v \in Trades : trade[v].account = a => nread[c][v] <= InAll(v)
    BY <1>1, <1>3 DEF NaiveIInv, NaiveCore, ReadsBacked, Gap
  <2>2. ASSUME NEW v \in Trades PROVE naive'[trade[v].account].credits[v] <= InAll(v)'
    <3>1. CASE v = u
      BY <1>4, <1>6, <1>7, <2>1, <3>1
    <3>2. CASE v # u /\ trade[v].account = a
      BY <1>6, <1>7, <2>1, <3>2
    <3>3. CASE v # u /\ trade[v].account # a
      BY <1>5, <1>6, <1>8, <3>3 DEF NaiveIInv, NaiveCore, CreditsBacked
    <3>4. QED
      BY <3>1, <3>2, <3>3
  <2>3. QED
    BY <1>4, <2>2 DEF CreditsBacked
<1>10. \A d \in Calls : pc'[d] \in Gap =>
           d # c /\ pc[d] \in Gap /\ nread'[d] = nread[d] /\ AccountOf(d)' = AccountOf(d)
  BY <1>4 DEF Gap, AccountOf
<1>11. ReadsBacked'
  <2>1. ASSUME NEW d \in Calls, pc'[d] \in Gap,
               NEW v \in Trades, trade'[v].account = AccountOf(d)'
        PROVE  nread'[d][v] <= InAll(v)'
    <3>1. nread[d][v] <= InAll(v)
      BY <1>4, <1>10, <2>1 DEF NaiveIInv, NaiveCore, ReadsBacked
    <3>2. nread[d][v] \in Nat /\ InAll(v) \in Nat /\ InAll(v)' \in Nat
      BY <1>6 DEF NaiveIInv, NaiveCore, NaiveTypes, Counts
    <3>3. nread[d][v] <= InAll(v)'
      BY <1>6, <3>1, <3>2
    <3>4. QED
      BY <1>10, <2>1, <3>3
  <2>2. QED
    BY <2>1 DEF ReadsBacked
<1>12. ASSUME NEW b \in Accounts \ overlapped'
       PROVE  /\ \A v \in Trades : trade'[v].account = b => naive'[b].credits[v] = InAll(v)'
              /\ \A d \in InGap(b)' : nread'[d] = naive'[b].credits
              /\ \A d, e \in InGap(b)' : d = e
  <2>1. \A d \in InGap(b)' : d # c /\ d \in InGap(b) /\ nread'[d] = nread[d]
    BY <1>10 DEF InGap, Gap
  <2>2. b \notin overlapped
    BY <1>4
  <2>3. CASE b = a
    <3>1. /\ nread[c] = naive[a].credits
          /\ \A v \in Trades : trade[v].account = a => naive[a].credits[v] = InAll(v)
          /\ \A d \in InGap(a) : d = c
      BY <1>4, <2>2, <2>3 DEF NaiveIInv, NaiveCore, Undisturbed
    <3>2. InGap(b)' = {}
      BY <2>1, <2>3, <3>1
    <3>3. \A v \in Trades : trade[v].account = a => naive'[a].credits[v] = InAll(v)'
      BY <1>4, <1>6, <1>7, <3>1
    <3>4. QED
      BY <1>4, <2>3, <3>2, <3>3
  <2>4. CASE b # a
    <3>1. /\ \A v \in Trades : trade[v].account = b => naive[b].credits[v] = InAll(v)
          /\ \A d \in InGap(b) : nread[d] = naive[b].credits
          /\ \A d, e \in InGap(b) : d = e
      BY <2>2 DEF NaiveIInv, NaiveCore, Undisturbed
    <3>2. \A v \in Trades : trade[v].account = b => InAll(v)' = InAll(v)
      BY <1>4, <1>6, <2>4
    <3>3. QED
      BY <1>4, <1>5, <2>1, <2>4, <3>1, <3>2
  <2>5. QED
    BY <2>3, <2>4
<1>13. Undisturbed'
  BY <1>12 DEF Undisturbed
<1>14. AnswersBacked'
  <2>1. applied \in Counts /\ applied' \in Counts /\ status \in [Trades -> {"pending", "succeeded", "dead_lettered"}]
    BY <1>4 DEF NaiveIInv, NaiveCore, NaiveTypes, FeedTypes
  <2>2. \A v \in Trades : applied[v] > 0 => applied'[v] > 0
    BY <1>4, <2>1 DEF Counts
  <2>3. ASSUME NEW d \in Calls \ {c}, pc'[d] = "answered", reply'[d] = "2xx"
        PROVE  applied'[what'[d]] > 0 \/ what'[d] \in nontrades'
    <3>1. pc[d] = "answered" /\ reply[d] = "2xx" /\ what'[d] = what[d] /\ what[d] \in Trades
      BY <1>4, <2>3 DEF NaiveIInv, NaiveCore, NaiveTypes, FeedTypes
    <3>2. applied[what[d]] > 0 \/ what[d] \in nontrades
      BY <3>1 DEF NaiveIInv, NaiveCore, AnswersBacked
    <3>3. QED
      BY <1>4, <2>2, <3>1, <3>2
  <2>4. pc'[c] = "answered" => applied'[what'[c]] > 0
    BY <1>4
  <2>5. \A v \in Trades : status'[v] = "succeeded" => applied'[v] > 0 \/ v \in nontrades'
    BY <1>4, <2>2 DEF NaiveIInv, NaiveCore, AnswersBacked
  <2>6. QED
    BY <2>3, <2>4, <2>5 DEF AnswersBacked
<1>15. ShownBacked'
  <2>1. ASSUME NEW b \in Accounts, naive'[b].opened
        PROVE  \E v \in Trades : naive'[b].shows = v /\ InAll(v)' > 0
    <3>1. CASE b = a
      <4>1. InAll(u)' > 0
        BY <1>6
      <4>2. QED
        BY <1>5, <3>1, <4>1
    <3>2. CASE b # a
      <4>1. naive'[b] = naive[b] /\ naive[b].shows \in Trades /\ InAll(naive[b].shows) > 0
        BY <1>5, <2>1, <3>2 DEF NaiveIInv, NaiveCore, ShownBacked
      <4>2. PICK v \in Trades : v = naive[b].shows
        BY <4>1
      <4>3. InAll(v) > 0
        BY <4>1, <4>2
      <4>4. InAll(v)' > 0
        BY <1>6, <4>3
      <4>5. QED
        BY <4>1, <4>2, <4>4
    <3>3. QED
      BY <3>1, <3>2
  <2>2. QED
    BY <2>1 DEF ShownBacked, InAll
<1>16. QED
  BY <1>4, <1>9, <1>11, <1>13, <1>14, <1>15 DEF NaiveIInv, NaiveCore

LEMMA NaiveStutter == ASSUME NaiveIInv, UNCHANGED <<feedVars, naiveVars>> PROVE NaiveIInv'
<1>1. /\ UNCHANGED <<trade, status, trail, waits, deaths, mode, what, pc, reply>>
      /\ UNCHANGED <<nontrades, forgers, naive, nread, nflaky, applied, forged, overlapped>>
  BY DEF feedVars, naiveVars, ghostVars
<1>2. NaiveTypes' /\ AnswersBacked'
  BY <1>1 DEF NaiveIInv, NaiveCore, NaiveTypes, FeedTypes, AnswersBacked
<1>3. \A c \in Calls :
          \/ pc'[c] \notin Gap
          \/ pc[c] \in Gap /\ what'[c] = what[c] /\ nread'[c] = nread[c]
  BY <1>1
<1>4. NaiveCore'
  BY <1>1, <1>2, <1>3, NaiveQuietStep
<1>5. ForgedApart' /\ TradesOnly'
  BY <1>1 DEF NaiveIInv, NaiveBooks, ForgedApart, TradesOnly, InAll
<1>6. PostsPaid'
  BY <1>1 DEF NaiveIInv, NaiveBooks, PostsPaid, OnTheWay, Awaited
<1>7. QED
  BY <1>4, <1>5, <1>6 DEF NaiveIInv, NaiveBooks

LEMMA NaiveNextIInv == NaiveIInv /\ [NaiveNext]_<<feedVars, naiveVars>> => NaiveIInv'
<1> SUFFICES ASSUME NaiveIInv, [NaiveNext]_<<feedVars, naiveVars>> PROVE NaiveIInv'
  OBVIOUS
<1>1. CASE FeedNext /\ UNCHANGED naiveVars
  BY <1>1, NaiveFeedKeeps
<1>2. ASSUME NEW c \in Calls, NaiveHandle(c) PROVE NaiveIInv'
  BY <1>2, NaiveRefuseKeeps, NaiveIgnoreKeeps, NaiveAcceptKeeps, NaiveEnsureKeeps, NaiveReadKeeps,
     NaiveUpdateKeeps, NaiveCommitKeeps DEF NaiveHandle
<1>3. ASSUME NEW c \in Calls, NaiveAbort(c) PROVE NaiveIInv'
  BY <1>3, NaiveAbortKeeps
<1>4. ASSUME NEW t \in Trades, NEW c \in Calls, Forge(t, c) PROVE NaiveIInv'
  BY <1>4, ForgeKeeps
<1>5. CASE UNCHANGED <<feedVars, naiveVars>>
  BY <1>5, NaiveStutter
<1>6. QED
  BY <1>1, <1>2, <1>3, <1>4, <1>5 DEF NaiveNext

LEMMA NaiveImplied == NaiveIInv => NaiveFaultsExplained
<1> SUFFICES ASSUME NaiveIInv PROVE NaiveFaultsExplained
  OBVIOUS
<1> USE DEF NaiveIInv, NaiveCore, NaiveBooks
<1>1. ASSUME NEW u \in Trades
      PROVE  LET credits == naive[trade[u].account].credits[u]
                 waiting == IF waits[u] = NoCall THEN 0 ELSE 1
             IN  /\ applied[u] <= Len(trail[u]) + waiting + deaths
                 /\ credits <= applied[u] + forged[u]
                 /\ trade[u].account \notin overlapped => credits = applied[u] + forged[u]
                 /\ status[u] = "succeeded" => applied[u] > 0 \/ u \in nontrades
                 /\ u \in nontrades => credits = 0
  <2>1. trade[u].account \in Accounts
    BY DEF NaiveTypes, FeedTypes
  <2>2. /\ applied[u] + Cardinality(OnTheWay(u)) <= Len(trail[u]) + Awaited(u) + deaths
        /\ Cardinality(OnTheWay(u)) \in Nat
    BY OnTheWayFinite DEF PostsPaid
  <2>3. /\ Len(trail[u]) \in Nat /\ deaths \in Nat /\ applied[u] \in Nat /\ Awaited(u) \in Nat
        /\ naive[trade[u].account].credits[u] \in Nat
    BY <2>1 DEF NaiveTypes, FeedTypes, Awaited, Counts
  <2>4. applied[u] <= Len(trail[u]) + Awaited(u) + deaths
    BY <2>2, <2>3
  <2>5. /\ naive[trade[u].account].credits[u] <= InAll(u)
        /\ trade[u].account \notin overlapped => naive[trade[u].account].credits[u] = InAll(u)
    BY <2>1 DEF CreditsBacked, Undisturbed
  <2>6. u \in nontrades => InAll(u) = 0
    BY DEF TradesOnly
  <2>7. u \in nontrades => naive[trade[u].account].credits[u] = 0
    BY <2>3, <2>5, <2>6
  <2>8. QED
    BY <2>4, <2>5, <2>7 DEF Awaited, InAll, AnswersBacked
<1>2. ASSUME NEW a \in Accounts, naive[a].opened
      PROVE  naive[a].shows \in {u \in Trades : applied[u] + forged[u] > 0}
  BY <1>2 DEF ShownBacked, InAll
<1>3. QED
  BY <1>1, <1>2 DEF NaiveFaultsExplained

NaivePart == part = "naive" => NaiveIInv

(* How far Bank A goes wrong: a trade is credited again only for a further *)
(* POST of it or for a forged call, a credit is lost only where calls      *)
(* overlapped, the status shown is of a trade that was applied, and what is*)
(* acknowledged was applied or is no trade, which is never credited.       *)
THEOREM NaiveFaultsAsClaimed == ServicesSpec => []NaiveAsClaimed
<1>1. ServicesInit => NaivePart
  BY NaiveInitIInv DEF ServicesInit, NaivePart
<1>2. NaivePart /\ [Services /\ UNCHANGED part]_allVars => NaivePart'
  <2> SUFFICES ASSUME NaivePart, [Services /\ UNCHANGED part]_allVars, part = "naive"
               PROVE  NaiveIInv'
    BY DEF NaivePart, allVars
  <2>1. CASE Services
    <3>1. NaiveNext
      BY <2>1 DEF Services, ForceRuns
    <3>2. QED
      BY <3>1, NaiveNextIInv DEF NaivePart
  <2>2. CASE UNCHANGED allVars
    BY <2>2, NaiveStutter DEF NaivePart, allVars
  <2>3. QED
    BY <2>1, <2>2
<1>3. NaivePart => NaiveAsClaimed
  BY NaiveImplied DEF NaivePart, NaiveAsClaimed
<1>4. QED
  BY <1>1, <1>2, <1>3, PTL DEF ServicesSpec

-----------------------------------------------------------------------------
(* The view of Bank B.                                                     *)

Reading == {"accounts", "counts", "done"}

(* What the bank and the feed do not know of yet.                          *)
Unknown(u) ==
    /\ waits[u] = NoCall
    /\ status[u] = "pending"
    /\ u \notin processed
    /\ \A c \in Calls : what[c] # u

ViewKeptToLog ==
    /\ logged \subseteq Trades
    /\ vpc \in Reading \cup {"log"}
    /\ view \in [expected : SUBSET Trades, credits : Counts,
                 pending : SUBSET Trades, dead : SUBSET Trades]
    /\ \A u \in Trades \ logged : Unknown(u)

(* What a reading that began in a quiet moment relies on: all that it      *)
(* expects has been applied, and stays so; what it finds in the accounts is*)
(* right unless more has been published since.                             *)
ViewHolds ==
    vpc \in Reading =>
        /\ view.expected \subseteq logged
        /\ quiet => view.expected \subseteq processed
        /\ vpc # "accounts" /\ quiet /\ logged = view.expected =>
              \A u \in Trades : view.credits[u] = IF u \in view.expected THEN 1 ELSE 0

(* The inductive invariant, over that of the bank.                         *)
ViewIInv ==
    /\ IInv
    /\ ViewKeptToLog
    /\ ViewHolds

LEMMA ViewInitIInv == Init /\ ViewInit => ViewIInv
<1> SUFFICES ASSUME Init, ViewInit PROVE ViewIInv
  OBVIOUS
<1>1. IInv
  BY InitIInv
<1>2. \A u \in Trades : Unknown(u)
  BY FeedAssumption DEF Init, FeedInit, Queue!Init, Unknown
<1>3. ViewKeptToLog /\ ViewHolds
  BY <1>2 DEF ViewInit, ViewKeptToLog, ViewHolds, Reading, NoView, Counts
<1>4. QED
  BY <1>1, <1>3 DEF ViewIInv

(* The bank's tables only grow.                                            *)
LEMMA ProcessedGrows == Next => processed \subseteq processed'
  BY DEF Next, Handle, Refuse, Accept, InsertProcessed, Duplicate, EnsureAccount, LockAccount,
         Commit, Abort, bankVars

(* The bank does nothing about a trade that it has not received.           *)
LEMMA UnknownStays ==
    ASSUME IInv, NEW u \in Trades, Unknown(u), Next, waits'[u] = NoCall
    PROVE  Unknown(u)'
<1>1. FeedTypes(SafeLabels)
  BY TypeOKFeeds DEF IInv
<1>2. CASE FeedNext /\ UNCHANGED bankVars
  <2>1. CallsFed /\ StatusFed(u)
    BY <1>1, <1>2, FeedShape DEF SafeLabels
  <2>2. status'[u] = "pending"
    BY <2>1 DEF StatusFed, Unknown
  <2>3. \A c \in Calls : what'[c] # u
    BY <2>1, FeedAssumption DEF CallsFed, Unknown
  <2>4. processed' = processed
    BY <1>2 DEF bankVars
  <2>5. QED
    BY <2>2, <2>3, <2>4 DEF Unknown
<1>3. ASSUME NEW c \in Calls, NEW o \in {"2xx", "failed"}, pc[c] # "free", Finish(c, o),
             processed' \subseteq processed \cup {what[c]}
      PROVE  Unknown(u)'
  <2>1. /\ status' = status
        /\ \A d \in Calls \ {c} : what'[d] = what[d]
        /\ what'[c] = NoTrade \/ what'[c] = what[c]
    BY <1>1, <1>3, FinishShape DEF SafeLabels
  <2>2. QED
    BY <1>3, <2>1, FeedAssumption DEF Unknown
<1>4. ASSUME NEW c \in Calls, Handle(c) \/ Abort(c) PROVE Unknown(u)'
  <2>1. CASE Accept(c) \/ InsertProcessed(c) \/ EnsureAccount(c) \/ LockAccount(c)
    <3>1. UNCHANGED <<status, what, processed>>
      BY <2>1 DEF Accept, InsertProcessed, EnsureAccount, LockAccount, GoTo, queueVars, bankVars
    <3>2. QED
      BY <3>1 DEF Unknown
  <2>2. CASE Refuse(c) \/ Duplicate(c) \/ Commit(c) \/ Abort(c)
    <3>1. /\ pc[c] # "free" /\ processed' \subseteq processed \cup {what[c]}
          /\ Finish(c, "failed") \/ Finish(c, Ack(c))
      BY <2>2 DEF Refuse, Duplicate, Commit, Abort, bankVars
    <3>2. PICK o \in {"2xx", "failed"} : Finish(c, o)
      BY <3>1 DEF Ack
    <3>3. QED
      BY <1>3, <3>1, <3>2
  <2>3. QED
    BY <1>4, <2>1, <2>2 DEF Handle
<1>5. QED
  BY <1>2, <1>4 DEF Next

LEMMA BankStepKeeps == ASSUME ViewIInv, BankStep PROVE ViewIInv'
<1>1. /\ Next /\ UNCHANGED <<logged, vpc, view, quiet>>
      /\ \A u \in Trades \ logged : waits'[u] = NoCall
  BY DEF BankStep, viewVars
<1>2. IInv'
  BY <1>1, NextIInv DEF ViewIInv
<1>3. ViewKeptToLog'
  BY <1>1, UnknownStays DEF ViewIInv, ViewKeptToLog
<1>4. processed \subseteq processed'
  BY <1>1, ProcessedGrows
<1>5. ViewHolds'
  BY <1>1, <1>4 DEF ViewIInv, ViewHolds
<1>6. QED
  BY <1>2, <1>3, <1>5 DEF ViewIInv

(* A step of the reader, or a publication, leaves the bank alone.          *)
LEMMA BankAlone ==
    ASSUME ViewIInv, UNCHANGED vars
    PROVE  /\ IInv' /\ UNCHANGED <<processed, account, trade, status>>
           /\ \A u \in Trades : Unknown(u)' <=> Unknown(u)
<1>1. IInv'
  BY NextIInv DEF ViewIInv
<1>2. QED
  BY <1>1 DEF vars, feedVars, bankVars, Unknown

LEMMA PublishKeeps == ASSUME ViewIInv, NEW t \in Trades, PublishTrade(t) PROVE ViewIInv'
<1>1. /\ t \notin logged /\ logged' = logged \cup {t}
      /\ UNCHANGED <<vpc, view, quiet>> /\ UNCHANGED vars
  BY DEF PublishTrade
<1>2. /\ IInv' /\ processed' = processed
      /\ \A u \in Trades : Unknown(u)' <=> Unknown(u)
  BY <1>1, BankAlone
<1>3. ViewKeptToLog'
  BY <1>1, <1>2 DEF ViewIInv, ViewKeptToLog
<1>4. vpc \in Reading => logged' # view.expected
  BY <1>1 DEF ViewIInv, ViewHolds
<1>5. ViewHolds'
  BY <1>1, <1>2, <1>4 DEF ViewIInv, ViewHolds
<1>6. QED
  BY <1>2, <1>3, <1>5 DEF ViewIInv

LEMMA ReadLogKeeps == ASSUME ViewIInv, ReadLog PROVE ViewIInv'
<1>1. /\ vpc' = "accounts" /\ logged' = logged
      /\ view' = [NoView EXCEPT !.expected = logged]
      /\ quiet' = (Having("pending") = {} /\ Having("dead_lettered") = {})
      /\ UNCHANGED vars
  BY DEF ReadLog
<1>2. /\ IInv' /\ processed' = processed
      /\ \A u \in Trades : Unknown(u)' <=> Unknown(u)
  BY <1>1, BankAlone
<1>3. view'.expected = logged /\ ViewKeptToLog'
  BY <1>1, <1>2 DEF ViewIInv, ViewKeptToLog, Reading, NoView, Counts
<1>4. quiet' => logged \subseteq processed
  <2>1. SUFFICES ASSUME quiet', NEW u \in logged PROVE u \in processed
    OBVIOUS
  <2>2. u \in Trades /\ status[u] # "pending" /\ status[u] # "dead_lettered"
    BY <1>1, <2>1 DEF Having, ViewIInv, ViewKeptToLog
  <2>3. status[u] = "succeeded"
    BY <2>2 DEF ViewIInv, IInv, TypeOK
  <2>4. QED
    BY <2>2, <2>3 DEF ViewIInv, IInv, AckedIsApplied
<1>5. ViewHolds'
  BY <1>1, <1>2, <1>3, <1>4 DEF ViewHolds
<1>6. QED
  BY <1>2, <1>3, <1>5 DEF ViewIInv

LEMMA ReadAccountsKeeps == ASSUME ViewIInv, ReadAccounts PROVE ViewIInv'
<1>1. /\ vpc = "accounts" /\ vpc' = "counts" /\ UNCHANGED <<logged, quiet>>
      /\ view' = [view EXCEPT !.credits =
                        [u \in Trades |-> account[trade[u].account].credits[u]]]
      /\ UNCHANGED vars
  BY DEF ReadAccounts
<1>2. /\ IInv' /\ processed' = processed
      /\ \A u \in Trades : Unknown(u)' <=> Unknown(u)
  BY <1>1, BankAlone
<1>3. view'.expected = view.expected
  BY <1>1 DEF ViewIInv, ViewKeptToLog
<1>4. ASSUME NEW u \in Trades PROVE  view'.credits[u] = IF u \in processed THEN 1 ELSE 0
  <2>1. trade[u].account \in Accounts
    BY DEF ViewIInv, IInv, TypeOK
  <2>2. account[trade[u].account].credits[u] = IF u \in processed THEN 1 ELSE 0
    BY <2>1 DEF ViewIInv, IInv, CreditedOnce
  <2>3. QED
    BY <1>1, <2>2 DEF ViewIInv, ViewKeptToLog
<1>5. ViewKeptToLog'
  <2>1. [u \in Trades |-> account[trade[u].account].credits[u]] \in Counts
    BY <1>1, <1>4 DEF ViewIInv, ViewKeptToLog, IInv, TypeOK, Row, Counts
  <2>2. QED
    BY <1>1, <1>2, <2>1 DEF ViewIInv, ViewKeptToLog, Reading
<1>6. processed \subseteq logged
  BY DEF ViewIInv, ViewKeptToLog, Unknown, IInv, TypeOK
<1>7. quiet /\ logged = view.expected => processed = view.expected
  BY <1>1, <1>6 DEF ViewIInv, ViewHolds, Reading
<1>8. ViewHolds'
  BY <1>1, <1>2, <1>3, <1>4, <1>7 DEF ViewIInv, ViewHolds, Reading
<1>9. QED
  BY <1>2, <1>5, <1>8 DEF ViewIInv

LEMMA CountKeeps == ASSUME ViewIInv, CountDeliveries PROVE ViewIInv'
<1>1. /\ vpc = "counts" /\ vpc' = "done" /\ UNCHANGED <<logged, quiet>>
      /\ view' = [view EXCEPT !.pending = Having("pending"), !.dead = Having("dead_lettered")]
      /\ UNCHANGED vars
  BY DEF CountDeliveries
<1>2. /\ IInv' /\ processed' = processed
      /\ \A u \in Trades : Unknown(u)' <=> Unknown(u)
  BY <1>1, BankAlone
<1>3. ViewKeptToLog'
  BY <1>1, <1>2 DEF ViewIInv, ViewKeptToLog, Reading, Having
<1>4. view'.expected = view.expected /\ view'.credits = view.credits
  BY <1>1 DEF ViewIInv, ViewKeptToLog
<1>5. ViewHolds'
  BY <1>1, <1>2, <1>4 DEF ViewIInv, ViewHolds, Reading
<1>6. QED
  BY <1>2, <1>3, <1>5 DEF ViewIInv

LEMMA RefreshKeeps == ASSUME ViewIInv, Refresh PROVE ViewIInv'
<1>1. vpc' = "log" /\ view' = NoView /\ logged' = logged /\ UNCHANGED vars
  BY DEF Refresh
<1>2. /\ IInv' /\ \A u \in Trades : Unknown(u)' <=> Unknown(u)
  BY <1>1, BankAlone
<1>3. ViewKeptToLog' /\ ViewHolds'
  BY <1>1, <1>2 DEF ViewIInv, ViewKeptToLog, ViewHolds, Reading, NoView, Counts
<1>4. QED
  BY <1>2, <1>3 DEF ViewIInv

LEMMA ViewNextIInv == ViewIInv /\ [ViewNext]_<<vars, viewVars>> => ViewIInv'
<1> SUFFICES ASSUME ViewIInv, [ViewNext]_<<vars, viewVars>> PROVE ViewIInv'
  OBVIOUS
<1>1. CASE ViewNext
  BY <1>1, BankStepKeeps, PublishKeeps, ReadLogKeeps, ReadAccountsKeeps, CountKeeps, RefreshKeeps
     DEF ViewNext
<1>2. CASE UNCHANGED <<vars, viewVars>>
  <2>1. UNCHANGED vars /\ UNCHANGED <<logged, vpc, view, quiet>>
    BY <1>2 DEF viewVars
  <2>2. /\ IInv' /\ processed' = processed
        /\ \A u \in Trades : Unknown(u)' <=> Unknown(u)
    BY <2>1, BankAlone
  <2>3. ViewKeptToLog' /\ ViewHolds'
    BY <2>1, <2>2 DEF ViewIInv, ViewKeptToLog, ViewHolds
  <2>4. QED
    BY <2>2, <2>3 DEF ViewIInv
<1>3. QED
  BY <1>1, <1>2

(* The diff of GET /showcase/ledger shows no drift of Bank B if all that   *)
(* was published was delivered when the reading began and nothing was      *)
(* published since, although its three statements see different moments.   *)
THEOREM QuietViewHasNoDrift == ViewSpec => []QuietViewRight
<1>1. ViewIInv => QuietViewRight
  BY DEF ViewIInv, ViewHolds, QuietViewRight, Drift, Reading
<1>2. QED
  BY <1>1, ViewInitIInv, ViewNextIInv, PTL DEF ViewSpec
=============================================================================
