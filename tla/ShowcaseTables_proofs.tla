----------------------- MODULE ShowcaseTables_proofs ------------------------
(***************************************************************************)
(* Proofs about the tables of the showcase that several transactions write *)
(* at a time: the inbox of received requests (ReceiverInbox), for any      *)
(* number of recorders, and what is seeded for the showcase                *)
(* (ShowcaseSeeding), for every set of seeders and webhooks.               *)
(***************************************************************************)
EXTENDS ReceiverInbox, ShowcaseSeeding, FiniteSetTheorems, WellFoundedInduction, TLAPS

-----------------------------------------------------------------------------
(* Finite sets of naturals.                                                *)

LEMMA Smallest ==
    ASSUME NEW T \in SUBSET Nat, T # {}
    PROVE  \E m \in T : \A n \in T : m <= n
<1>1. PICK m \in T : \A n \in T : ~ (<<n, m>> \in OpToRel(<, Nat))
  BY NatLessThanWellFounded, WFMin
<1>2. m \in Nat /\ \A n \in T : n \in Nat
  OBVIOUS
<1>3. \A n \in T : <<n, m>> \in OpToRel(<, Nat) <=> n < m
  BY <1>2 DEF OpToRel
<1>4. \A n \in T : ~ (n < m)
  BY <1>1, <1>3
<1>5. QED
  BY <1>2, <1>4

LEMMA Largest ==
    ASSUME NEW T \in SUBSET Nat, T # {}, NEW b \in Nat, \A n \in T : n <= b
    PROVE  \E m \in T : \A n \in T : n <= m
<1> DEFINE U == {k \in Nat : b - k \in T}
<1>1. \A n \in T : n \in Nat /\ b - n \in Nat /\ b - (b - n) = n
  OBVIOUS
<1>2. U # {} /\ \A n \in T : b - n \in U
  BY <1>1
<1>3. PICK k \in U : \A l \in U : k <= l
  BY <1>2, Smallest
<1>4. \A n \in T : n <= b - k
  <2> TAKE n \in T
  <2>1. k \in Nat /\ k <= b - n
    BY <1>2, <1>3
  <2>2. QED
    BY <1>1, <2>1
<1>5. b - k \in T
  OBVIOUS
<1>6. QED
  BY <1>4, <1>5

LEMMA Sized ==
    ASSUME NEW c \in Nat, NEW S \in SUBSET (0 .. c)
    PROVE  IsFiniteSet(S) /\ Cardinality(S) \in Nat
<1>1. IsFiniteSet(0 .. c)
  BY FS_Interval
<1>2. QED
  BY <1>1, FS_Subset, FS_CardinalityType

LEMMA Monotone ==
    ASSUME NEW c \in Nat, NEW T \in SUBSET (0 .. c), NEW S \in SUBSET T
    PROVE  /\ Cardinality(S) \in Nat /\ Cardinality(T) \in Nat
           /\ Cardinality(S) <= Cardinality(T)
BY Sized, FS_Subset

LEMMA OneMore ==
    ASSUME NEW S, NEW x, IsFiniteSet(S)
    PROVE  /\ IsFiniteSet(S \cup {x}) /\ Cardinality(S \cup {x}) \in Nat
           /\ Cardinality(S \cup {x}) <= Cardinality(S) + 1
<1>1. Cardinality(S) \in Nat
  BY FS_CardinalityType
<1>2. /\ IsFiniteSet(S \cup {x})
      /\ Cardinality(S \cup {x}) = IF x \in S THEN Cardinality(S) ELSE Cardinality(S) + 1
  BY FS_AddElement
<1>3. QED
  BY <1>1, <1>2

-----------------------------------------------------------------------------
(* What Newest keeps.                                                      *)

NewerIn(rs, x) == {s \in rs : s > x}

(* It keeps no more than Keep rows.                                        *)
LEMMA NewestFew ==
    ASSUME NEW c \in Nat, NEW S \in SUBSET (0 .. c)
    PROVE  Cardinality(Newest(S)) <= Keep
<1>1. Newest(S) = {x \in S : Cardinality(NewerIn(S, x)) < Keep}
  BY DEF Newest, NewerIn
<1>2. CASE Newest(S) = {}
  BY <1>2, FS_EmptySet, InboxAssumption
<1>3. CASE Newest(S) # {}
  <2>1. Newest(S) \in SUBSET Nat /\ Newest(S) \subseteq S
    <3>1. \A n \in S : n \in Nat
      OBVIOUS
    <3>2. QED
      BY <1>1, <3>1
  <2>2. PICK m \in Newest(S) : \A n \in Newest(S) : m <= n
    BY <1>3, <2>1, Smallest
  <2>3. Newest(S) \subseteq NewerIn(S, m) \cup {m}
    BY <2>1, <2>2 DEF NewerIn
  <2>4. NewerIn(S, m) \in SUBSET (0 .. c)
    BY DEF NewerIn
  <2>5. /\ IsFiniteSet(NewerIn(S, m)) /\ Cardinality(NewerIn(S, m)) \in Nat
        /\ Cardinality(NewerIn(S, m)) < Keep
    BY <1>1, <2>2, <2>4, Sized
  <2>6. /\ IsFiniteSet(NewerIn(S, m) \cup {m})
        /\ Cardinality(NewerIn(S, m) \cup {m}) <= Keep
    <3> DEFINE N == NewerIn(S, m)
    <3>1. IsFiniteSet(N) /\ Cardinality(N) \in Nat /\ Cardinality(N) < Keep
      BY <2>5
    <3> HIDE DEF N
    <3>2. /\ IsFiniteSet(N \cup {m})
          /\ Cardinality(N \cup {m}) = IF m \in N THEN Cardinality(N)
                                                ELSE Cardinality(N) + 1
      BY <3>1, FS_AddElement
    <3>3. IsFiniteSet(N \cup {m}) /\ Cardinality(N \cup {m}) <= Keep
      BY <3>1, <3>2, InboxAssumption
    <3>4. QED
      BY <3>3 DEF N
  <2>7. Cardinality(Newest(S)) <= Cardinality(NewerIn(S, m) \cup {m})
    BY <2>3, <2>6, FS_Subset
  <2>8. Cardinality(Newest(S)) \in Nat /\ Cardinality(NewerIn(S, m) \cup {m}) \in Nat
    BY <2>3, <2>6, FS_Subset, FS_CardinalityType
  <2>9. QED
    BY <2>6, <2>7, <2>8, InboxAssumption
<1>4. QED
  BY <1>2, <1>3

(* Rows that have gone do not change the newest ones when each had Keep    *)
(* newer rows, gone or not.                                                *)
LEMMA NewestCovered ==
    ASSUME NEW c \in Nat, NEW R \in SUBSET (0 .. c), NEW S \in SUBSET R,
           \A x \in R \ S : Cardinality(NewerIn(R, x)) >= Keep
    PROVE  Newest(S) = Newest(R)
<1>1. \A T : Newest(T) = {x \in T : Cardinality(NewerIn(T, x)) < Keep}
  BY DEF Newest, NewerIn
<1>2. \A x \in R : /\ Cardinality(NewerIn(S, x)) \in Nat
                   /\ Cardinality(NewerIn(R, x)) \in Nat
                   /\ Cardinality(NewerIn(S, x)) <= Cardinality(NewerIn(R, x))
  <2> TAKE x \in R
  <2>1. NewerIn(R, x) \in SUBSET (0 .. c) /\ NewerIn(S, x) \in SUBSET NewerIn(R, x)
    BY DEF NewerIn
  <2>2. QED
    BY <2>1, Monotone
<1>3. ASSUME NEW x \in Newest(R) PROVE x \in Newest(S)
  <2>1. x \in R /\ Cardinality(NewerIn(R, x)) < Keep
    BY <1>1
  <2>2. Cardinality(NewerIn(S, x)) < Keep
    BY <1>2, <2>1, InboxAssumption
  <2>3. x \in S
    BY <1>2, <2>1, InboxAssumption
  <2>4. QED
    BY <1>1, <2>2, <2>3
<1>4. ASSUME NEW x \in Newest(S), x \notin Newest(R) PROVE FALSE
  <2> DEFINE B == {s \in R : s >= x /\ Cardinality(NewerIn(R, s)) >= Keep}
  <2>0. x \in S /\ x \in R /\ Cardinality(NewerIn(S, x)) < Keep
    BY <1>1
  <2>1. x \in R /\ x \in Nat /\ x \in B
    <3>1. ~ (Cardinality(NewerIn(R, x)) < Keep)
      BY <1>1, <1>4, <2>0
    <3>2. Cardinality(NewerIn(R, x)) >= Keep
      BY <1>2, <2>0, <3>1, InboxAssumption
    <3>3. x \in Nat /\ x >= x
      BY <2>0
    <3>4. QED
      BY <2>0, <3>2, <3>3
  <2>2. B \in SUBSET Nat /\ \A n \in B : n <= c
    <3>1. \A n \in 0 .. c : n \in Nat /\ n <= c
      OBVIOUS
    <3>2. B \subseteq 0 .. c
      OBVIOUS
    <3>3. QED
      BY <3>1, <3>2
  <2>3. PICK y \in B : \A n \in B : n <= y
    BY <2>1, <2>2, Largest
  <2>4. ASSUME NEW u \in NewerIn(R, y) PROVE u \in NewerIn(S, x)
    <3>1. u \in R /\ u \in Nat /\ y \in Nat /\ u > y /\ y >= x
      BY DEF NewerIn
    <3>2. u \notin B
      BY <2>3, <3>1
    <3>3. u \in S
      BY <2>1, <3>1, <3>2
    <3>4. QED
      BY <2>1, <3>1, <3>3 DEF NewerIn
  <2>5. NewerIn(S, x) \in SUBSET (0 .. c) /\ NewerIn(R, y) \in SUBSET NewerIn(S, x)
    BY <2>4 DEF NewerIn
  <2>6. Cardinality(NewerIn(R, y)) <= Cardinality(NewerIn(S, x))
    BY <2>5, Monotone
  <2>7. QED
    BY <1>1, <1>2, <2>1, <2>6, InboxAssumption
<1>5. QED
  BY <1>3, <1>4

-----------------------------------------------------------------------------
(* The inbox.                                                              *)

InboxSpec == InboxInit /\ [][InboxNext]_inboxVars

InboxTypeOK ==
    /\ clock \in Nat
    /\ inbox \subseteq recorded /\ recorded \subseteq 1 .. clock
    /\ ipc \in [Recorders -> {"idle", "inserted", "selected", "pruned"}]
    /\ own \in [Recorders -> 0 .. clock]
    /\ stale \in [Recorders -> SUBSET (1 .. clock)]

(* Keep rows newer than a pruned one were recorded.                        *)
Covered == \A x \in recorded \ inbox : Cardinality(NewerIn(recorded, x)) >= Keep

(* A recorder has a row once it has inserted it, and nothing to prune until*)
(* it has selected.                                                        *)
Staged ==
    \A r \in Recorders :
        /\ ipc[r] # "idle" => own[r] > 0
        /\ ipc[r] \in {"idle", "inserted"} => stale[r] = {}

(* Keep rows newer than what it will prune are recorded, its own included. *)
Behind(r) ==
    \A x \in stale[r] : Cardinality(NewerIn(recorded \cup {own[r]}, x)) >= Keep
StaleCovered == \A r \in Recorders : Behind(r)

Selected == {r \in Recorders : ipc[r] \in {"selected", "pruned"}}

(* Recorders select in some order, ...                                     *)
Order(before) ==
    \A r, q \in Selected :
        /\ r \notin before[r] /\ before[r] \subseteq Selected
        /\ q # r => q \in before[r] \/ r \in before[q]
        /\ q \in before[r] => before[q] \subseteq before[r] /\ r \notin before[q]

(* ... and what one would leave has room for a row of each recorder that   *)
(* selected before it: it has not seen those rows.                         *)
Room(before) ==
    \A r \in Selected :
        Cardinality(Seen(r) \ stale[r])
            <= Keep + Cardinality(Recorders) - 1 - Cardinality(before[r])

Limited ==
    /\ InboxBounded
    /\ \E before \in [Recorders -> SUBSET Recorders] : Order(before) /\ Room(before)

InboxIInv == InboxTypeOK /\ Staged /\ Covered /\ StaleCovered /\ Limited

-----------------------------------------------------------------------------
LEMMA InboxTypeStep ==
    ASSUME InboxTypeOK, Staged, [InboxNext]_inboxVars
    PROVE  InboxTypeOK' /\ Staged'
<1> USE DEF InboxTypeOK
<1>0. clock \in 0 .. clock /\ clock + 1 \in 0 .. clock + 1 /\ 0 \in 0 .. clock
      /\ 0 .. clock \subseteq 0 .. clock + 1 /\ 1 .. clock \subseteq 1 .. clock + 1
      /\ clock + 1 \in Nat
  OBVIOUS
<1>1. ASSUME NEW r \in Recorders, Insert(r) PROVE InboxTypeOK' /\ Staged'
  <2>1. own' \in [Recorders -> 0 .. clock']
    BY <1>0, <1>1 DEF Insert
  <2>2. stale' \in [Recorders -> SUBSET (1 .. clock')]
    BY <1>0, <1>1 DEF Insert
  <2>3. InboxTypeOK'
    BY <1>0, <1>1, <2>1, <2>2 DEF Insert
  <2>4. Staged'
    BY <1>1 DEF Insert, Staged
  <2>5. QED
    BY <2>3, <2>4
<1>2. ASSUME NEW r \in Recorders, SelectStale(r) PROVE InboxTypeOK' /\ Staged'
  <2>1. \A x \in Seen(r) \ Newest(Seen(r)) : x \in 1 .. clock
    <3>1. own[r] \in 1 .. clock
      BY <1>2 DEF SelectStale, Staged
    <3>2. QED
      BY <3>1 DEF Seen
  <2>2. stale' \in [Recorders -> SUBSET (1 .. clock)]
    BY <1>2, <2>1 DEF SelectStale
  <2>3. QED
    BY <1>2, <2>2 DEF SelectStale, Staged
<1>3. ASSUME NEW r \in Recorders, Prune(r) PROVE InboxTypeOK' /\ Staged'
  BY <1>3 DEF Prune, Staged
<1>4. ASSUME NEW r \in Recorders, RollBackRecord(r) PROVE InboxTypeOK' /\ Staged'
  BY <1>0, <1>4 DEF RollBackRecord, EndRecord, Staged
<1>5. ASSUME NEW r \in Recorders, CommitRecord(r) PROVE InboxTypeOK' /\ Staged'
  <2>1. own[r] \in 1 .. clock
    BY <1>5 DEF CommitRecord, Staged
  <2>2. inbox' \subseteq recorded' /\ recorded' \subseteq 1 .. clock
    BY <1>5, <2>1 DEF CommitRecord, Seen
  <2>3. QED
    BY <1>0, <1>5, <2>2 DEF CommitRecord, EndRecord, Staged
<1>6. CASE UNCHANGED inboxVars
  BY <1>6 DEF inboxVars, Staged
<1>7. QED
  BY <1>1, <1>2, <1>3, <1>4, <1>5, <1>6 DEF InboxNext

(* More rows leave more of them newer.                                     *)
LEMMA NewerGrow ==
    ASSUME NEW c \in Nat, NEW T \in SUBSET (0 .. c), NEW S \in SUBSET T, NEW x,
           Cardinality(NewerIn(S, x)) >= Keep
    PROVE  Cardinality(NewerIn(T, x)) >= Keep
<1>1. NewerIn(T, x) \in SUBSET (0 .. c) /\ NewerIn(S, x) \in SUBSET NewerIn(T, x)
  BY DEF NewerIn
<1>2. /\ Cardinality(NewerIn(S, x)) \in Nat /\ Cardinality(NewerIn(T, x)) \in Nat
      /\ Cardinality(NewerIn(S, x)) <= Cardinality(NewerIn(T, x))
  BY <1>1, Monotone
<1>3. QED
  BY <1>2, InboxAssumption

(* What a recorder selects to prune is behind Keep rows.                   *)
LEMMA SelectedBehind ==
    ASSUME NEW c \in Nat, NEW T \in SUBSET (0 .. c), NEW S \in SUBSET T,
           NEW x \in S \ Newest(S)
    PROVE  Cardinality(NewerIn(T, x)) >= Keep
<1>1. ~ (Cardinality(NewerIn(S, x)) < Keep)
  BY DEF Newest, NewerIn
<1>2. NewerIn(S, x) \in SUBSET (0 .. c)
  BY DEF NewerIn
<1>3. Cardinality(NewerIn(S, x)) >= Keep
  <2>1. Cardinality(NewerIn(S, x)) \in Nat
    BY <1>2, Sized
  <2>2. QED
    BY <1>1, <2>1, InboxAssumption
<1>4. QED
  BY <1>3, NewerGrow

(* What was behind stays behind when other rows are recorded.              *)
LEMMA BehindStays ==
    ASSUME InboxTypeOK, NEW r \in Recorders, Behind(r),
           stale'[r] \subseteq stale[r], own'[r] = own[r],
           \/ recorded' = recorded
           \/ \E q \in Recorders : recorded' = recorded \cup {own[q]}
    PROVE  Behind(r)'
<1>1. /\ recorded' \cup {own[r]} \in SUBSET (0 .. clock) /\ clock \in Nat
      /\ recorded \cup {own[r]} \in SUBSET (recorded' \cup {own[r]})
  <2>1. 1 .. clock \subseteq 0 .. clock
    BY DEF InboxTypeOK
  <2>2. QED
    BY <2>1 DEF InboxTypeOK
<1>2. ASSUME NEW x \in stale'[r]
      PROVE  Cardinality(NewerIn(recorded' \cup {own[r]}, x)) >= Keep
  <2>1. Cardinality(NewerIn(recorded \cup {own[r]}, x)) >= Keep
    BY DEF Behind
  <2>2. QED
    BY <1>1, <2>1, NewerGrow
<1>3. QED
  BY <1>2 DEF Behind

LEMMA CoveredStep ==
    ASSUME InboxTypeOK, Staged, Covered, StaleCovered, [InboxNext]_inboxVars
    PROVE  Covered' /\ StaleCovered'
<1> USE DEF InboxTypeOK
<1>0. \A r \in Recorders : recorded \cup {own[r]} \in SUBSET (0 .. clock)
  <2>1. 1 .. clock \subseteq 0 .. clock
    OBVIOUS
  <2>2. QED
    BY <2>1
<1>1. ASSUME NEW r \in Recorders, Insert(r) PROVE Covered' /\ StaleCovered'
  <2>1. Covered'
    BY <1>1 DEF Insert, Covered
  <2>2. stale[r] = {} /\ stale' = stale
    BY <1>1 DEF Insert, Staged
  <2>3. \A q \in Recorders \ {r} : own'[q] = own[q] /\ recorded' = recorded
    BY <1>1 DEF Insert
  <2>4. \A q \in Recorders : Behind(q)'
    BY <2>2, <2>3, BehindStays DEF StaleCovered, Behind
  <2>5. QED
    BY <2>1, <2>4 DEF StaleCovered
<1>2. ASSUME NEW r \in Recorders, SelectStale(r) PROVE Covered' /\ StaleCovered'
  <2>1. Covered'
    BY <1>2 DEF SelectStale, Covered
  <2>2. /\ UNCHANGED <<own, recorded>> /\ stale'[r] = Seen(r) \ Newest(Seen(r))
        /\ \A q \in Recorders \ {r} : stale'[q] = stale[q]
    BY <1>2 DEF SelectStale
  <2>3. Seen(r) \in SUBSET (recorded \cup {own[r]})
    BY DEF Seen
  <2>4. Behind(r)'
    BY <1>0, <2>2, <2>3, SelectedBehind DEF Behind
  <2>5. \A q \in Recorders \ {r} : Behind(q)'
    BY <2>2, BehindStays DEF StaleCovered
  <2>6. QED
    BY <2>1, <2>4, <2>5 DEF StaleCovered
<1>3. ASSUME NEW r \in Recorders, Prune(r) PROVE Covered' /\ StaleCovered'
  <2>1. Covered'
    BY <1>3 DEF Prune, Covered
  <2>2. \A q \in Recorders : stale'[q] \subseteq stale[q] /\ UNCHANGED <<own, recorded>>
    BY <1>3 DEF Prune
  <2>3. QED
    BY <2>1, <2>2, BehindStays DEF StaleCovered
<1>4. ASSUME NEW r \in Recorders, EndRecord(r),
             recorded' = recorded \/ recorded' = recorded \cup {own[r]}
      PROVE  StaleCovered'
  <2>1. /\ stale'[r] = {}
        /\ \A q \in Recorders \ {r} : own'[q] = own[q] /\ stale'[q] = stale[q]
    BY <1>4 DEF EndRecord
  <2>2. \A q \in Recorders \ {r} : Behind(q)'
    BY <1>4, <2>1, BehindStays DEF StaleCovered
  <2>3. Behind(r)'
    BY <2>1 DEF Behind
  <2>4. QED
    BY <2>2, <2>3 DEF StaleCovered
<1>5. ASSUME NEW r \in Recorders, RollBackRecord(r) PROVE Covered' /\ StaleCovered'
  BY <1>4, <1>5 DEF RollBackRecord, Covered
<1>6. ASSUME NEW r \in Recorders, CommitRecord(r) PROVE Covered' /\ StaleCovered'
  <2>1. /\ recorded' = recorded \cup {own[r]} /\ EndRecord(r)
        /\ inbox' = (inbox \cup {own[r]}) \ stale[r]
    BY <1>6 DEF CommitRecord, Seen
  <2>2. recorded' \in SUBSET (0 .. clock) /\ recorded \in SUBSET recorded'
    BY <1>0, <2>1
  <2>3. ASSUME NEW x \in recorded' \ inbox'
        PROVE  Cardinality(NewerIn(recorded', x)) >= Keep
    <3>1. CASE x \in stale[r]
      BY <2>1, <3>1 DEF StaleCovered, Behind
    <3>2. CASE x \notin stale[r]
      <4>1. x \in recorded \ inbox
        BY <2>1, <3>2
      <4>2. Cardinality(NewerIn(recorded, x)) >= Keep
        BY <4>1 DEF Covered
      <4>3. clock \in Nat
        OBVIOUS
      <4>4. QED
        BY <2>2, <4>2, <4>3, NewerGrow
    <3>3. QED
      BY <3>1, <3>2
  <2>4. QED
    BY <1>4, <2>1, <2>3 DEF Covered
<1>7. CASE UNCHANGED inboxVars
  BY <1>7 DEF inboxVars, Covered, StaleCovered, Behind
<1>8. QED
  BY <1>1, <1>2, <1>3, <1>5, <1>6, <1>7 DEF InboxNext

-----------------------------------------------------------------------------
(* The bound.                                                              *)

(* A recorder that selects last leaves Keep rows, however many recorders   *)
(* have selected before it.                                                *)
LEMMA LimitedSelect ==
    ASSUME InboxTypeOK, Staged, Limited, NEW r \in Recorders, SelectStale(r)
    PROVE  Limited'
<1> USE DEF InboxTypeOK
<1>1. PICK before \in [Recorders -> SUBSET Recorders] : Order(before) /\ Room(before)
  BY DEF Limited
<1>2. /\ r \notin Selected /\ Selected \subseteq Recorders
      /\ Selected' = Selected \cup {r}
  BY DEF SelectStale, Selected
<1>3. PICK after \in [Recorders -> SUBSET Recorders] :
          /\ after[r] = Selected
          /\ \A q \in Recorders \ {r} : after[q] = before[q]
  <2> DEFINE after == [before EXCEPT ![r] = Selected]
  <2>1. after \in [Recorders -> SUBSET Recorders]
    BY <1>2
  <2>2. after[r] = Selected /\ \A q \in Recorders \ {r} : after[q] = before[q]
    OBVIOUS
  <2>3. QED
    BY <2>1, <2>2
<1>4. \A q \in Selected : r \notin before[q] /\ before[q] \subseteq Selected
  BY <1>1, <1>2 DEF Order
<1>5. Order(after)'
  <2>1. \A p, q \in Selected \cup {r} :
            /\ p \notin after[p] /\ after[p] \subseteq Selected \cup {r}
            /\ q # p => q \in after[p] \/ p \in after[q]
            /\ q \in after[p] => after[q] \subseteq after[p] /\ p \notin after[q]
    BY <1>1, <1>2, <1>3, <1>4 DEF Order
  <2>2. QED
    BY <1>2, <2>1 DEF Order
<1>6. Room(after)'
  <2>1. /\ UNCHANGED <<inbox, own>> /\ stale'[r] = Seen(r) \ Newest(Seen(r))
        /\ \A q \in Recorders \ {r} : stale'[q] = stale[q]
    BY DEF SelectStale
  <2>2. Seen(r)' \ stale'[r] = Newest(Seen(r))
    BY <2>1 DEF Seen, Newest
  <2>3. Cardinality(Newest(Seen(r))) <= Keep /\ Cardinality(Newest(Seen(r))) \in Nat
    <3>1. Seen(r) \in SUBSET (0 .. clock) /\ Newest(Seen(r)) \subseteq Seen(r)
      <4>1. 1 .. clock \subseteq 0 .. clock
        OBVIOUS
      <4>2. QED
        BY <4>1 DEF Seen, Newest
    <3>2. QED
      BY <3>1, NewestFew, Sized
  <2>4. /\ Cardinality(Selected) \in Nat /\ Cardinality(Recorders) \in Nat
        /\ Cardinality(Selected) <= Cardinality(Recorders) - 1
    <3>1. IsFiniteSet(Recorders \ {r}) /\ Selected \in SUBSET (Recorders \ {r})
      BY <1>2, InboxAssumption, FS_RemoveElement
    <3>2. /\ Cardinality(Recorders \ {r}) = Cardinality(Recorders) - 1
          /\ Cardinality(Recorders) \in Nat
      BY InboxAssumption, FS_RemoveElement, FS_CardinalityType
    <3>3. Cardinality(Selected) <= Cardinality(Recorders \ {r}) /\ Cardinality(Selected) \in Nat
      BY <3>1, FS_Subset, FS_CardinalityType
    <3>4. QED
      BY <3>2, <3>3
  <2>5. Cardinality(Newest(Seen(r)))
            <= Keep + Cardinality(Recorders) - 1 - Cardinality(Selected)
    BY <2>3, <2>4, InboxAssumption
  <2>6. ASSUME NEW q \in Selected \cup {r}
        PROVE  Cardinality(Seen(q)' \ stale'[q])
                  <= Keep + Cardinality(Recorders) - 1 - Cardinality(after[q])
    <3>1. CASE q = r
      BY <1>3, <2>2, <2>5, <3>1
    <3>2. CASE q # r
      <4>1. q \in Selected /\ after[q] = before[q] /\ Seen(q)' \ stale'[q] = Seen(q) \ stale[q]
        BY <1>2, <1>3, <2>1, <3>2 DEF Seen
      <4>2. QED
        BY <1>1, <4>1 DEF Room
    <3>3. QED
      BY <3>1, <3>2
  <2>7. QED
    BY <1>2, <2>6 DEF Room
<1>7. InboxBounded'
  BY DEF SelectStale, Limited, InboxBounded
<1>8. QED
  BY <1>3, <1>5, <1>6, <1>7 DEF Limited

(* Deleting what is still there leaves what the recorder would have left.  *)
LEMMA LimitedSame ==
    ASSUME InboxTypeOK, Limited,
           \/ \E r \in Recorders : Insert(r) \/ Prune(r)
           \/ UNCHANGED inboxVars
    PROVE  Limited'
<1> USE DEF InboxTypeOK
<1>1. PICK before \in [Recorders -> SUBSET Recorders] : Order(before) /\ Room(before)
  BY DEF Limited
<1>2. /\ inbox' = inbox /\ Selected' = Selected
      /\ \A q \in Selected : Seen(q)' \ stale'[q] = Seen(q) \ stale[q]
  <2>1. ASSUME NEW r \in Recorders, Insert(r)
        PROVE  /\ inbox' = inbox /\ Selected' = Selected
               /\ \A q \in Selected : Seen(q)' \ stale'[q] = Seen(q) \ stale[q]
    BY <2>1 DEF Insert, Selected, Seen
  <2>2. ASSUME NEW r \in Recorders, Prune(r)
        PROVE  /\ inbox' = inbox /\ Selected' = Selected
               /\ \A q \in Selected : Seen(q)' \ stale'[q] = Seen(q) \ stale[q]
    BY <2>2 DEF Prune, Selected, Seen
  <2>3. ASSUME UNCHANGED inboxVars
        PROVE  /\ inbox' = inbox /\ Selected' = Selected
               /\ \A q \in Selected : Seen(q)' \ stale'[q] = Seen(q) \ stale[q]
    BY <2>3 DEF inboxVars, Selected, Seen
  <2>4. QED
    BY <2>1, <2>2, <2>3
<1>3. InboxBounded'
  BY <1>2 DEF Limited, InboxBounded
<1>4. Order(before)'
  BY <1>1, <1>2 DEF Order
<1>5. Room(before)'
  BY <1>1, <1>2 DEF Room
<1>6. QED
  BY <1>3, <1>4, <1>5 DEF Limited

(* A recorder that ends leaves the others' order.                          *)
LEMMA OrderEnds ==
    ASSUME InboxTypeOK, NEW r \in Recorders, EndRecord(r),
           NEW before \in [Recorders -> SUBSET Recorders], Order(before)
    PROVE  /\ Selected' = Selected \ {r}
           /\ Order([q \in Recorders |-> before[q] \ {r}])'
<1> DEFINE after == [q \in Recorders |-> before[q] \ {r}]
<1>1. Selected' = Selected \ {r}
  BY DEF EndRecord, InboxTypeOK, Selected
<1>2. /\ \A q \in Recorders : after[q] = before[q] \ {r}
      /\ Selected \subseteq Recorders
  BY DEF Selected
<1> HIDE DEF after
<1>3. \A p, q \in Selected \ {r} :
          /\ p \notin after[p] /\ after[p] \subseteq Selected \ {r}
          /\ q # p => q \in after[p] \/ p \in after[q]
          /\ q \in after[p] => after[q] \subseteq after[p] /\ p \notin after[q]
  BY <1>2 DEF Order
<1>4. Order(after)'
  BY <1>1, <1>3 DEF Order
<1>5. QED
  BY <1>1, <1>4 DEF after

LEMMA LimitedRollBack ==
    ASSUME InboxTypeOK, Limited, NEW r \in Recorders, RollBackRecord(r)
    PROVE  Limited'
<1> USE DEF InboxTypeOK
<1>1. PICK before \in [Recorders -> SUBSET Recorders] : Order(before) /\ Room(before)
  BY DEF Limited
<1> DEFINE after == [q \in Recorders |-> before[q] \ {r}]
<1>2. EndRecord(r) /\ inbox' = inbox
  BY DEF RollBackRecord
<1>3. Selected' = Selected \ {r} /\ Order(after)'
  BY <1>1, <1>2, OrderEnds
<1>31. \A q \in Recorders : after[q] = before[q] \ {r}
  OBVIOUS
<1>32. after \in [Recorders -> SUBSET Recorders]
  OBVIOUS
<1> HIDE DEF after
<1>4. ASSUME NEW q \in Selected \ {r}
      PROVE  Cardinality(Seen(q)' \ stale'[q])
                <= Keep + Cardinality(Recorders) - 1 - Cardinality(after[q])
  <2>0. q \in Selected /\ q \in Recorders
    BY DEF Selected
  <2>1. Seen(q)' \ stale'[q] = Seen(q) \ stale[q]
    BY <1>2, <2>0 DEF EndRecord, Seen
  <2>2. Cardinality(Seen(q) \ stale[q])
            <= Keep + Cardinality(Recorders) - 1 - Cardinality(before[q])
    BY <1>1, <2>0 DEF Room
  <2>3. IsFiniteSet(before[q]) /\ after[q] \in SUBSET before[q]
    BY <1>31, <2>0, InboxAssumption, FS_Subset
  <2>4. /\ Cardinality(after[q]) <= Cardinality(before[q])
        /\ Cardinality(after[q]) \in Nat /\ Cardinality(before[q]) \in Nat
    BY <2>3, FS_Subset, FS_CardinalityType
  <2>5. Cardinality(Recorders) \in Nat /\ Cardinality(Seen(q) \ stale[q]) \in Nat
    <3>1. Seen(q) \ stale[q] \in SUBSET (0 .. clock)
      <4>1. 1 .. clock \subseteq 0 .. clock
        OBVIOUS
      <4>2. QED
        BY <2>0, <4>1 DEF Seen
    <3>2. QED
      BY <3>1, Sized, InboxAssumption, FS_CardinalityType
  <2>6. Keep \in Nat
    BY InboxAssumption
  <2>7. \A k, c, a, b, n \in Nat : n <= k + c - 1 - b /\ a <= b => n <= k + c - 1 - a
    OBVIOUS
  <2>8. Cardinality(Seen(q) \ stale[q])
            <= Keep + Cardinality(Recorders) - 1 - Cardinality(after[q])
    BY <2>2, <2>4, <2>5, <2>6, <2>7
  <2>9. QED
    BY <2>1, <2>8
<1>5. Room(after)'
  BY <1>3, <1>4 DEF Room
<1>6. InboxBounded'
  BY <1>2 DEF Limited, InboxBounded
<1>7. QED
  BY <1>3, <1>32, <1>5, <1>6 DEF Limited

LEMMA LimitedCommit ==
    ASSUME InboxTypeOK, Staged, Limited, NEW r \in Recorders, CommitRecord(r)
    PROVE  Limited'
<1> USE DEF InboxTypeOK
<1>1. PICK before \in [Recorders -> SUBSET Recorders] : Order(before) /\ Room(before)
  BY DEF Limited
<1>2. EndRecord(r) /\ inbox' = Seen(r) \ stale[r] /\ r \in Selected
  BY DEF CommitRecord, Selected
<1>3. PICK after \in [Recorders -> SUBSET Recorders] :
          /\ after = [q \in Recorders |-> before[q] \ {r}]
          /\ \A q \in Recorders : after[q] = before[q] \ {r}
  <2> DEFINE after == [q \in Recorders |-> before[q] \ {r}]
  <2>1. after \in [Recorders -> SUBSET Recorders]
    OBVIOUS
  <2>2. \A q \in Recorders : after[q] = before[q] \ {r}
    OBVIOUS
  <2>3. QED
    BY <2>1, <2>2
<1>4. Selected' = Selected \ {r} /\ Order(after)'
  BY <1>1, <1>2, <1>3, OrderEnds
<1>5. \A q \in Recorders : /\ IsFiniteSet(before[q]) /\ Cardinality(before[q]) \in Nat
                           /\ IsFiniteSet(after[q]) /\ Cardinality(after[q]) \in Nat
                           /\ r \in before[q] => Cardinality(after[q]) = Cardinality(before[q]) - 1
                           /\ r \notin before[q] => after[q] = before[q]
  <2> TAKE q \in Recorders
  <2>1. IsFiniteSet(before[q])
    BY InboxAssumption, FS_Subset
  <2>2. QED
    BY <1>3, <2>1, FS_RemoveElement, FS_CardinalityType
<1>6. Cardinality(Recorders) \in Nat /\ Keep \in Nat
  BY InboxAssumption, FS_CardinalityType
<1>7. \A q \in Recorders : Seen(q) \in SUBSET (0 .. clock)
  <2>1. 1 .. clock \subseteq 0 .. clock
    OBVIOUS
  <2>2. QED
    BY <2>1 DEF Seen
<1>8. IsFiniteSet(inbox') /\ Cardinality(inbox') \in Nat
  <2>1. Seen(r) \ stale[r] \in SUBSET (0 .. clock)
    BY <1>7
  <2>2. QED
    BY <1>2, <2>1, Sized
<1>9. Cardinality(inbox') <= Keep + Cardinality(Recorders) - 1 - Cardinality(before[r])
  BY <1>1, <1>2 DEF Room
<1>10. InboxBounded'
  <2>1. Cardinality(inbox') <= Keep + Cardinality(Recorders) - 1
    BY <1>5, <1>6, <1>8, <1>9
  <2>2. QED
    BY <2>1 DEF InboxBounded
<1>11. ASSUME NEW q \in Selected \ {r}
       PROVE  Cardinality(Seen(q)' \ stale'[q])
                 <= Keep + Cardinality(Recorders) - 1 - Cardinality(after[q])
  <2>0. q \in Selected /\ q \in Recorders /\ q # r
    BY DEF Selected
  <2>1. Seen(q)' = inbox' \cup {own[q]} /\ stale'[q] = stale[q]
    BY <1>2, <2>0 DEF EndRecord, Seen
  <2>2. Seen(q)' \ stale'[q] \in SUBSET (inbox' \cup {own[q]})
    BY <2>1
  <2> DEFINE mine == Seen(q) \ stale[q]
             left == Seen(q)' \ stale'[q]
  <2>3. IsFiniteSet(mine) /\ Cardinality(mine) \in Nat
    <3>1. mine \in SUBSET (0 .. clock)
      BY <1>7, <2>0
    <3>2. QED
      BY <3>1, Sized
  <2>4. Cardinality(mine) <= Keep + Cardinality(Recorders) - 1 - Cardinality(before[q])
    BY <1>1, <2>0 DEF Room
  <2>5. left \in SUBSET (mine \cup {own[r]})
    BY <1>2, <2>1 DEF Seen
  <2>6. IsFiniteSet(left) /\ Cardinality(left) \in Nat
        /\ Cardinality(left) <= Cardinality(mine) + 1
        /\ Cardinality(left) <= Cardinality(inbox') + 1
    <3> HIDE DEF mine, left
    <3>1. /\ IsFiniteSet(mine \cup {own[r]})
          /\ Cardinality(mine \cup {own[r]}) \in Nat
          /\ Cardinality(mine \cup {own[r]}) <= Cardinality(mine) + 1
      BY <2>3, OneMore
    <3>2. /\ IsFiniteSet(inbox' \cup {own[q]})
          /\ Cardinality(inbox' \cup {own[q]}) \in Nat
          /\ Cardinality(inbox' \cup {own[q]}) <= Cardinality(inbox') + 1
      BY <1>8, OneMore
    <3>3. IsFiniteSet(left) /\ Cardinality(left) <= Cardinality(mine \cup {own[r]})
      BY <2>5, <3>1, FS_Subset
    <3>4. left \in SUBSET (inbox' \cup {own[q]})
      BY <2>2 DEF left
    <3>5. Cardinality(left) <= Cardinality(inbox' \cup {own[q]}) /\ Cardinality(left) \in Nat
      BY <3>2, <3>3, <3>4, FS_Subset, FS_CardinalityType
    <3>6. QED
      BY <1>8, <2>3, <3>1, <3>2, <3>3, <3>5
  <2> HIDE DEF mine, left
  <2>7. Cardinality(left) <= Keep + Cardinality(Recorders) - 1 - Cardinality(after[q])
    <3>1. CASE r \in before[q]
      <4>1. \A k, c, b, m, n \in Nat :
                n <= m + 1 /\ m <= k + c - 1 - b => n <= k + c - 1 - (b - 1)
        OBVIOUS
      <4>2. QED
        BY <1>5, <1>6, <2>0, <2>3, <2>4, <2>6, <3>1, <4>1
    <3>2. CASE r \notin before[q]
      <4>1. q \in before[r] /\ before[q] \subseteq before[r] /\ q \notin before[q]
        BY <1>1, <1>2, <2>0, <3>2 DEF Order
      <4>2. before[q] \in SUBSET (before[r] \ {q})
        BY <4>1
      <4>3. /\ IsFiniteSet(before[r] \ {q})
            /\ Cardinality(before[r] \ {q}) = Cardinality(before[r]) - 1
        <5>1. IsFiniteSet(before[r])
          BY <1>5
        <5>2. QED
          BY <4>1, <5>1, FS_RemoveElement
      <4>4. Cardinality(before[q]) <= Cardinality(before[r]) - 1
        BY <4>2, <4>3, FS_Subset
      <4>5. \A k, c, b, a, m, n \in Nat :
                n <= m + 1 /\ m <= k + c - 1 - b /\ a <= b - 1 => n <= k + c - 1 - a
        OBVIOUS
      <4>6. after[q] = before[q] /\ Cardinality(before[q]) \in Nat /\ Cardinality(before[r]) \in Nat
        BY <1>5, <2>0, <3>2
      <4>7. QED
        BY <1>6, <1>8, <1>9, <2>6, <4>4, <4>5, <4>6
    <3>3. QED
      BY <3>1, <3>2
  <2>8. QED
    BY <2>7 DEF left
<1>12. Room(after)'
  BY <1>4, <1>11 DEF Room
<1>13. QED
  BY <1>4, <1>10, <1>12 DEF Limited

LEMMA LimitedInit == InboxInit => Limited
<1> SUFFICES ASSUME InboxInit PROVE Limited
  OBVIOUS
<1> DEFINE before == [r \in Recorders |-> {}]
<1>1. Selected = {} /\ inbox = {}
  BY DEF InboxInit, Selected
<1>2. Order(before) /\ Room(before)
  BY <1>1 DEF Order, Room
<1>3. before \in [Recorders -> SUBSET Recorders]
  OBVIOUS
<1>4. InboxBounded
  <2>1. Cardinality(inbox) = 0
    BY <1>1, FS_EmptySet
  <2>2. Cardinality(Recorders) \in Nat /\ Keep \in Nat /\ Keep > 0
    BY InboxAssumption, FS_CardinalityType
  <2>3. QED
    BY <2>1, <2>2 DEF InboxBounded
<1>5. QED
  BY <1>2, <1>3, <1>4 DEF Limited

-----------------------------------------------------------------------------
LEMMA InboxStep == InboxIInv /\ [InboxNext]_inboxVars => InboxIInv'
<1> SUFFICES ASSUME InboxIInv, [InboxNext]_inboxVars PROVE InboxIInv'
  OBVIOUS
<1> USE DEF InboxIInv
<1>1. InboxTypeOK' /\ Staged'
  BY InboxTypeStep
<1>2. Covered' /\ StaleCovered'
  BY CoveredStep
<1>3. Limited'
  BY LimitedSame, LimitedSelect, LimitedRollBack, LimitedCommit DEF InboxNext
<1>4. QED
  BY <1>1, <1>2, <1>3

THEOREM InboxInvariant == InboxSpec => []InboxIInv
<1>1. InboxInit => InboxIInv
  BY LimitedInit
     DEF InboxInit, InboxIInv, InboxTypeOK, Staged, Covered, StaleCovered, Behind
<1>2. QED
  BY <1>1, InboxStep, PTL DEF InboxSpec

(* However many recorders insert, prune, commit and fail at the same time  *)
(* (record_received_request), list_inbox shows the newest rows there were. *)
THEOREM InboxIsTheTail == InboxSpec => []InboxShowsNewest
<1>1. InboxIInv => InboxShowsNewest
  <2> SUFFICES ASSUME InboxIInv PROVE InboxShowsNewest
    OBVIOUS
  <2> USE DEF InboxIInv, InboxTypeOK
  <2>1. clock \in Nat /\ recorded \in SUBSET (0 .. clock) /\ inbox \in SUBSET recorded
    <3>1. 1 .. clock \subseteq 0 .. clock
      OBVIOUS
    <3>2. QED
      BY <3>1
  <2>2. Newest(inbox) = Newest(recorded)
    BY <2>1, NewestCovered DEF Covered
  <2>3. QED
    BY <2>2 DEF InboxShowsNewest
<1>2. QED
  BY <1>1, InboxInvariant, PTL

(* The table stays bounded, by one row for each other recorder.            *)
THEOREM InboxStaysBounded == InboxSpec => []InboxBounded
<1>1. InboxIInv => InboxBounded
  BY DEF InboxIInv, Limited
<1>2. QED
  BY <1>1, InboxInvariant, PTL

-----------------------------------------------------------------------------
(* Seeding.                                                                *)

SeedingSpec == SeedingInit /\ [][SeedingNext]_seedingVars

(* The kinds that a seeder has found, created or skipped.                  *)
Passed(s) == {Kinds[i] : i \in 1..(spc[s] - 1)}

(* The kinds that a seeder may not be configured to have.                  *)
Optional == KindSet \ Needed

SeedingTypeOK ==
    /\ rows \in [KindSet -> SUBSET (Seeders \cup {Earlier})]
    /\ spc \in [Seeders -> 0..Done]
    /\ created \in [Seeders -> SUBSET KindSet]
    /\ handles \in [Seeders -> [KindSet -> SUBSET (Seeders \cup {Earlier})]]

AtMostOne(S) == S = {} \/ \E x : S = {x}

(* What the advisory lock buys: one transaction at a time creates rows, and*)
(* only rows that are not there.                                           *)
Exclusive ==
    /\ \A s, q \in Seeders : Seeding(s) /\ Seeding(q) => s = q
    /\ \A s \in Seeders : ~Seeding(s) => created[s] = {}
    /\ \A s \in Seeders : \A k \in created[s] : rows[k] = {}

(* What a seeder holds: nothing at first, then what it sees.               *)
Holding ==
    \A s \in Seeders :
        /\ spc[s] = Start => handles[s] = Nobody
        /\ Seeding(s) =>
              /\ \A k \in Optional : handles[s][k] \subseteq Existing(s, k)
              /\ \A k \in Passed(s) \ Optional :
                    handles[s][k] = Existing(s, k) /\ Existing(s, k) # {}
        /\ spc[s] = Done =>
              /\ \A k \in Needed : handles[s][k] = rows[k] /\ rows[k] # {}
              /\ \A k \in Optional : handles[s][k] \subseteq rows[k]

(* The inductive invariant.                                                *)
SeedingIInv ==
    /\ SeedingTypeOK
    /\ \A k \in KindSet : AtMostOne(rows[k])
    /\ Exclusive
    /\ Holding

-----------------------------------------------------------------------------
LEMMA KindFacts ==
    /\ Len(Kinds) = 7 /\ DOMAIN Kinds = 1..7
    /\ KindSet = {"project", "receiver", "discord", "naive", "safe", "key", "newkey"}
    /\ Needed \subseteq KindSet /\ Optional = {"discord", "key", "newkey"}
<1>1. Len(Kinds) = 7 /\ DOMAIN Kinds = 1..7
  BY DEF Kinds
<1>2. /\ Kinds[1] = "project" /\ Kinds[2] = "receiver" /\ Kinds[3] = "discord"
      /\ Kinds[4] = "naive" /\ Kinds[5] = "safe" /\ Kinds[6] = "key"
      /\ Kinds[7] = "newkey"
  BY DEF Kinds
<1>3. \A i \in 1..7 : i = 1 \/ i = 2 \/ i = 3 \/ i = 4 \/ i = 5 \/ i = 6 \/ i = 7
  OBVIOUS
<1>4. KindSet = {"project", "receiver", "discord", "naive", "safe", "key", "newkey"}
  BY <1>1, <1>2, <1>3 DEF KindSet
<1>5. QED
  BY <1>1, <1>4 DEF Needed, Optional

LEMMA Sizes ==
    ASSUME NEW S, AtMostOne(S)
    PROVE  Cardinality(S) <= 1 /\ (Cardinality(S) = 1 => S # {})
<1>1. CASE S = {}
  BY <1>1, FS_EmptySet
<1>2. ASSUME NEW x, S = {x} PROVE Cardinality(S) = 1 /\ S # {}
  BY <1>2, FS_Singleton
<1>3. QED
  BY <1>1, <1>2 DEF AtMostOne

LEMMA SeedingInitIInv == SeedingInit => SeedingIInv
<1> SUFFICES ASSUME SeedingInit PROVE SeedingIInv
  OBVIOUS
<1>1. PICK old : rows = [k \in KindSet |-> IF k \in old THEN {Earlier} ELSE {}]
  BY DEF SeedingInit
<1>2. /\ spc = [s \in Seeders |-> 0]
      /\ created = [s \in Seeders |-> {}]
      /\ handles = [s \in Seeders |-> Nobody]
  BY DEF SeedingInit, Start
<1>3. SeedingTypeOK
  BY <1>1, <1>2, KindFacts DEF SeedingTypeOK, Nobody, Done
<1>4. \A k \in KindSet : AtMostOne(rows[k])
  BY <1>1 DEF AtMostOne
<1>5. Exclusive /\ Holding
  BY <1>2, KindFacts DEF Exclusive, Holding, Seeding, ToCommit, Done, Start
<1>6. QED
  BY <1>3, <1>4, <1>5 DEF SeedingIInv

-----------------------------------------------------------------------------
LEMMA ResolveKeeps ==
    ASSUME SeedingIInv, NEW s \in Seeders, Resolve(s)
    PROVE  SeedingIInv'
<1> USE KindFacts DEF SeedingIInv
<1>1. /\ spc[s] = 0 /\ spc' = [spc EXCEPT ![s] = 9]
      /\ handles' = [handles EXCEPT ![s] = [rows EXCEPT !["key"] = {}, !["newkey"] = {}]]
      /\ UNCHANGED <<rows, created>>
      /\ \A k \in Needed : rows[k] # {}
  BY DEF Resolve, Start, Done
<1>2. SeedingTypeOK'
  BY <1>1 DEF SeedingTypeOK, Done
<1>3. Exclusive'
  BY <1>1 DEF Exclusive, Seeding, ToCommit, SeedingTypeOK
<1>4. ~Seeding(s)' /\ \A q \in Seeders \ {s} : handles'[q] = handles[q] /\ spc'[q] = spc[q]
  BY <1>1 DEF Seeding, ToCommit, SeedingTypeOK
<1>5. /\ \A k \in Optional : handles'[s][k] \subseteq rows[k]
      /\ \A k \in Needed : handles'[s][k] = rows[k]
  BY <1>1 DEF SeedingTypeOK, Needed
<1>6. Holding'
  <2>1. spc'[s] = Done /\ spc'[s] # Start
    BY <1>1 DEF SeedingTypeOK, Start, Done
  <2>2. ASSUME NEW q \in Seeders \ {s}
        PROVE  /\ Seeding(q)' <=> Seeding(q)
               /\ Passed(q)' = Passed(q)
               /\ \A k \in KindSet : Existing(q, k)' = Existing(q, k)
    BY <1>1, <1>4 DEF Seeding, Passed, Existing
  <2>3. ASSUME NEW q \in Seeders \ {s}, Seeding(q)
        PROVE  /\ \A k \in Optional : handles'[q][k] \subseteq Existing(q, k)'
               /\ \A k \in Passed(q)' \ Optional :
                     handles'[q][k] = Existing(q, k)' /\ Existing(q, k)' # {}
    BY <1>1, <1>4, <2>3 DEF Holding, Seeding, Passed, Existing
  <2>4. ASSUME NEW q \in Seeders, spc'[q] = Start PROVE handles'[q] = Nobody
    BY <1>4, <2>1, <2>4 DEF Holding
  <2>5. ASSUME NEW q \in Seeders, Seeding(q)'
        PROVE  /\ \A k \in Optional : handles'[q][k] \subseteq Existing(q, k)'
               /\ \A k \in Passed(q)' \ Optional :
                     handles'[q][k] = Existing(q, k)' /\ Existing(q, k)' # {}
    <3>1. q \in Seeders \ {s} /\ Seeding(q)
      BY <1>4, <2>2, <2>5
    <3>2. QED
      BY <2>3, <3>1
  <2>6. ASSUME NEW q \in Seeders, spc'[q] = Done
        PROVE  /\ \A k \in Needed : handles'[q][k] = rows'[k] /\ rows'[k] # {}
               /\ \A k \in Optional : handles'[q][k] \subseteq rows'[k]
    <3>1. CASE q = s
      BY <1>1, <1>5, <3>1
    <3>2. CASE q # s
      BY <1>1, <1>4, <2>6, <3>2 DEF Holding
    <3>3. QED
      BY <3>1, <3>2
  <2>7. QED
    BY <2>4, <2>5, <2>6 DEF Holding
<1>7. QED
  BY <1>1, <1>2, <1>3, <1>6

LEMMA AskSeedKeeps ==
    ASSUME SeedingIInv, NEW s \in Seeders, AskSeed(s)
    PROVE  SeedingIInv'
<1> USE KindFacts DEF SeedingIInv
<1>1. /\ spc[s] = 0 /\ spc' = [spc EXCEPT ![s] = 1]
      /\ \A q \in Seeders : ~Seeding(q)
      /\ UNCHANGED <<rows, created, handles>>
  BY DEF AskSeed, Start
<1>2. SeedingTypeOK'
  BY <1>1 DEF SeedingTypeOK, Done
<1>3. Exclusive'
  BY <1>1 DEF Exclusive, Seeding, ToCommit, SeedingTypeOK
<1>4. Passed(s)' = {} /\ \A k \in Optional : handles[s][k] = {}
  BY <1>1 DEF Passed, SeedingTypeOK, Holding, Nobody, Start
<1>5. Holding'
  BY <1>1, <1>4 DEF Holding, Seeding, Passed, Existing, SeedingTypeOK, Start, Done, ToCommit
<1>6. QED
  BY <1>1, <1>2, <1>3, <1>5

LEMMA FindOrCreateKeeps ==
    ASSUME SeedingIInv, NEW s \in Seeders, FindOrCreate(s)
    PROVE  SeedingIInv'
<1> USE KindFacts DEF SeedingIInv
<1>0. PICK k \in KindSet : k = Kinds[spc[s]]
  BY DEF FindOrCreate, KindSet
<1>1. /\ spc[s] \in 1..7
      /\ spc' = [spc EXCEPT ![s] = spc[s] + 1]
      /\ UNCHANGED rows
  BY DEF FindOrCreate
<1>2. Seeding(s) /\ Seeding(s)' /\ \A q \in Seeders \ {s} : ~Seeding(q) /\ ~Seeding(q)'
  BY <1>1 DEF Exclusive, Seeding, ToCommit, SeedingTypeOK
<1>3. Passed(s)' = Passed(s) \cup {k}
  <2>1. spc'[s] - 1 = spc[s] /\ 1..spc[s] = (1..(spc[s] - 1)) \cup {spc[s]}
    BY <1>1 DEF SeedingTypeOK
  <2>2. QED
    BY <1>0, <2>1 DEF Passed
<1>4. \/ k \in Optional /\ UNCHANGED <<created, handles>>
      \/ /\ Existing(s, k) # {}
         /\ handles' = [handles EXCEPT ![s][k] = Existing(s, k)]
         /\ UNCHANGED created
      \/ /\ Existing(s, k) = {}
         /\ handles' = [handles EXCEPT ![s][k] = {s}]
         /\ created' = [created EXCEPT ![s] = @ \cup {k}]
  BY <1>0, FS_EmptySet DEF FindOrCreate, Skipped, PlainKeys
<1>5. Existing(s, k) \subseteq Seeders \cup {Earlier}
  BY <1>1 DEF Existing, SeedingTypeOK
<1>6. SeedingTypeOK'
  <2>1. spc' \in [Seeders -> 0..Done] /\ rows' = rows
    BY <1>1 DEF SeedingTypeOK, Done
  <2>2. created' \in [Seeders -> SUBSET KindSet]
    BY <1>4 DEF SeedingTypeOK
  <2>3. \A T \in SUBSET (Seeders \cup {Earlier}) :
           [handles EXCEPT ![s][k] = T]
              \in [Seeders -> [KindSet -> SUBSET (Seeders \cup {Earlier})]]
    BY DEF SeedingTypeOK
  <2>4. handles' \in [Seeders -> [KindSet -> SUBSET (Seeders \cup {Earlier})]]
    <3>1. handles' = handles \/ \E T \in SUBSET (Seeders \cup {Earlier}) :
                                   handles' = [handles EXCEPT ![s][k] = T]
      <4>1. {s} \in SUBSET (Seeders \cup {Earlier})
        OBVIOUS
      <4>2. QED
        BY <1>4, <1>5, <4>1
    <3>2. CASE handles' = handles
      BY <3>2 DEF SeedingTypeOK
    <3>3. CASE \E T \in SUBSET (Seeders \cup {Earlier}) :
                  handles' = [handles EXCEPT ![s][k] = T]
      BY <2>3, <3>3
    <3>4. QED
      BY <3>1, <3>2, <3>3
  <2>5. QED
    BY <2>1, <2>2, <2>4 DEF SeedingTypeOK
<1>7. Exclusive'
  <2>1. Existing(s, k) = {} => rows[k] = {}
    BY DEF Existing
  <2>2. \A q \in Seeders : \A j \in created'[q] :
           j \in created[q] \/ (q = s /\ j = k /\ Existing(s, k) = {})
    BY <1>4 DEF SeedingTypeOK
  <2>3. \A q \in Seeders \ {s} : created'[q] = created[q]
    BY <1>4 DEF SeedingTypeOK
  <2>4. QED
    BY <1>1, <1>2, <2>1, <2>2, <2>3 DEF Exclusive
(* What it holds of a kind is what it sees, and stays so: a kind is created*)
(* only where it sees none.                                                *)
<1>8. /\ \A j \in Optional : handles'[s][j] \subseteq Existing(s, j)'
      /\ \A j \in Passed(s)' \ Optional :
            handles'[s][j] = Existing(s, j)' /\ Existing(s, j)' # {}
  <2>1. CASE k \in Optional /\ UNCHANGED <<created, handles>>
    BY <1>1, <1>2, <1>3, <2>1 DEF Holding, Existing
  <2>2. CASE /\ Existing(s, k) # {}
             /\ handles' = [handles EXCEPT ![s][k] = Existing(s, k)]
             /\ UNCHANGED created
    <3>1. \A j \in KindSet : Existing(s, j)' = Existing(s, j)
      BY <1>1, <2>2 DEF Existing
    <3>2. \A j \in KindSet : handles'[s][j] = IF j = k THEN Existing(s, k) ELSE handles[s][j]
      BY <1>1, <2>2 DEF SeedingTypeOK
    <3>3. Passed(s)' \subseteq KindSet
      BY <1>1, <1>6 DEF Passed, KindSet, SeedingTypeOK
    <3>4. QED
      BY <1>2, <1>3, <2>2, <3>1, <3>2, <3>3 DEF Holding
  <2>3. CASE /\ Existing(s, k) = {}
             /\ handles' = [handles EXCEPT ![s][k] = {s}]
             /\ created' = [created EXCEPT ![s] = @ \cup {k}]
    <3>1. \A j \in KindSet \ {k} : Existing(s, j)' = Existing(s, j)
      BY <1>1, <2>3 DEF Existing, SeedingTypeOK
    <3>2. Existing(s, k)' = {s}
      BY <1>1, <2>3 DEF Existing, SeedingTypeOK
    <3>3. \A j \in KindSet : handles'[s][j] = IF j = k THEN {s} ELSE handles[s][j]
      BY <1>1, <2>3 DEF SeedingTypeOK
    <3>4. Passed(s)' \subseteq KindSet
      BY <1>1, <1>6 DEF Passed, KindSet, SeedingTypeOK
    <3>5. /\ \A j \in Optional : handles[s][j] \subseteq Existing(s, j)
          /\ \A j \in Passed(s) \ Optional :
                handles[s][j] = Existing(s, j) /\ Existing(s, j) # {}
      BY <1>2 DEF Holding
    <3>6. \A j \in Optional : handles'[s][j] \subseteq Existing(s, j)'
      <4> TAKE j \in Optional
      <4>1. j \in KindSet
        OBVIOUS
      <4>2. CASE j = k
        BY <3>2, <3>3, <4>1, <4>2
      <4>3. CASE j # k
        BY <3>1, <3>3, <3>5, <4>1, <4>3
      <4>4. QED
        BY <4>2, <4>3
    <3>7. \A j \in Passed(s)' \ Optional : handles'[s][j] = Existing(s, j)' /\ Existing(s, j)' # {}
      BY <1>3, <3>1, <3>2, <3>3, <3>4, <3>5
    <3>8. QED
      BY <3>6, <3>7
  <2>4. QED
    BY <1>4, <2>1, <2>2, <2>3
<1>9. \A q \in Seeders \ {s} : handles'[q] = handles[q] /\ spc'[q] = spc[q]
  BY <1>1, <1>4 DEF SeedingTypeOK
<1>10. spc'[s] # Start /\ spc'[s] # Done
  BY <1>1 DEF SeedingTypeOK, Start, Done
<1>11. Holding'
  BY <1>1, <1>2, <1>8, <1>9, <1>10 DEF Holding
<1>12. QED
  BY <1>1, <1>6, <1>7, <1>11

LEMMA CommitSeedKeeps ==
    ASSUME SeedingIInv, NEW s \in Seeders, CommitSeed(s)
    PROVE  SeedingIInv'
<1> USE KindFacts DEF SeedingIInv
<1>1. /\ spc[s] = 8 /\ spc' = [spc EXCEPT ![s] = 9]
      /\ rows' = [k \in KindSet |-> Existing(s, k)]
      /\ created' = [created EXCEPT ![s] = {}]
      /\ UNCHANGED handles
  BY DEF CommitSeed, ToCommit, Done
<1>2. Seeding(s) /\ ~Seeding(s)' /\ \A q \in Seeders \ {s} : ~Seeding(q) /\ ~Seeding(q)'
  BY <1>1 DEF Exclusive, Seeding, ToCommit, SeedingTypeOK
<1>3. \A k \in KindSet : \/ rows'[k] = rows[k]
                       \/ (rows[k] = {} /\ rows'[k] = {s})
  BY <1>1 DEF Existing, Exclusive
<1>4. SeedingTypeOK'
  BY <1>1, <1>3 DEF SeedingTypeOK, Done
<1>5. \A k \in KindSet : AtMostOne(rows'[k])
  BY <1>3 DEF AtMostOne
<1>6. Exclusive'
  BY <1>1, <1>2 DEF Exclusive, SeedingTypeOK
<1>7. KindSet \subseteq Passed(s)
  BY <1>1 DEF Passed, KindSet
<1>8. /\ \A k \in Needed : handles[s][k] = rows'[k] /\ rows'[k] # {}
      /\ \A k \in Optional : handles[s][k] \subseteq rows'[k]
  BY <1>1, <1>2, <1>7 DEF Holding, Needed
<1>9. ASSUME NEW q \in Seeders \ {s}, spc[q] = Done
      PROVE  /\ \A k \in Needed : handles[q][k] = rows'[k] /\ rows'[k] # {}
             /\ \A k \in Optional : handles[q][k] \subseteq rows'[k]
  <2>1. /\ \A k \in Needed : handles[q][k] = rows[k] /\ rows[k] # {}
        /\ \A k \in Optional : handles[q][k] \subseteq rows[k]
    BY <1>9 DEF Holding
  <2>2. \A k \in Needed : rows'[k] = rows[k]
    BY <1>3, <2>1
  <2>3. \A k \in Optional : rows[k] \subseteq rows'[k]
    BY <1>3
  <2>4. QED
    BY <2>1, <2>2, <2>3
<1>10. \A q \in Seeders \ {s} : spc'[q] = spc[q]
  BY <1>1 DEF SeedingTypeOK
<1>11. Holding'
  <2>1. spc'[s] # Start /\ ~Seeding(s)'
    BY <1>1, <1>2 DEF SeedingTypeOK, Start
  <2>2. ASSUME NEW q \in Seeders, spc'[q] = Start PROVE handles'[q] = Nobody
    BY <1>1, <1>10, <2>1, <2>2 DEF Holding
  <2>3. \A q \in Seeders : ~Seeding(q)'
    BY <1>2, <2>1
  <2>4. ASSUME NEW q \in Seeders, spc'[q] = Done
        PROVE  /\ \A k \in Needed : handles'[q][k] = rows'[k] /\ rows'[k] # {}
               /\ \A k \in Optional : handles'[q][k] \subseteq rows'[k]
    BY <1>1, <1>8, <1>9, <1>10, <2>4
  <2>5. QED
    BY <2>2, <2>3, <2>4 DEF Holding
<1>12. QED
  BY <1>4, <1>5, <1>6, <1>11

LEMMA FailSeedKeeps ==
    ASSUME SeedingIInv, NEW s \in Seeders, FailSeed(s)
    PROVE  SeedingIInv'
<1> USE KindFacts DEF SeedingIInv
<1>1. /\ spc' = [spc EXCEPT ![s] = 0]
      /\ created' = [created EXCEPT ![s] = {}]
      /\ handles' = [handles EXCEPT ![s] = Nobody]
      /\ UNCHANGED rows /\ Seeding(s)
  BY DEF FailSeed, Start
<1>2. SeedingTypeOK'
  BY <1>1 DEF SeedingTypeOK, Done, Nobody
<1>3. Exclusive'
  BY <1>1 DEF Exclusive, Seeding, ToCommit, SeedingTypeOK
<1>4. /\ spc'[s] = 0 /\ handles'[s] = Nobody
      /\ \A q \in Seeders \ {s} : /\ handles'[q] = handles[q] /\ spc'[q] = spc[q]
                                  /\ created'[q] = created[q]
  BY <1>1 DEF SeedingTypeOK
<1>5. Holding'
  BY <1>1, <1>4 DEF Holding, Seeding, Passed, Existing, Start, Done, ToCommit
<1>6. QED
  BY <1>1, <1>2, <1>3, <1>5

LEMMA Inductive == SeedingSpec => []SeedingIInv
<1>1. SeedingInit => SeedingIInv
  BY SeedingInitIInv
<1>2. ASSUME SeedingIInv, [SeedingNext]_seedingVars PROVE SeedingIInv'
  <2>1. CASE SeedingNext
    BY <1>2, <2>1, ResolveKeeps, AskSeedKeeps, FindOrCreateKeeps, CommitSeedKeeps,
       FailSeedKeeps DEF SeedingNext
  <2>2. CASE UNCHANGED seedingVars
    <3>1. UNCHANGED <<rows, spc, created, handles>>
      BY <2>2 DEF seedingVars
    <3>2. (\A k \in KindSet : AtMostOne(rows[k]))'
      BY <1>2, <3>1 DEF SeedingIInv
    <3>3. SeedingTypeOK' /\ Exclusive'
      BY <1>2, <3>1 DEF SeedingIInv, SeedingTypeOK, Exclusive, Seeding
    <3>4. Holding'
      BY <1>2, <3>1 DEF SeedingIInv, Holding, Seeding, Passed, Existing
    <3>5. QED
      BY <3>2, <3>3, <3>4 DEF SeedingIInv
  <2>3. QED
    BY <1>2, <2>1, <2>2
<1>3. QED
  BY <1>1, <1>2, PTL DEF SeedingSpec

(* However many processes and requests seed at once, fail and start over,  *)
(* the showcase has one row of each kind at most, and whoever is done holds*)
(* the committed rows (seed_showcase, resolve_showcase).                   *)
THEOREM ShowcaseSeededOnce == SeedingSpec => []SeededOnce
<1>1. SeedingIInv => SeededOnce
  BY Sizes DEF SeedingIInv, SeededOnce, Holding, Optional
<1>2. QED
  BY <1>1, Inductive, PTL
=============================================================================
