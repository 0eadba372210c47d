----------------------------- MODULE Api_proofs ------------------------------
(***************************************************************************)
(* Proofs about the API around the queue: paged listings (KeysetWalk), for *)
(* every finite set of rows and page size; signing secrets                 *)
(* (SigningSecrets), for any number of rotations and any tolerance; and API*)
(* keys (ProjectAccess), for every set of projects, keys and requests.     *)
(***************************************************************************)
EXTENDS KeysetWalk, SigningSecrets, ProjectAccess, FiniteSetTheorems, SequenceTheorems, TLAPS

WalkSpec == WalkInit /\ [][WalkNext]_walkVars

-----------------------------------------------------------------------------
(* Paged listings.                                                         *)

TableRow == [state : {"new", "there", "gone"}, at : Int, tag : Tags]

WalkTypeOK ==
    /\ table \in [Ids -> TableRow]
    /\ listing \in Listings \cup {"none"}
    /\ cursor \in {Top, End} \cup (Int \X Ids)
    /\ pages \in Seq(Ids)
    /\ stayed \subseteq There

(* What a listing may filter by.                                           *)
Filtered ==
    /\ listing \notin {"events", "deliveries"} => filter.window = Instants
    /\ listing \in {"none", "projects", "api_keys"} => filter.tag = "any"

(* created_at is one of the instants.                                      *)
Dated == \A i \in There : table[i].at \in Instants

(* What was returned was in the table, in order.                           *)
Returned ==
    /\ \A n \in 1 .. Len(pages) : table[pages[n]].state # "new"
    /\ \A m, n \in 1 .. Len(pages) : m < n => Precedes(pages[m], pages[n])

(* The cursor is not before what was returned, ...                         *)
Behind ==
    /\ listing = "none" => cursor = Top
    /\ cursor = Top => pages = <<>>
    /\ cursor \notin {Top, End} =>
          \A n \in 1 .. Len(pages) :
              \/ table[pages[n]].at > cursor[1]
              \/ table[pages[n]].at = cursor[1] /\ pages[n] >= cursor[2]

(* ... nor after what is still to be returned.                             *)
Kept ==
    \A i \in stayed : Tagged(i) /\ InWindow(i) =>
        \/ AfterCursor(i)
        \/ \E n \in 1 .. Len(pages) : pages[n] = i

WalkIInv == WalkTypeOK /\ Filtered /\ Dated /\ Returned /\ Behind /\ Kept

-----------------------------------------------------------------------------
LEMMA CursorKinds ==
    /\ Top # End
    /\ \A a, i : <<a, i>> # Top /\ <<a, i>> # End
BY DEF Top, End

LEMMA WalkInitIInv == WalkInit => WalkIInv
<1> SUFFICES ASSUME WalkInit PROVE WalkIInv
  OBVIOUS
<1> USE DEF WalkInit
<1>1. WalkTypeOK
  BY DEF WalkTypeOK, TableRow, Tags, There
<1>2. Filtered /\ Dated /\ Returned /\ Behind /\ Kept
  BY CursorKinds DEF Filtered, Dated, There, Returned, Behind, Kept
<1>3. QED
  BY <1>1, <1>2 DEF WalkIInv

(* What else happens to the table.                                         *)
LEMMA TableSteps ==
    ASSUME WalkIInv, NEW j \in Ids, InsertRow(j) \/ ChangeRow(j) \/ DeleteRow(j)
    PROVE  WalkIInv'
<1> USE DEF WalkIInv
<1>1. /\ UNCHANGED <<listing, filter, cursor, pages>>
      /\ stayed' \subseteq stayed
      /\ table' \in [Ids -> TableRow]
      /\ \A i \in Ids \ {j} : table'[i] = table[i]
      /\ table'[j].state # "new"
      /\ table[j].state # "new" => table'[j].at = table[j].at
      /\ j \in stayed => j \notin stayed'
      /\ j \in There' => table'[j].at \in Instants
  <2>1. CASE InsertRow(j)
    <3>1. PICK n \in Instants, g \in Tags :
              table' = [table EXCEPT ![j] = [state |-> "there", at |-> n, tag |-> g]]
      BY <2>1 DEF InsertRow
    <3>2. table' \in [Ids -> TableRow]
      BY <3>1, WalkAssumption DEF WalkTypeOK, TableRow
    <3>3. table'[j] = [state |-> "there", at |-> n, tag |-> g]
      BY <3>1 DEF WalkTypeOK
    <3>4. j \notin stayed
      BY <2>1 DEF InsertRow, WalkTypeOK, There
    <3>5. QED
      BY <2>1, <3>1, <3>2, <3>3, <3>4 DEF InsertRow, WalkTypeOK
  <2>2. CASE ChangeRow(j)
    <3>1. PICK g \in Tags : table' = [table EXCEPT ![j].tag = g]
      BY <2>2 DEF ChangeRow
    <3>2. /\ table'[j] = [table[j] EXCEPT !.tag = g] /\ table[j] \in TableRow
          /\ table[j].state = "there" /\ stayed' = stayed \ {j}
      BY <2>2, <3>1 DEF ChangeRow, WalkTypeOK
    <3>3. /\ table'[j] \in TableRow /\ table'[j].at = table[j].at
          /\ table'[j].state = "there"
      BY <3>2 DEF TableRow
    <3>4. table' \in [Ids -> TableRow] /\ \A i \in Ids \ {j} : table'[i] = table[i]
      BY <3>1, <3>3 DEF WalkTypeOK
    <3>5. QED
      BY <2>2, <3>2, <3>3, <3>4 DEF ChangeRow, Dated, There
  <2>3. CASE DeleteRow(j)
    <3>1. /\ table' = [table EXCEPT ![j].state = "gone"] /\ table[j] \in TableRow
          /\ table[j].state = "there" /\ stayed' = stayed \ {j}
      BY <2>3 DEF DeleteRow, WalkTypeOK
    <3>2. table'[j] = [table[j] EXCEPT !.state = "gone"]
      BY <3>1 DEF WalkTypeOK
    <3>3. /\ table'[j] \in TableRow /\ table'[j].at = table[j].at
          /\ table'[j].state = "gone"
      BY <3>1, <3>2 DEF TableRow
    <3>4. table' \in [Ids -> TableRow] /\ \A i \in Ids \ {j} : table'[i] = table[i]
      BY <3>1, <3>3 DEF WalkTypeOK
    <3>5. QED
      BY <2>3, <3>1, <3>3, <3>4 DEF DeleteRow, There
  <2>4. QED
    BY <2>1, <2>2, <2>3
<1>2. stayed' \subseteq stayed \ {j} /\ stayed \subseteq Ids
  BY <1>1 DEF WalkTypeOK, There
<1>3. WalkTypeOK'
  <2>1. stayed' \subseteq There'
    BY <1>1, <1>2 DEF WalkTypeOK, There
  <2>2. QED
    BY <1>1, <2>1 DEF WalkTypeOK
<1>4. Filtered'
  BY <1>1 DEF Filtered
<1>5. Dated'
  BY <1>1 DEF Dated, There
<1>6. \A n \in 1 .. Len(pages) : pages[n] \in Ids
  BY DEF WalkTypeOK
<1>7. \A n \in 1 .. Len(pages) : /\ table'[pages[n]].at = table[pages[n]].at
                                 /\ table'[pages[n]].state # "new"
  BY <1>1, <1>6 DEF Returned
<1>8. Returned'
  BY <1>1, <1>7 DEF Returned, Precedes
<1>9. Behind'
  BY <1>1, <1>7 DEF Behind
<1>10. Kept'
  BY <1>1, <1>2 DEF Kept, Tagged, InWindow, AfterCursor
<1>11. QED
  BY <1>3, <1>4, <1>5, <1>8, <1>9, <1>10

LEMMA BeginKeeps ==
    ASSUME WalkIInv, BeginWalk
    PROVE  WalkIInv'
<1> USE DEF WalkIInv, BeginWalk
<1>1. WalkTypeOK'
  BY DEF WalkTypeOK, There
<1>2. Filtered'
  BY DEF Filtered, FiltersOf, Listings
<1>3. Dated'
  BY DEF Dated, There
<1>4. Returned'
  BY DEF Returned, Precedes
<1>5. Behind'
  BY DEF Behind, Listings
<1>6. Kept'
  BY DEF Kept, Behind, AfterCursor
<1>7. QED
  BY <1>1, <1>2, <1>3, <1>4, <1>5, <1>6

(* A page continues what was returned and passes over nothing.             *)
LEMMA FetchKeeps ==
    ASSUME WalkIInv, listing # "none",
           NEW matching \in SUBSET There, FetchPage(matching),
           \A i \in There : Tagged(i) /\ InWindow(i) => i \in matching
    PROVE  WalkIInv'
<1> USE DEF WalkIInv
<1> DEFINE S == {i \in matching : AfterCursor(i)}
<1>1. PICK found \in Ordered(S) :
          IF Len(found) > PageSize
          THEN /\ pages' = pages \o SubSeq(found, 1, PageSize)
               /\ cursor' = <<table[found[PageSize]].at, found[PageSize]>>
          ELSE /\ pages' = pages \o found
               /\ cursor' = End
  BY DEF FetchPage
<1>2. UNCHANGED <<table, listing, filter, stayed>> /\ cursor # End
  BY DEF FetchPage
<1>3. S \subseteq Ids /\ S \subseteq There /\ \A i \in S : AfterCursor(i)
  BY DEF There
<1>4. \A i \in There : Tagged(i) /\ InWindow(i) /\ AfterCursor(i) => i \in S
  OBVIOUS
<1> HIDE DEF S
<1>5. Cardinality(S) \in Nat
  BY <1>3, WalkAssumption, FS_Subset, FS_CardinalityType
<1>6. PICK N \in Nat :
          /\ found \in [1 .. N -> S] /\ DOMAIN found = 1 .. N
          /\ \A i \in S : \E n \in 1 .. N : found[n] = i
          /\ \A m, n \in 1 .. N : m < n => Precedes(found[m], found[n])
  BY <1>5 DEF Ordered
<1>7. found \in Seq(S) /\ Len(found) = N
  <2>1. found \in Seq(S)
    BY <1>6, SeqDef
  <2>2. QED
    BY <1>6, <2>1, LenProperties
<1>8. PICK page \in Seq(S), k \in 0 .. N :
          /\ pages' = pages \o page /\ Len(page) = k
          /\ \A n \in 1 .. k : page[n] = found[n]
          /\ \/ k = N /\ cursor' = End
             \/ k > 0 /\ cursor' = <<table[page[k]].at, page[k]>>
  <2>1. CASE N > PageSize
    <3>1. PageSize \in 1 .. N
      BY <2>1, WalkAssumption
    <3>2. /\ SubSeq(found, 1, PageSize) \in Seq(S)
          /\ Len(SubSeq(found, 1, PageSize)) = PageSize
          /\ \A n \in 1 .. PageSize : SubSeq(found, 1, PageSize)[n] = found[n]
      BY <1>7, <3>1, SubSeqProperties
    <3>3. PICK page \in Seq(S) : page = SubSeq(found, 1, PageSize)
      BY <3>2
    <3>4. PageSize > 0 /\ PageSize \in 1 .. PageSize /\ PageSize \in 0 .. N
      BY <3>1, WalkAssumption
    <3>5. pages' = pages \o page /\ cursor' = <<table[found[PageSize]].at, found[PageSize]>>
      BY <1>1, <1>7, <2>1, <3>3
    <3>6. Len(page) = PageSize /\ \A n \in 1 .. PageSize : page[n] = found[n]
      BY <3>2, <3>3
    <3>7. page[PageSize] = found[PageSize]
      BY <3>4, <3>6
    <3>8. QED
      BY <3>4, <3>5, <3>6, <3>7
  <2>2. CASE ~(N > PageSize)
    <3>1. pages' = pages \o found /\ cursor' = End
      BY <1>1, <1>7, <2>2
    <3>2. N \in 0 .. N
      OBVIOUS
    <3>3. QED
      BY <1>7, <3>1, <3>2
  <2>3. QED
    BY <2>1, <2>2
<1>9. PICK L \in Nat : L = Len(pages)
  BY DEF WalkTypeOK
<1>10. /\ pages' \in Seq(Ids) /\ Len(pages') = L + k
       /\ \A n \in 1 .. L : pages'[n] = pages[n]
       /\ \A n \in 1 .. k : pages'[L + n] = found[n]
  <2>1. pages \in Seq(Ids) /\ page \in Seq(Ids)
    BY <1>3, <1>8, SeqDef DEF WalkTypeOK
  <2>2. pages' \in Seq(Ids) /\ Len(pages') = L + k
    BY <1>8, <1>9, <2>1, ConcatProperties
  <2>3. \A n \in 1 .. L : pages'[n] = pages[n]
    BY <1>8, <1>9, <2>1, ConcatProperties
  <2>4. ASSUME NEW n \in 1 .. k PROVE pages'[L + n] = found[n]
    <3>1. L + n \in 1 .. Len(pages) + Len(page) /\ L + n > Len(pages)
      BY <1>8, <1>9
    <3>2. pages'[L + n] = page[n]
      BY <1>8, <1>9, <2>1, <3>1, ConcatProperties
    <3>3. QED
      BY <1>8, <3>2
  <2>5. QED
    BY <2>2, <2>3, <2>4
<1>11. \A n \in 1 .. L + k : n \in 1 .. L \/ \E m \in 1 .. k : n = L + m
  <2> TAKE n \in 1 .. L + k
  <2>1. n \in 1 .. L \/ n - L \in 1 .. k
    BY <1>8, <1>9
  <2>2. n = L + (n - L)
    BY <1>9
  <2>3. QED
    BY <2>1, <2>2
<1>12. \A n \in 1 .. k : found[n] \in S /\ found[n] \in Ids
  BY <1>3, <1>6, <1>8
<1>121. /\ \A n \in 1 .. L : pages[n] \in Ids
        /\ \A n \in 1 .. L + k : pages'[n] \in Ids
  BY <1>9, <1>10 DEF WalkTypeOK
<1>13. WalkTypeOK'
  <2>1. cursor' \in {Top, End} \cup (Int \X Ids)
    <3>1. CASE k > 0 /\ cursor' = <<table[page[k]].at, page[k]>>
      <4>1. k \in 1 .. k /\ page[k] = found[k]
        BY <1>8, <3>1
      <4>2. page[k] \in Ids
        BY <1>12, <4>1
      <4>3. table[page[k]].at \in Int
        BY <4>2 DEF WalkTypeOK, TableRow
      <4>4. QED
        BY <3>1, <4>2, <4>3
    <3>2. QED
      BY <1>8, <3>1
  <2>2. QED
    BY <1>2, <1>10, <2>1 DEF WalkTypeOK, There
<1>14. Filtered' /\ Dated'
  BY <1>2 DEF Filtered, Dated, There
(* What was returned before goes before the page.                          *)
<1>15. \A n \in 1 .. L, m \in 1 .. k : Precedes(pages[n], found[m])
  <2> TAKE n \in 1 .. L, m \in 1 .. k
  <2>1. AfterCursor(found[m])
    BY <1>3, <1>12
  <2>2. cursor # Top
    BY <1>9 DEF Behind
  <2>3. cursor \in Int \X Ids /\ cursor \notin {Top, End}
    BY <1>2, <2>2 DEF WalkTypeOK
  <2>4. PICK a \in Int, c \in Int : cursor[1] = a /\ cursor[2] = c
    BY <2>3, WalkAssumption
  <2>5. /\ table[pages[n]].at \in Int /\ pages[n] \in Int
        /\ table[found[m]].at \in Int /\ found[m] \in Int
    <3>1. pages[n] \in Ids /\ found[m] \in Ids
      BY <1>9, <1>12 DEF WalkTypeOK
    <3>2. QED
      BY <3>1, WalkAssumption DEF WalkTypeOK, TableRow
  <2>6. table[pages[n]].at > a \/ (table[pages[n]].at = a /\ pages[n] >= c)
    BY <1>9, <2>3, <2>4 DEF Behind
  <2>7. table[found[m]].at < a \/ (table[found[m]].at = a /\ found[m] < c)
    BY <2>1, <2>3, <2>4 DEF AfterCursor
  <2>8. QED
    BY <2>4, <2>5, <2>6, <2>7 DEF Precedes
<1>16. Returned'
  <2>1. \A n \in 1 .. L + k : table[pages'[n]].state # "new"
    <3> TAKE n \in 1 .. L + k
    <3>1. CASE n \in 1 .. L
      BY <1>9, <1>10, <3>1 DEF Returned
    <3>2. ASSUME NEW m \in 1 .. k, n = L + m PROVE table[pages'[n]].state # "new"
      <4>1. pages'[n] = found[m] /\ found[m] \in There
        BY <1>3, <1>10, <1>12, <3>2
      <4>2. QED
        BY <4>1 DEF There
    <3>3. QED
      BY <1>11, <3>1, <3>2
  <2>2. ASSUME NEW m \in 1 .. L + k, NEW n \in 1 .. L + k, m < n
        PROVE  Precedes(pages'[m], pages'[n])
    <3>1. CASE n \in 1 .. L
      <4>1. m \in 1 .. L
        BY <1>9, <2>2, <3>1
      <4>2. QED
        BY <1>9, <1>10, <2>2, <3>1, <4>1 DEF Returned
    <3>2. CASE n \notin 1 .. L
      <4>1. PICK j \in 1 .. k : n = L + j
        BY <1>11, <3>2
      <4>2. CASE m \in 1 .. L
        BY <1>10, <1>15, <4>1, <4>2
      <4>3. CASE m \notin 1 .. L
        <5>1. PICK i \in 1 .. k : m = L + i
          BY <1>11, <4>3
        <5>2. i < j /\ i \in 1 .. N /\ j \in 1 .. N
          BY <1>8, <1>9, <2>2, <4>1, <5>1
        <5>3. QED
          BY <1>6, <1>10, <4>1, <5>1, <5>2
      <4>4. QED
        BY <4>2, <4>3
    <3>3. QED
      BY <3>1, <3>2
  <2>3. QED
    BY <1>2, <1>10, <2>1, <2>2 DEF Returned, Precedes
<1>161. \A m, n \in 1 .. L + k : m < n => Precedes(pages'[m], pages'[n])
  BY <1>2, <1>10, <1>16 DEF Returned, Precedes
<1>17. CASE k = N /\ cursor' = End
  <2>1. Behind'
    BY <1>2, <1>17, CursorKinds DEF Behind
  <2>2. ASSUME NEW i \in stayed, Tagged(i), InWindow(i)
        PROVE  \E n \in 1 .. L + k : pages'[n] = i
    <3>1. CASE AfterCursor(i)
      <4>1. i \in S
        BY <1>4, <2>2, <3>1 DEF WalkTypeOK
      <4>2. PICK n \in 1 .. k : found[n] = i
        BY <1>6, <1>17, <4>1
      <4>3. L + n \in 1 .. L + k
        BY <1>8, <1>9
      <4>4. QED
        BY <1>10, <4>2, <4>3
    <3>2. CASE ~AfterCursor(i)
      <4>1. PICK n \in 1 .. L : pages[n] = i
        BY <1>9, <2>2, <3>2 DEF Kept
      <4>2. n \in 1 .. L + k
        BY <1>8, <1>9
      <4>3. QED
        BY <1>10, <4>1, <4>2
    <3>3. QED
      BY <3>1, <3>2
  <2>3. Kept'
    BY <1>2, <1>10, <2>2 DEF Kept, Tagged, InWindow
  <2>4. QED
    BY <1>13, <1>14, <1>16, <2>1, <2>3
<1>18. CASE k > 0 /\ cursor' = <<table[page[k]].at, page[k]>>
  <2>1. k \in 1 .. k /\ page[k] = found[k] /\ k \in 1 .. N
    BY <1>8, <1>18
  <2>2. PICK last \in Ids :
            /\ last = found[k] /\ pages'[L + k] = last
            /\ cursor'[1] = table[last].at /\ cursor'[2] = last
            /\ cursor' \notin {Top, End}
    BY <1>10, <1>12, <1>18, <2>1, CursorKinds
  <2>3. ASSUME NEW n \in 1 .. L + k
        PROVE  \/ table[pages'[n]].at > table[last].at
               \/ table[pages'[n]].at = table[last].at /\ pages'[n] >= last
    <3>0. last \in Int /\ pages'[n] \in Int /\ table[last].at \in Int
      BY <1>121, WalkAssumption DEF WalkTypeOK, TableRow
    <3>1. CASE n = L + k
      <4>1. pages'[n] = last
        BY <2>2, <3>1
      <4>2. QED
        BY <3>0, <4>1
    <3>2. CASE n # L + k
      <4>1. n < L + k /\ n \in 1 .. L + k /\ L + k \in 1 .. L + k
        <5>1. L \in Nat /\ k \in Nat /\ n \in 1 .. L + k
          BY <1>7, <1>8, <1>9
        <5>2. QED
          BY <3>2, <5>1
      <4>2. Precedes(pages'[n], last)
        BY <2>2, <4>1, <1>161
      <4>3. QED
        BY <3>0, <4>2 DEF Precedes
    <3>3. QED
      BY <3>1, <3>2
  <2>4. Behind'
    BY <1>2, <1>10, <2>2, <2>3 DEF Behind
  <2>5. ASSUME NEW i \in stayed, Tagged(i), InWindow(i)
        PROVE  AfterCursor(i)' \/ \E n \in 1 .. L + k : pages'[n] = i
    <3>1. CASE AfterCursor(i)
      <4>1. i \in S /\ i \in Ids
        BY <1>3, <1>4, <2>5, <3>1 DEF WalkTypeOK
      <4>2. PICK n \in 1 .. N : found[n] = i
        BY <1>6, <4>1
      <4>3. CASE n <= k
        <5>1. n \in 1 .. k /\ L + n \in 1 .. L + k
          BY <1>8, <1>9, <4>3
        <5>2. QED
          BY <1>10, <4>2, <5>1
      <4>4. CASE n > k
        <5>1. Precedes(last, i)
          <6>1. Precedes(found[k], found[n])
            BY <1>6, <2>1, <4>4
          <6>2. QED
            BY <2>2, <4>2, <6>1
        <5>2. last \in Int /\ i \in Int /\ table[last].at \in Int /\ table[i].at \in Int
          BY <4>1, WalkAssumption DEF WalkTypeOK, TableRow
        <5>3. table[i].at < table[last].at \/ (table[i].at = table[last].at /\ i < last)
          BY <5>1, <5>2 DEF Precedes
        <5>4. /\ cursor' \notin {Top, End}
              /\ \/ table'[i].at < cursor'[1]
                 \/ table'[i].at = cursor'[1] /\ i < cursor'[2]
          BY <1>2, <2>2, <5>3
        <5>5. AfterCursor(i)'
          BY <5>4 DEF AfterCursor
        <5>6. QED
          BY <5>5
      <4>5. n <= k \/ n > k
        <5>1. n \in Int /\ k \in Int
          BY <1>6, <1>8, <4>2
        <5>2. QED
          BY <5>1
      <4>6. QED
        BY <4>3, <4>4, <4>5
    <3>2. CASE ~AfterCursor(i)
      <4>1. PICK n \in 1 .. L : pages[n] = i
        BY <1>9, <2>5, <3>2 DEF Kept
      <4>2. n \in 1 .. L + k
        BY <1>8, <1>9
      <4>3. QED
        BY <1>10, <4>1, <4>2
    <3>3. QED
      BY <3>1, <3>2
  <2>6. Kept'
    BY <1>2, <1>10, <2>5 DEF Kept, Tagged, InWindow
  <2>7. QED
    BY <1>13, <1>14, <1>16, <2>4, <2>6
<1>19. QED
  BY <1>8, <1>17, <1>18

-----------------------------------------------------------------------------
LEMMA WalkStep == WalkIInv /\ [WalkNext]_walkVars => WalkIInv'
<1> SUFFICES ASSUME WalkIInv, [WalkNext]_walkVars PROVE WalkIInv'
  OBVIOUS
<1>1. \A i \in There : InWindow(i) \/ listing \in {"events", "deliveries"}
  BY DEF WalkIInv, Filtered, Dated, InWindow
<1>2. ASSUME NEW j \in Ids, InsertRow(j) \/ ChangeRow(j) \/ DeleteRow(j) PROVE WalkIInv'
  BY <1>2, TableSteps
<1>3. CASE BeginWalk
  BY <1>3, BeginKeeps
<1>4. CASE ListProjects
  BY <1>4, FetchKeeps DEF ListProjects
<1>5. CASE ListApiKeys
  BY <1>5, FetchKeeps DEF ListApiKeys
<1>6. CASE ListEndpoints
  BY <1>6, FetchKeeps DEF ListEndpoints
<1>7. CASE ListEvents
  BY <1>7, FetchKeeps DEF ListEvents
<1>8. CASE ListDeliveries
  BY <1>8, FetchKeeps DEF ListDeliveries
<1>9. CASE UNCHANGED walkVars
  BY <1>9 DEF walkVars, WalkIInv, WalkTypeOK, There, Filtered, Dated, Returned, Behind, Kept,
              Tagged, InWindow, AfterCursor, Precedes
<1>10. QED
  BY <1>2, <1>3, <1>4, <1>5, <1>6, <1>7, <1>8, <1>9 DEF WalkNext

(* Whatever is inserted, changed and deleted between the pages of a walk   *)
(* (list_deliveries and its siblings), it returns its rows in order, none  *)
(* twice, and by its end all that matched and stayed.                      *)
THEOREM WalksAreComplete == WalkSpec => []WalkComplete
<1>1. WalkIInv => WalkComplete
  <2> SUFFICES ASSUME WalkIInv PROVE WalkComplete
    OBVIOUS
  <2>1. ASSUME NEW n \in 1 .. Len(pages), NEW m \in 1 .. (n - 1)
        PROVE  Precedes(pages[m], pages[n])
    <3>1. m \in 1 .. Len(pages) /\ m < n
      BY DEF WalkIInv, WalkTypeOK
    <3>2. QED
      BY <3>1 DEF WalkIInv, Returned
  <2>2. ASSUME cursor = End, NEW i \in stayed, Tagged(i), InWindow(i)
        PROVE  \E n \in 1 .. Len(pages) : pages[n] = i
    <3>1. ~AfterCursor(i)
      BY <2>2, CursorKinds DEF AfterCursor
    <3>2. QED
      BY <2>2, <3>1 DEF WalkIInv, Kept
  <2>3. QED
    BY <2>1, <2>2 DEF WalkComplete
<1>2. QED
  BY <1>1, WalkInitIInv, WalkStep, PTL DEF WalkSpec

-----------------------------------------------------------------------------
(* Signing secrets.                                                        *)

SigningSpec == SigningInit /\ [][SigningNext]_signingVars

RotationStates == [place : {"away", "minted", "committed"}, secret : Nat]

SigningTypeOK ==
    /\ minted \in Nat /\ wall \in Nat
    /\ rotation \in [Rotations -> RotationStates]
    /\ alone \subseteq Rotations
    /\ tangled \in BOOLEAN /\ steady \in BOOLEAN

(* A rotation that overlaps with no other is the only one under way.       *)
Sole ==
    \/ UnderWay = {}
    \/ alone = {}
    \/ \E r \in Rotations : alone = {r} /\ UnderWay = {r}

(* As long as the owner has rotated one at a time and lost no answer, it   *)
(* has what is stored, before and after, or is about to be told.           *)
Agreed ==
    /\ UnderWay = {} /\ ~tangled => installed = stored
    /\ \A r \in UnderWay \cap alone :
          /\ rotation[r].place = "minted" /\ ~tangled => installed = stored
          /\ rotation[r].place = "committed" => rotation[r].secret = stored

(* The worker's copy is the stored secret until a rotation begins, and what*)
(* it has under way was signed with its copy, at a time that lost no more  *)
(* than its fraction.                                                      *)
Signed ==
    /\ steady => UnderWay = {} /\ ~tangled /\ held = stored
    /\ wire # Nothing =>
          /\ held # 0 /\ wire.secret = held
          /\ wire.sent \in 0 .. wall
          /\ wire.stamp \in {wire.sent - 1, wire.sent}

SigningIInv == SigningTypeOK /\ Sole /\ Agreed /\ Signed

-----------------------------------------------------------------------------
LEMMA SigningInitIInv == SigningInit => SigningIInv
<1> SUFFICES ASSUME SigningInit PROVE SigningIInv
  OBVIOUS
<1> USE DEF SigningInit
<1>1. SigningTypeOK
  BY DEF SigningTypeOK, RotationStates, NotRotating
<1>2. UnderWay = {}
  BY DEF UnderWay
<1>3. QED
  BY <1>1, <1>2 DEF SigningIInv, Sole, Agreed, Signed

(* Which rotations are under way, and what their steps leave alone.        *)
LEMMA RotationSteps ==
    ASSUME SigningIInv, NEW r \in Rotations,
           \/ MintSecret(r)
           \/ ReplaceSecret(r)
           \/ RotationFails(r)
           \/ InstallSecret(r)
           \/ LoseSecret(r)
    PROVE  SigningIInv'
<1> USE DEF SigningIInv
<1>0. \A q \in Rotations : q \in UnderWay <=> rotation[q] # NotRotating
  BY DEF UnderWay
<1>1. CASE MintSecret(r)
  <2> DEFINE new == [place |-> "minted", secret |-> minted + 1]
  <2>1. /\ r \notin UnderWay /\ rotation' = [rotation EXCEPT ![r] = new]
        /\ alone' = IF UnderWay = {} THEN {r} ELSE {}
        /\ minted' = minted + 1 /\ steady' = FALSE
        /\ UNCHANGED <<stored, tangled, installed, wall, held, wire>>
    BY <1>1 DEF MintSecret, UnderWay
  <2>2. new \in RotationStates /\ new # NotRotating
    BY DEF SigningTypeOK, RotationStates, NotRotating
  <2>3. rotation'[r] = new /\ rotation'[r].place = "minted"
    BY <2>1 DEF SigningTypeOK
  <2> HIDE DEF new
  <2>4. SigningTypeOK'
    <3>1. rotation' \in [Rotations -> RotationStates]
      BY <2>1, <2>2 DEF SigningTypeOK
    <3>2. alone' \subseteq Rotations /\ minted' \in Nat /\ wall' \in Nat
      BY <2>1 DEF SigningTypeOK
    <3>3. tangled' \in BOOLEAN /\ steady' \in BOOLEAN
      BY <2>1 DEF SigningTypeOK
    <3>4. QED
      BY <3>1, <3>2, <3>3 DEF SigningTypeOK
  <2>5. UnderWay' = UnderWay \cup {r}
    BY <2>1, <2>2, <2>3 DEF UnderWay, SigningTypeOK
  <2>6. Sole'
    BY <2>1, <2>5 DEF Sole
  <2>7. Agreed'
    BY <2>1, <2>3, <2>5 DEF Agreed
  <2>8. Signed'
    BY <2>1 DEF Signed
  <2>9. QED
    BY <2>4, <2>6, <2>7, <2>8
<1>2. CASE ReplaceSecret(r)
  <2> DEFINE new == [rotation[r] EXCEPT !.place = "committed"]
  <2>1. /\ rotation[r].place = "minted" /\ rotation' = [rotation EXCEPT ![r] = new]
        /\ stored' = rotation[r].secret
        /\ UNCHANGED <<minted, alone, tangled, installed, wall, held, wire, steady>>
    BY <1>2 DEF ReplaceSecret
  <2>2. /\ new \in RotationStates /\ new # NotRotating /\ new.place = "committed"
        /\ new.secret = rotation[r].secret
    BY DEF SigningTypeOK, RotationStates, NotRotating
  <2>3. rotation'[r] = new
    BY <2>1 DEF SigningTypeOK
  <2>4. SigningTypeOK'
    BY <2>1, <2>2 DEF SigningTypeOK
  <2>5. r \in UnderWay
    BY <2>1, <1>0 DEF NotRotating
  <2> HIDE DEF new
  <2>6. UnderWay' = UnderWay
    BY <2>1, <2>2, <2>3, <2>5 DEF UnderWay, SigningTypeOK
  <2>7. ~steady
    BY <2>5 DEF Signed
  <2>8. Sole'
    BY <2>1, <2>6 DEF Sole
  <2>9. \A q \in UnderWay \cap alone : q = r
    BY <2>5 DEF Sole
  <2>10. Agreed'
    BY <2>1, <2>2, <2>3, <2>5, <2>6, <2>9 DEF Agreed
  <2>11. Signed'
    BY <2>1, <2>7 DEF Signed
  <2>12. QED
    BY <2>4, <2>8, <2>10, <2>11
<1>3. CASE RotationFails(r) \/ InstallSecret(r) \/ LoseSecret(r)
  <2>1. /\ rotation[r].place \in {"minted", "committed"}
        /\ rotation' = [rotation EXCEPT ![r] = NotRotating]
        /\ UNCHANGED <<stored, minted, alone, wall, held, wire, steady>>
        /\ tangled' \in BOOLEAN
    BY <1>3 DEF RotationFails, InstallSecret, LoseSecret, SigningTypeOK
  <2>2. r \in UnderWay
    BY <2>1, <1>0 DEF NotRotating
  <2>3. UnderWay' = UnderWay \ {r}
    BY <2>1 DEF UnderWay, SigningTypeOK
  <2>4. SigningTypeOK'
    BY <2>1 DEF SigningTypeOK, RotationStates, NotRotating
  <2>5. ~steady
    BY <2>2 DEF Signed
  <2>6. Signed'
    BY <2>1, <2>5 DEF Signed
  <2>7. Sole'
    BY <2>1, <2>2, <2>3 DEF Sole
  <2>8. UnderWay' \cap alone' = {}
    BY <2>1, <2>2, <2>3 DEF Sole
  <2>9. ASSUME UnderWay' = {}, ~tangled' PROVE installed' = stored'
    <3>1. r \in alone
      BY <1>3, <2>9 DEF RotationFails, InstallSecret, LoseSecret
    <3>2. CASE RotationFails(r)
      BY <2>1, <2>2, <2>9, <3>1, <3>2 DEF RotationFails, Agreed
    <3>3. CASE InstallSecret(r)
      BY <2>1, <2>2, <3>1, <3>3 DEF InstallSecret, Agreed
    <3>4. CASE LoseSecret(r)
      BY <2>9, <3>4 DEF LoseSecret
    <3>5. QED
      BY <1>3, <3>2, <3>3, <3>4
  <2>10. Agreed'
    BY <2>8, <2>9 DEF Agreed
  <2>11. QED
    BY <2>4, <2>6, <2>7, <2>10
<1>4. QED
  BY <1>1, <1>2, <1>3

(* The worker and the receiver disturb no rotation.                        *)
LEMMA MessageSteps ==
    ASSUME SigningIInv,
           \/ LoadEndpoint \/ SignAndSend \/ EndBatch \/ PassTime
           \/ AcceptMessage \/ RefuseMessage \/ LoseMessage
           \/ UNCHANGED signingVars
    PROVE  SigningIInv'
<1> USE DEF SigningIInv
<1>1. /\ UNCHANGED <<stored, minted, rotation, alone, tangled, installed>>
      /\ wall' \in {wall, wall + 1} /\ steady' \in BOOLEAN
  BY DEF LoadEndpoint, SignAndSend, EndBatch, PassTime, AcceptMessage, RefuseMessage, LoseMessage,
         Arrives, signingVars, SigningTypeOK
<1>2. SigningTypeOK' /\ Sole' /\ Agreed' /\ UnderWay' = UnderWay
  BY <1>1 DEF SigningTypeOK, Sole, Agreed, UnderWay
<1>3. Signed'
  <2>1. CASE LoadEndpoint
    BY <1>2, <2>1 DEF LoadEndpoint, Signed
  <2>2. CASE SignAndSend
    <3>1. /\ wire' = [secret |-> held, stamp |-> wall - (wall % 2), sent |-> wall]
          /\ held # 0 /\ UNCHANGED <<held, steady, wall, stored, tangled>>
      BY <2>2 DEF SignAndSend
    <3>2. wall - (wall % 2) \in {wall - 1, wall} /\ wall \in 0 .. wall
      <4>1. wall % 2 \in {0, 1}
        BY DEF SigningTypeOK
      <4>2. QED
        BY <4>1 DEF SigningTypeOK
    <3>3. QED
      BY <1>2, <3>1, <3>2 DEF Signed
  <2>3. CASE EndBatch
    BY <2>3 DEF EndBatch, Signed
  <2>4. CASE PassTime
    <3>1. 0 .. wall \subseteq 0 .. (wall + 1)
      BY DEF SigningTypeOK
    <3>2. QED
      BY <1>2, <2>4, <3>1 DEF PassTime, Signed
  <2>5. CASE AcceptMessage \/ RefuseMessage \/ LoseMessage
    <3>1. wire' = Nothing /\ UNCHANGED <<stored, tangled, held, steady>>
      BY <2>5 DEF AcceptMessage, RefuseMessage, LoseMessage, Arrives
    <3>2. QED
      BY <1>2, <3>1 DEF Signed
  <2>6. CASE UNCHANGED signingVars
    BY <1>2, <2>6 DEF signingVars, Signed
  <2>7. QED
    BY <2>1, <2>2, <2>3, <2>4, <2>5, <2>6
<1>4. QED
  BY <1>2, <1>3

LEMMA SigningStep == SigningIInv /\ [SigningNext]_signingVars => SigningIInv'
BY RotationSteps, MessageSteps DEF SigningNext

(* A refusal is explained: the message was late, there was a rotation since*)
(* the worker has read the secret, or the owner has rotated twice at once  *)
(* or lost an answer (rotate_endpoint_secret, verify_signature).           *)
THEOREM GenuineMessagesAccepted == SigningSpec => GenuineAccepted
<1>1. SigningIInv /\ RefuseMessage => ~steady \/ Late
  <2> SUFFICES ASSUME SigningIInv, RefuseMessage, steady PROVE Late
    OBVIOUS
  <2> USE DEF SigningIInv
  <2>1. PICK lag \in (-Skew) .. Skew : ~Verifies(wire, wall + lag)
    BY DEF RefuseMessage, Arrives
  <2>2. wire # Nothing
    BY DEF RefuseMessage, Arrives
  <2>3. wire.secret = installed
    BY <2>2 DEF Signed, Agreed
  <2>4. wall \in Nat /\ Skew \in Nat /\ MaxAge \in Nat /\ lag \in Int /\ -Skew <= lag /\ lag <= Skew
    BY SigningAssumption DEF SigningTypeOK
  <2>5. PICK now \in Int : now = wall + lag
    BY <2>4
  <2>6. ~WithinAge(wire, now)
    BY <2>1, <2>3, <2>5 DEF Verifies
  <2>7. PICK sent \in Int, stamp \in Int :
            /\ wire.sent = sent /\ wire.stamp = stamp
            /\ sent <= wall /\ (stamp = sent - 1 \/ stamp = sent)
    <3>1. wire.sent \in 0 .. wall /\ wire.stamp \in {wire.sent - 1, wire.sent}
      BY <2>2 DEF Signed
    <3>2. wire.sent \in Int /\ wire.sent <= wall /\ wire.stamp \in Int
      BY <3>1 DEF SigningTypeOK
    <3>3. QED
      BY <3>1, <3>2
  <2>8. ~ (now - stamp <= 2 * MaxAge /\ stamp - now <= 2 * MaxAge)
    BY <2>6, <2>7 DEF WithinAge
  <2>9. wall - sent + Skew + 1 > 2 * MaxAge
    BY <2>4, <2>5, <2>7, <2>8
  <2>10. QED
    BY <2>7, <2>9 DEF Late
<1>2. SigningIInv /\ [SigningNext]_signingVars => [RefuseMessage => ~steady \/ Late]_signingVars
  BY <1>1
<1>3. QED
  BY <1>2, SigningInitIInv, SigningStep, PTL DEF SigningSpec, GenuineAccepted

-----------------------------------------------------------------------------
(* API keys.                                                               *)

AccessSpec == AccessInit /\ [][AccessNext]_accessVars

KeyRow == [project : Projects \cup {NoName}, revoked : BOOLEAN, used : BOOLEAN]

AccessTypeOK ==
    /\ apikey \in [ApiKeys -> KeyRow]
    /\ kpc \in [Requests -> {"away", "check", "stamp", "handler", "revoke", "write"}]
    /\ using \in [Requests -> ApiKeys \cup {NoKey}]
    /\ barred \in [Requests -> SUBSET ApiKeys]

(* A request that is under way is about a key, and what was revoked when   *)
(* it arrived still is: the check need only read the row once.             *)
AccessIInv ==
    /\ AccessTypeOK
    /\ \A r \in Requests :
          /\ kpc[r] # "away" => using[r] \in ApiKeys
          /\ barred[r] \subseteq Revoked
          /\ kpc[r] \in {"stamp", "handler"} => using[r] \notin barred[r]

-----------------------------------------------------------------------------
LEMMA AccessInitIInv == AccessInit => AccessIInv
<1>1. AccessInit => AccessTypeOK
  BY DEF AccessInit, AccessTypeOK, KeyRow, NoRowOfKey
<1>2. QED
  BY <1>1 DEF AccessInit, AccessIInv

(* Whoever writes to a row of api_keys, no step takes a revocation back.   *)
LEMMA KeysStayRevoked ==
    ASSUME AccessIInv, AccessNext
    PROVE  apikey' \in [ApiKeys -> KeyRow] /\ Revoked \subseteq Revoked'
<1> USE DEF AccessIInv, AccessTypeOK
<1>1. CASE UNCHANGED apikey
  BY <1>1 DEF Revoked
<1>2. ASSUME NEW p \in Projects, NEW k \in ApiKeys, CreateApiKey(p, k)
      PROVE  apikey' \in [ApiKeys -> KeyRow] /\ Revoked \subseteq Revoked'
  <2>1. apikey[k] = NoRowOfKey /\ apikey' = [apikey EXCEPT ![k] = [NoRowOfKey EXCEPT !.project = p]]
    BY <1>2 DEF CreateApiKey, Minted
  <2>2. [NoRowOfKey EXCEPT !.project = p] \in KeyRow /\ ~NoRowOfKey.revoked
    BY DEF NoRowOfKey, KeyRow
  <2>3. QED
    BY <2>1, <2>2 DEF Revoked
<1>3. ASSUME NEW r \in Requests, StampKey(r)
      PROVE  apikey' \in [ApiKeys -> KeyRow] /\ Revoked \subseteq Revoked'
  <2>1. using[r] \in ApiKeys /\ apikey' = [apikey EXCEPT ![using[r]].used = TRUE]
    BY <1>3 DEF StampKey
  <2>2. PICK x \in KeyRow : x = apikey[using[r]]
    BY <2>1
  <2>3. [x EXCEPT !.used = TRUE] \in KeyRow
    BY DEF KeyRow
  <2>4. apikey' \in [ApiKeys -> KeyRow]
    BY <2>1, <2>2, <2>3
  <2>5. \A k \in ApiKeys : apikey'[k].revoked = apikey[k].revoked
    BY <2>1 DEF KeyRow
  <2>6. QED
    BY <2>4, <2>5 DEF Revoked
<1>4. ASSUME NEW r \in Requests, WriteRevoked(r)
      PROVE  apikey' \in [ApiKeys -> KeyRow] /\ Revoked \subseteq Revoked'
  <2>1. using[r] \in ApiKeys /\ apikey' = [apikey EXCEPT ![using[r]].revoked = TRUE]
    BY <1>4 DEF WriteRevoked
  <2>2. PICK x \in KeyRow : x = apikey[using[r]]
    BY <2>1
  <2>3. [x EXCEPT !.revoked = TRUE] \in KeyRow
    BY DEF KeyRow
  <2>4. apikey' \in [ApiKeys -> KeyRow]
    BY <2>1, <2>2, <2>3
  <2>5. \A k \in ApiKeys : apikey[k].revoked => apikey'[k].revoked
    BY <2>1 DEF KeyRow
  <2>6. QED
    BY <2>4, <2>5 DEF Revoked
<1>5. \/ UNCHANGED apikey
      \/ \E p \in Projects, k \in ApiKeys : CreateApiKey(p, k)
      \/ \E r \in Requests : StampKey(r) \/ WriteRevoked(r)
  BY DEF AccessNext, CreateProject, Arrive, ReadKey, Unauthorized, Served, ReadToRevoke,
         AccessFails
<1>6. QED
  BY <1>1, <1>2, <1>3, <1>4, <1>5

(* What a step does to a request r: it arrives, departs, gets past the     *)
(* check with a key that is not revoked, or goes on to where it was let.   *)
LEMMA RequestSteps ==
    ASSUME AccessIInv, AccessNext, NEW r \in Requests
    PROVE  \/ kpc'[r] = kpc[r] /\ using'[r] = using[r] /\ barred'[r] = barred[r]
           \/ /\ kpc'[r] \in {"check", "revoke"} /\ using'[r] \in ApiKeys
              /\ barred'[r] = Revoked
           \/ kpc'[r] = "away" /\ using'[r] = NoKey /\ barred'[r] = {}
           \/ /\ kpc[r] = "check" /\ kpc'[r] = "stamp" /\ using[r] \notin Revoked
              /\ using'[r] = using[r] /\ barred'[r] = barred[r]
           \/ /\ kpc[r] = "stamp" /\ kpc'[r] = "handler"
              /\ using'[r] = using[r] /\ barred'[r] = barred[r]
           \/ /\ kpc[r] = "revoke" /\ kpc'[r] = "write"
              /\ using'[r] = using[r] /\ barred'[r] = barred[r]
<1> USE DEF AccessIInv, AccessTypeOK, Goes, Depart
<1>1. ASSUME NEW q \in Requests, NEW k \in ApiKeys, NEW place \in {"check", "revoke"},
             Arrive(q, k, place)
      PROVE  \/ kpc'[r] = kpc[r] /\ using'[r] = using[r] /\ barred'[r] = barred[r]
             \/ /\ kpc'[r] \in {"check", "revoke"} /\ using'[r] \in ApiKeys
                /\ barred'[r] = Revoked
  BY <1>1 DEF Arrive
<1>2. ASSUME NEW q \in Requests, Depart(q)
      PROVE  \/ kpc'[r] = kpc[r] /\ using'[r] = using[r] /\ barred'[r] = barred[r]
             \/ kpc'[r] = "away" /\ using'[r] = NoKey /\ barred'[r] = {}
  BY <1>2
<1>3. ASSUME NEW q \in Requests, ReadKey(q)
      PROVE  \/ kpc'[r] = kpc[r] /\ using'[r] = using[r] /\ barred'[r] = barred[r]
             \/ /\ kpc[r] = "check" /\ kpc'[r] = "stamp" /\ using[r] \notin Revoked
                /\ using'[r] = using[r] /\ barred'[r] = barred[r]
  BY <1>3 DEF ReadKey, Revoked
<1>4. ASSUME NEW q \in Requests, StampKey(q)
      PROVE  \/ kpc'[r] = kpc[r] /\ using'[r] = using[r] /\ barred'[r] = barred[r]
             \/ /\ kpc[r] = "stamp" /\ kpc'[r] = "handler"
                /\ using'[r] = using[r] /\ barred'[r] = barred[r]
  BY <1>4 DEF StampKey
<1>5. ASSUME NEW q \in Requests, ReadToRevoke(q)
      PROVE  \/ kpc'[r] = kpc[r] /\ using'[r] = using[r] /\ barred'[r] = barred[r]
             \/ kpc'[r] = "away" /\ using'[r] = NoKey /\ barred'[r] = {}
             \/ /\ kpc[r] = "revoke" /\ kpc'[r] = "write"
                /\ using'[r] = using[r] /\ barred'[r] = barred[r]
  BY <1>2, <1>5 DEF ReadToRevoke
<1>6. \/ UNCHANGED <<kpc, using, barred>>
      \/ \E q \in Requests :
            \/ \E k \in ApiKeys, place \in {"check", "revoke"} : Arrive(q, k, place)
            \/ Depart(q) \/ ReadKey(q) \/ StampKey(q) \/ ReadToRevoke(q)
  BY DEF AccessNext, CreateProject, CreateApiKey, Unauthorized, Served, WriteRevoked,
         AccessFails
<1>7. QED
  BY <1>1, <1>2, <1>3, <1>4, <1>5, <1>6

LEMMA NextIInv == AccessIInv /\ [AccessNext]_accessVars => AccessIInv'
<1> SUFFICES ASSUME AccessIInv, [AccessNext]_accessVars PROVE AccessIInv'
  OBVIOUS
<1>1. CASE AccessNext
  <2>1. apikey' \in [ApiKeys -> KeyRow] /\ Revoked \subseteq Revoked' /\ Revoked \subseteq ApiKeys
    BY <1>1, KeysStayRevoked DEF Revoked
  <2>2. /\ kpc' = [r \in Requests |-> kpc'[r]]
        /\ using' = [r \in Requests |-> using'[r]]
        /\ barred' = [r \in Requests |-> barred'[r]]
    BY <1>1 DEF AccessIInv, AccessTypeOK, AccessNext, CreateProject, CreateApiKey, Arrive, ReadKey,
                Unauthorized, StampKey, Served, ReadToRevoke, WriteRevoked, AccessFails,
                Goes, Depart
  <2>3. ASSUME NEW r \in Requests
        PROVE  /\ kpc'[r] \in {"away", "check", "stamp", "handler", "revoke", "write"}
               /\ using'[r] \in ApiKeys \cup {NoKey} /\ barred'[r] \in SUBSET ApiKeys
               /\ kpc'[r] # "away" => using'[r] \in ApiKeys
               /\ barred'[r] \subseteq Revoked'
               /\ kpc'[r] \in {"stamp", "handler"} => using'[r] \notin barred'[r]
    BY <1>1, <2>1, RequestSteps DEF AccessIInv, AccessTypeOK
  <2>4. AccessTypeOK'
    BY <2>1, <2>2, <2>3 DEF AccessTypeOK
  <2>5. QED
    BY <2>3, <2>4 DEF AccessIInv
<1>2. CASE UNCHANGED accessVars
  BY <1>2 DEF accessVars, AccessIInv, AccessTypeOK, Revoked
<1>3. QED
  BY <1>1, <1>2

(* A revoked key stays revoked whoever writes to its row at the same time, *)
(* and opens nothing to a request that arrives later (get_current_project, *)
(* revoke_api_key).                                                        *)
THEOREM RevocationHeld == AccessSpec => RevocationHolds
<1> DEFINE Step == /\ Revoked \subseteq Revoked'
                   /\ \A r \in Requests :
                         kpc'[r] \in {"stamp", "handler"} => using'[r] \notin barred'[r]
<1>1. AccessInit => AccessIInv
  BY AccessInitIInv
<1>2. AccessIInv /\ [AccessNext]_accessVars => AccessIInv'
  BY NextIInv
<1>3. AccessIInv /\ AccessIInv' /\ [AccessNext]_accessVars => [Step]_accessVars
  BY KeysStayRevoked DEF AccessIInv
<1>4. QED
  BY <1>1, <1>2, <1>3, PTL DEF AccessSpec, RevocationHolds
=============================================================================
