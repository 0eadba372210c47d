----------------------------- MODULE KeysetWalk -----------------------------
(***************************************************************************)
(* The five listings of the API, paged by keyset cursors: a client walks   *)
(* from page to page, each a request and a transaction of its own, while   *)
(* rows are inserted, change and go.  A row is known by its id; ids are    *)
(* compared like the numbers they are here.                                *)
(***************************************************************************)
EXTENDS Integers, Sequences, FiniteSets

CONSTANTS Ids,           (* the primary keys, in no relation to time         *)
          Instants,      (* created_at                                       *)
          PageSize       (* the limit of a page                              *)

ASSUME WalkAssumption ==
    /\ Ids \subseteq Int /\ IsFiniteSet(Ids)
    /\ Instants \subseteq Int
    /\ PageSize \in Nat \ {0}

VARIABLES
    table,     (* the rows: not yet there, there or gone, created_at and tag,*)
               (* the status of an endpoint or delivery, the type of an event*)
    listing,   (* what the client lists, "none" before it begins             *)
    filter,    (* the tag and the window of created_at that it asks for      *)
    cursor,    (* the key after which the next page starts                   *)
    pages,     (* what the walk has returned so far                          *)
    stayed     (* ghost: the rows that are unchanged since the walk began    *)

walkVars == <<table, listing, filter, cursor, pages, stayed>>

Tags == {"asked", "other"}
Listings == {"projects", "api_keys", "endpoints", "events", "deliveries"}

Top == <<"top">>         (* no cursor: the first page                        *)
End == <<"end">>         (* next_cursor is null: there is no other           *)

There == {i \in Ids : table[i].state = "there"}

Tagged(i) == filter.tag \in {"any", table[i].tag}
InWindow(i) == table[i].at \in filter.window

(* The filters of a listing: created_after must not be after               *)
(* created_before; one that is not given lets everything through.          *)
FiltersOf(l) ==
    [tag    : IF l \in {"projects", "api_keys"} THEN {"any"} ELSE {"any", "asked"},
     window : IF l \in {"events", "deliveries"}
              THEN {{n \in Instants : a <= n /\ n <= b} : a, b \in Instants} \ {{}}
              ELSE {Instants}]

(* created_at DESC, id DESC.                                               *)
Precedes(i, j) ==
    \/ table[i].at > table[j].at
    \/ table[i].at = table[j].at /\ i > j

(* Variant: the cursor is compared by created_at alone.                    *)
AfterCursorByTime(i) ==
    \/ cursor = Top
    \/ cursor \notin {Top, End} /\ table[i].at < cursor[1]

(* The rows that a page may hold.                                          *)
AfterCursor(i) ==
    \/ cursor = Top
    \/ /\ cursor \notin {Top, End}
       /\ \/ table[i].at < cursor[1]
          \/ table[i].at = cursor[1] /\ i < cursor[2]

-----------------------------------------------------------------------------
WalkInit ==
    /\ table = [i \in Ids |-> [state |-> "new", at |-> 0, tag |-> "other"]]
    /\ listing = "none"
    /\ filter = [tag |-> "any", window |-> Instants]
    /\ cursor = Top
    /\ pages = <<>>
    /\ stayed = {}

(* A row is committed; its created_at was taken before, by another clock.  *)
InsertRow(i) ==
    /\ table[i].state = "new"
    /\ \E n \in Instants, g \in Tags :
          table' = [table EXCEPT ![i] = [state |-> "there", at |-> n, tag |-> g]]
    /\ UNCHANGED <<listing, filter, cursor, pages, stayed>>

(* The status of a delivery or an endpoint changes.                        *)
ChangeRow(i) ==
    /\ table[i].state = "there"
    /\ listing \in {"none", "deliveries", "endpoints"}
    /\ \E g \in Tags \ {table[i].tag} : table' = [table EXCEPT ![i].tag = g]
    /\ stayed' = stayed \ {i}
    /\ UNCHANGED <<listing, filter, cursor, pages>>

(* An endpoint is deleted, and its deliveries with it.                     *)
DeleteRow(i) ==
    /\ table[i].state = "there"
    /\ listing \in {"none", "deliveries", "endpoints"}
    /\ table' = [table EXCEPT ![i].state = "gone"]
    /\ stayed' = stayed \ {i}
    /\ UNCHANGED <<listing, filter, cursor, pages>>

(* The client begins.  Another walk would begin like this one.             *)
BeginWalk ==
    /\ listing = "none"
    /\ listing' \in Listings
    /\ filter' \in FiltersOf(listing')
    /\ stayed' = There
    /\ UNCHANGED <<table, cursor, pages>>

(* The rows of S in order: there is one such sequence.                     *)
Ordered(S) ==
    {found \in [1..Cardinality(S) -> S] :
        /\ \A i \in S : \E n \in DOMAIN found : found[n] = i
        /\ \A m, n \in DOMAIN found : m < n => Precedes(found[m], found[n])}

(* One page of the rows in matching: the first limit + 1 tell if there are *)
(* more, the last of the page is where the next one starts.                *)
FetchPage(matching) ==
    /\ cursor # End
    /\ \E found \in Ordered({i \in matching : AfterCursor(i)}) :
          IF Len(found) > PageSize
          THEN /\ pages' = pages \o SubSeq(found, 1, PageSize)
               /\ cursor' = <<table[found[PageSize]].at, found[PageSize]>>
          ELSE /\ pages' = pages \o found
               /\ cursor' = End
    /\ UNCHANGED <<table, listing, filter, stayed>>

ListProjects == listing = "projects" /\ FetchPage(There)
ListApiKeys == listing = "api_keys" /\ FetchPage(There)
ListEndpoints == listing = "endpoints" /\ FetchPage({i \in There : Tagged(i)})
ListEvents == listing = "events" /\ FetchPage({i \in There : Tagged(i) /\ InWindow(i)})
ListDeliveries == listing = "deliveries" /\ FetchPage({i \in There : Tagged(i) /\ InWindow(i)})

WalkNext ==
    \/ \E i \in Ids : InsertRow(i) \/ ChangeRow(i) \/ DeleteRow(i)
    \/ BeginWalk
    \/ ListProjects
    \/ ListApiKeys
    \/ ListEndpoints
    \/ ListEvents
    \/ ListDeliveries

-----------------------------------------------------------------------------
(* Properties.                                                             *)

(* A walk returns rows newest first and none twice, and when it has reached*)
(* the end it has returned every row that matched and stayed as it was,    *)
(* whatever came, changed and went between its pages (list_deliveries and  *)
(* its four siblings).                                                     *)
WalkComplete ==
    /\ \A n \in 1..Len(pages) : \A m \in 1..(n - 1) : Precedes(pages[m], pages[n])
    /\ cursor = End => \A i \in stayed : Tagged(i) /\ InWindow(i) =>
                            \E n \in 1..Len(pages) : pages[n] = i
=============================================================================
