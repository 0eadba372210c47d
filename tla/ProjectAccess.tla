--------------------------- MODULE ProjectAccess ----------------------------
(***************************************************************************)
(* Projects, their API keys and the check of a key before each request of  *)
(* the API (get_current_project), which reads the key's row, then writes   *)
(* last_used_at to it, while others revoke the key.  No row is locked.     *)
(***************************************************************************)
EXTENDS Naturals, FiniteSets

CONSTANTS Projects,      (* project ids                                      *)
          Names,         (* project names                                    *)
          NoName,        (* the name of a project that does not exist        *)
          ApiKeys,       (* key ids                                          *)
          Requests,      (* requests of the API                              *)
          NoKey          (* the key of what is no key's row                  *)

VARIABLES
    project,     (* the name of each project                                 *)
    apikey,      (* the rows of api_keys: their project, whether they are    *)
                 (* revoked and whether they have been used                  *)
    kpc,         (* where each request is: in the check, in its handler      *)
    using,       (* the key it presents or is about                          *)
    barred       (* ghost: the keys that were revoked when it arrived       *)

accessVars == <<project, apikey, kpc, using, barred>>

NoRowOfKey == [project |-> NoName, revoked |-> FALSE, used |-> FALSE]

Exists(p) == project[p] # NoName
Minted(k) == apikey[k] # NoRowOfKey
Revoked == {k \in ApiKeys : apikey[k].revoked}

-----------------------------------------------------------------------------
AccessInit ==
    /\ project = [p \in Projects |-> NoName]
    /\ apikey = [k \in ApiKeys |-> NoRowOfKey]
    /\ kpc = [r \in Requests |-> "away"]
    /\ using = [r \in Requests |-> NoKey]
    /\ barred = [r \in Requests |-> {}]

(* POST /projects; a name that is taken violates a unique key.             *)
CreateProject(p) ==
    /\ ~Exists(p)
    /\ \E n \in Names :
          /\ \A q \in Projects : project[q] # n
          /\ project' = [project EXCEPT ![p] = n]
    /\ UNCHANGED <<apikey, kpc, using, barred>>

(* POST /projects/{p}/api-keys: 404 without the project; the plaintext is  *)
(* fresh, and so are its hash and the row.                                 *)
CreateApiKey(p, k) ==
    /\ Exists(p)
    /\ ~Minted(k)
    /\ apikey' = [apikey EXCEPT ![k] = [NoRowOfKey EXCEPT !.project = p]]
    /\ UNCHANGED <<project, kpc, using, barred>>

(* A request arrives: with a key, or to revoke one.                        *)
Arrive(r, k, place) ==
    /\ kpc[r] = "away"
    /\ kpc' = [kpc EXCEPT ![r] = place]
    /\ using' = [using EXCEPT ![r] = k]
    /\ barred' = [barred EXCEPT ![r] = Revoked]
    /\ UNCHANGED <<project, apikey>>

Goes(r, place) == kpc' = [kpc EXCEPT ![r] = place]

(* It is answered, with whatever status.                                   *)
Depart(r) ==
    /\ Goes(r, "away")
    /\ using' = [using EXCEPT ![r] = NoKey]
    /\ barred' = [barred EXCEPT ![r] = {}]
    /\ UNCHANGED project

(* get_current_project finds the key by its hash: 401 if there is none or  *)
(* it is revoked.                                                          *)
ReadKey(r) ==
    /\ kpc[r] = "check"
    /\ Minted(using[r]) /\ ~apikey[using[r]].revoked
    /\ Goes(r, "stamp")
    /\ UNCHANGED <<project, apikey, using, barred>>

Unauthorized(r) ==
    /\ kpc[r] = "check"
    /\ ~Minted(using[r]) \/ apikey[using[r]].revoked
    /\ Depart(r)
    /\ UNCHANGED apikey

(* Variant: the row is written back as it was read.                        *)
StampKeyRow(r) ==
    /\ kpc[r] = "stamp"
    /\ apikey' = [apikey EXCEPT ![using[r]].used = TRUE, ![using[r]].revoked = FALSE]
    /\ Goes(r, "handler")
    /\ UNCHANGED <<project, using, barred>>

(* last_used_at is written, alone of its columns, and committed.           *)
StampKey(r) ==
    /\ kpc[r] = "stamp"
    /\ apikey' = [apikey EXCEPT ![using[r]].used = TRUE]
    /\ Goes(r, "handler")
    /\ UNCHANGED <<project, using, barred>>

(* The handler, of the key's project, is done.                             *)
Served(r) ==
    /\ kpc[r] = "handler"
    /\ Depart(r)
    /\ UNCHANGED apikey

(* revoke_api_key reads the row: 404 if the project has no such key, and   *)
(* nothing to do if it is revoked.                                         *)
ReadToRevoke(r) ==
    /\ kpc[r] = "revoke"
    /\ IF Minted(using[r]) /\ ~apikey[using[r]].revoked
       THEN /\ Goes(r, "write")
            /\ UNCHANGED <<project, apikey, using, barred>>
       ELSE Depart(r) /\ UNCHANGED apikey

(* revoked_at is written and committed: 204.                               *)
WriteRevoked(r) ==
    /\ kpc[r] = "write"
    /\ apikey' = [apikey EXCEPT ![using[r]].revoked = TRUE]
    /\ Depart(r)

(* A request fails or its process ends, between its transactions.          *)
AccessFails(r) ==
    /\ kpc[r] # "away"
    /\ Depart(r)
    /\ UNCHANGED apikey

AccessNext ==
    \/ \E p \in Projects : CreateProject(p) \/ \E k \in ApiKeys : CreateApiKey(p, k)
    \/ \E r \in Requests :
          \/ \E k \in ApiKeys, place \in {"check", "revoke"} : Arrive(r, k, place)
          \/ ReadKey(r)
          \/ Unauthorized(r)
          \/ StampKey(r)
          \/ Served(r)
          \/ ReadToRevoke(r)
          \/ WriteRevoked(r)
          \/ AccessFails(r)

-----------------------------------------------------------------------------
(* Properties.                                                             *)

(* A revoked key stays revoked, whoever writes to its row at the same time,*)
(* and no request that arrives after the revocation gets past the check    *)
(* with it (get_current_project, revoke_api_key).                          *)
RevocationHolds ==
    [][ /\ Revoked \subseteq Revoked'
        /\ \A r \in Requests :
              kpc'[r] \in {"stamp", "handler"} => using'[r] \notin barred'[r] ]_accessVars
=============================================================================
