--------------------------- MODULE ShowcaseSeeding --------------------------
(***************************************************************************)
(* seed_showcase, run by every process that starts and by requests that do *)
(* not find the showcase: each of its rows is found or created, in one     *)
(* transaction that begins with an advisory lock.  Nothing but that lock   *)
(* keeps two seeders from creating an endpoint twice.  A row is named by   *)
(* the seeder that created it.                                             *)
(***************************************************************************)
EXTENDS Naturals, Sequences, FiniteSets

CONSTANTS Seeders,     (* startups, release commands, self-healing requests  *)
          Earlier,     (* the seeder of an earlier release                   *)
          Urls,        (* values of settings.showcase_discord_webhook_url    *)
          NoUrl        (* no webhook is configured                           *)

ASSUME SeedingAssumption == Earlier \notin Seeders /\ NoUrl \notin Urls

VARIABLES
    rows,        (* the creators of the committed rows of each kind          *)
    webhook,     (* the url of the Discord endpoint as committed             *)
    url,         (* each seeder's configured webhook                         *)
    plain,       (* and API key, as the kind of row it stands for, or "none" *)
    spc,         (* the place it has reached, or the number of its next row  *)
    created,     (* the kinds of row it has created and not committed        *)
    handles      (* what it has found or created: ShowcaseHandles            *)

seedingVars == <<rows, webhook, url, plain, spc, created, handles>>

(* The rows, in the order in which they are seeded; endpoints come with    *)
(* their demo_receiver_health row.  The keys are the values that           *)
(* settings.showcase_api_key has had: a seeder knows one of them at most.  *)
Kinds == <<"project", "receiver", "discord", "naive", "safe", "key", "newkey">>

PlainKeys == {"key", "newkey"}

KindSet == {Kinds[i] : i \in DOMAIN Kinds}

(* What resolve_showcase cannot do without.                                *)
Needed == {"project", "receiver", "naive", "safe"}

Nobody == [k \in KindSet |-> {}]

(* The rows of kind k that seeder s sees: the committed and its own.       *)
Existing(s, k) == rows[k] \cup IF k \in created[s] THEN {s} ELSE {}

Start == 0
ToCommit == Len(Kinds) + 1
Done == Len(Kinds) + 2

Seeding(s) == spc[s] \in 1..ToCommit

-----------------------------------------------------------------------------
(* Nothing is seeded yet, or all that a release without banks had seeded.  *)
SeedingInit ==
    /\ \E old \in {{}, {"project", "receiver", "discord", "key"}} :
          /\ rows = [k \in KindSet |-> IF k \in old THEN {Earlier} ELSE {}]
          /\ webhook = IF old = {} THEN NoUrl ELSE CHOOSE u \in Urls : TRUE
    /\ url = [s \in Seeders |-> NoUrl]
    /\ plain = [s \in Seeders |-> "none"]
    /\ spc = [s \in Seeders |-> Start]
    /\ created = [s \in Seeders |-> {}]
    /\ handles = [s \in Seeders |-> Nobody]

(* get_showcase finds all that it needs, reading without a lock.           *)
Resolve(s) ==
    /\ spc[s] = Start
    /\ \A k \in Needed : rows[k] # {}
    /\ handles' = [handles EXCEPT ![s] = [rows EXCEPT !["key"] = {}, !["newkey"] = {}]]
    /\ spc' = [spc EXCEPT ![s] = Done]
    /\ UNCHANGED <<rows, webhook, url, plain, created>>

(* Variant: the lock ends with the statement that takes it.                *)
AskSeedUnlocked(s) ==
    /\ spc[s] = Start
    /\ \E u \in Urls \cup {NoUrl} : url' = [url EXCEPT ![s] = u]
    /\ \E k \in PlainKeys \cup {"none"} : plain' = [plain EXCEPT ![s] = k]
    /\ spc' = [spc EXCEPT ![s] = 1]
    /\ UNCHANGED <<rows, webhook, created, handles>>

(* pg_advisory_xact_lock waits for the transaction of another seeder.      *)
AskSeed(s) ==
    /\ spc[s] = Start
    /\ ~\E q \in Seeders : Seeding(q)
    /\ \E u \in Urls \cup {NoUrl} : url' = [url EXCEPT ![s] = u]
    /\ \E k \in PlainKeys \cup {"none"} : plain' = [plain EXCEPT ![s] = k]
    /\ spc' = [spc EXCEPT ![s] = 1]
    /\ UNCHANGED <<rows, webhook, created, handles>>

(* What is not configured is neither looked for nor created.               *)
Skipped(s, k) ==
    \/ k = "discord" /\ url[s] = NoUrl
    \/ k \in PlainKeys /\ k # plain[s]

(* Find, or create, the next row.  More than one raises, as FailSeed.      *)
FindOrCreate(s) ==
    /\ spc[s] \in DOMAIN Kinds
    /\ LET k == Kinds[spc[s]]
       IN  \/ /\ Skipped(s, k)
              /\ UNCHANGED <<created, handles>>
           \/ /\ ~Skipped(s, k) /\ Cardinality(Existing(s, k)) = 1
              /\ handles' = [handles EXCEPT ![s][k] = Existing(s, k)]
              /\ UNCHANGED created
           \/ /\ ~Skipped(s, k) /\ Existing(s, k) = {}
              /\ handles' = [handles EXCEPT ![s][k] = {s}]
              /\ created' = [created EXCEPT ![s] = @ \cup {k}]
    /\ spc' = [spc EXCEPT ![s] = @ + 1]
    /\ UNCHANGED <<rows, webhook, url, plain>>

(* The caller commits: rows, and the webhook if it has changed.  The names *)
(* of projects and the hashes of keys are unique.                          *)
CommitSeed(s) ==
    /\ spc[s] = ToCommit
    /\ \A k \in created[s] \cap ({"project"} \cup PlainKeys) : rows[k] = {}
    /\ rows' = [k \in KindSet |-> Existing(s, k)]
    /\ webhook' = IF url[s] = NoUrl THEN webhook ELSE url[s]
    /\ created' = [created EXCEPT ![s] = {}]
    /\ spc' = [spc EXCEPT ![s] = Done]
    /\ UNCHANGED <<url, plain, handles>>

(* The database fails or the process ends: nothing remains, a startup goes *)
(* on without, a request ends in a 500, and either may be tried again.     *)
FailSeed(s) ==
    /\ Seeding(s)
    /\ spc' = [spc EXCEPT ![s] = Start]
    /\ created' = [created EXCEPT ![s] = {}]
    /\ handles' = [handles EXCEPT ![s] = Nobody]
    /\ UNCHANGED <<rows, webhook, url, plain>>

SeedingNext ==
    \E s \in Seeders :
        \/ Resolve(s)
        \/ AskSeed(s)
        \/ FindOrCreate(s)
        \/ CommitSeed(s)
        \/ FailSeed(s)

-----------------------------------------------------------------------------
(* Properties.                                                             *)

(* However many processes seed at once, fail and start over, the showcase  *)
(* has one row of each kind at most, and whoever has resolved or seeded it *)
(* holds the committed row of each kind that it needs (seed_showcase).     *)
SeededOnce ==
    /\ \A k \in KindSet : Cardinality(rows[k]) <= 1
    /\ \A s \in Seeders : spc[s] = Done =>
          /\ \A k \in Needed : handles[s][k] = rows[k] /\ rows[k] # {}
          /\ \A k \in KindSet \ Needed : handles[s][k] \subseteq rows[k]
=============================================================================
