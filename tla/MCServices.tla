----------------------------- MODULE MCServices -----------------------------
(***************************************************************************)
(* The showcase's services and the API around the queue, which share no    *)
(* state: one of them runs in each behaviour, on small sets, and the others*)
(* stay as they begin.  No worker dies while the ledger is viewed.         *)
(***************************************************************************)
EXTENDS ReceiverInbox, ShowcaseSeeding, NaiveBank, LedgerView, KeysetWalk,
        ProjectAccess, SigningSecrets, ShowcaseForce

VARIABLE part

Parts == {"inbox", "seeding", "naive", "view", "walk", "access", "signing", "force"}

allVars == <<inboxVars, seedingVars, feedVars, bankVars, naiveVars, viewVars,
             walkVars, accessVars, signingVars, forceVars, part>>

Ledgers == <<feedVars, bankVars, naiveVars, viewVars>>

ServicesInit ==
    /\ part \in Parts
    /\ InboxInit
    /\ SeedingInit /\ (part # "seeding" => rows["project"] = {})
    /\ Init /\ (part # "view" => account = [a \in Accounts |-> NoRow])
    /\ NaiveInit /\ (part # "naive" => nontrades = {})
    /\ ViewInit
    /\ WalkInit
    /\ AccessInit
    /\ SigningInit
    /\ ForceInit /\ (part # "force" => ~health /\ ~blocked)

ForceRuns(step) ==
    /\ part = "force" /\ step
    /\ UNCHANGED <<inboxVars, seedingVars, Ledgers, walkVars, accessVars, signingVars>>

Services ==
    \/ /\ part = "inbox" /\ InboxNext
       /\ UNCHANGED <<seedingVars, Ledgers, walkVars, accessVars, signingVars, forceVars>>
    \/ /\ part = "seeding" /\ SeedingNext
       /\ UNCHANGED <<inboxVars, Ledgers, walkVars, accessVars, signingVars, forceVars>>
    \/ /\ part = "naive" /\ NaiveNext /\ UNCHANGED <<bankVars, viewVars>>
       /\ UNCHANGED <<inboxVars, seedingVars, walkVars, accessVars, signingVars, forceVars>>
    \/ /\ part = "view" /\ ViewNext /\ UNCHANGED <<naiveVars, deaths>>
       /\ UNCHANGED <<inboxVars, seedingVars, walkVars, accessVars, signingVars, forceVars>>
    \/ /\ part = "walk" /\ WalkNext
       /\ UNCHANGED <<inboxVars, seedingVars, Ledgers, accessVars, signingVars, forceVars>>
    \/ /\ part = "access" /\ AccessNext
       /\ UNCHANGED <<inboxVars, seedingVars, Ledgers, walkVars, signingVars, forceVars>>
    \/ /\ part = "signing" /\ SigningNext
       /\ UNCHANGED <<inboxVars, seedingVars, Ledgers, walkVars, accessVars, forceVars>>
    \/ ForceRuns(ForceNext)

(* Of these only ForceFairSpec has fairness.                               *)
ServicesSpec ==
    /\ ServicesInit /\ [][Services /\ UNCHANGED part]_allVars
    /\ \A f \in Forces :
          /\ WF_allVars(ForceRuns(ForceStep(f)) /\ UNCHANGED part)
          /\ WF_allVars(ForceRuns(CallStep(f)) /\ UNCHANGED part)

-----------------------------------------------------------------------------
(* Properties.                                                             *)

(* NaiveFaultsExplained, of the bank that is naive (bank_naive_receiver).  *)
NaiveAsClaimed == part = "naive" => NaiveFaultsExplained
=============================================================================
