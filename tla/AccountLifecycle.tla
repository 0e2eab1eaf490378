--------------------------- MODULE AccountLifecycle ---------------------------
(***************************************************************************)
(* The end of one account: the lifecycle store (account-lifecycle.ts) and   *)
(* the wiring that carries out a purge (account-lifecycle-wiring.ts).  The  *)
(* wiring looks at the account once, then destroys one resource after the   *)
(* other, waiting for each; holds, restores and other purges go on between. *)
(*                                                                         *)
(* A call that repeats an operation id gets its first answer again and      *)
(* changes nothing.  Confirmations are taken as given.  A user of an active *)
(* account stores things again; who keeps an account that is to be deleted  *)
(* from storing is not in this code.  The dates of all calls are the        *)
(* caller's own and need not follow any clock.  The retention batch that    *)
(* ends a purge is the module Retention.                                    *)
(*                                                                         *)
(* `meanwhile` is history: what the user stored since the purges that run   *)
(* now began.                                                               *)
(***************************************************************************)
EXTENDS Naturals

CONSTANTS Resources, Holds, Purges, RecoveryTime, MaxTime

VARIABLES account, purge, stored, meanwhile

vars == <<account, purge, stored, meanwhile>>

States == {"active", "deletion_requested", "soft_deleted", "purge_pending", "purged"}
Dates == 0 .. MaxTime + RecoveryTime
Accounts == [state : States, recoveryUntil : Dates,
             plan : (SUBSET Resources) \ {{}}, holds : SUBSET Holds]
PurgeRecords == [running : BOOLEAN, todo : SUBSET Resources, done : SUBSET Resources]
NoPurge == [running |-> FALSE, todo |-> {}, done |-> {}]

TypeOK ==
    /\ account \in Accounts
    /\ purge \in [Purges -> PurgeRecords]
    /\ stored \subseteq Resources /\ meanwhile \subseteq Resources

\* registerAccount
Init ==
    /\ account = [state |-> "active", recoveryUntil |-> 0, plan |-> Resources, holds |-> {}]
    /\ purge = [p \in Purges |-> NoPurge]
    /\ stored = Resources /\ meanwhile = {}

UserStores(r) ==
    /\ account.state = "active"
    /\ stored' = stored \cup {r} /\ meanwhile' = meanwhile \cup {r}
    /\ UNCHANGED <<account, purge>>
-----------------------------------------------------------------------------
(* The lifecycle store. *)

StoreChanges(changed) == account' = changed /\ UNCHANGED <<purge, stored, meanwhile>>

RequestDeletion(plan, date) ==
    /\ account.state = "active" /\ account.holds = {}
    /\ StoreChanges([account EXCEPT !.state = "deletion_requested", !.plan = plan,
                                    !.recoveryUntil = date + RecoveryTime])

\* softDeleteAccount does not look at the holds
SoftDeleteAccount ==
    /\ account.state = "deletion_requested"
    /\ StoreChanges([account EXCEPT !.state = "soft_deleted"])

RestoreAccount(date) ==
    /\ account.state \in {"deletion_requested", "soft_deleted", "purge_pending"}
    /\ date <= account.recoveryUntil
    /\ StoreChanges([account EXCEPT !.state = "active", !.recoveryUntil = 0])

AddAccountHold(h) == StoreChanges([account EXCEPT !.holds = @ \cup {h}])
ReleaseAccountHold(h) == StoreChanges([account EXCEPT !.holds = @ \ {h}])

\* Mutant: only the purge itself asks for holds.
QueueUnderHold(date) ==
    /\ account.state = "soft_deleted" /\ date >= account.recoveryUntil
    /\ StoreChanges([account EXCEPT !.state = "purge_pending"])

QueuePurge(date) ==
    /\ account.state = "soft_deleted" /\ date >= account.recoveryUntil /\ account.holds = {}
    /\ StoreChanges([account EXCEPT !.state = "purge_pending"])
-----------------------------------------------------------------------------
(* completePurge of the wiring. *)

MayPurge == account.state = "purge_pending" /\ account.holds = {}
Quiet == \A p \in Purges : ~purge[p].running

StartPurge(p) ==
    /\ ~purge[p].running /\ MayPurge
    /\ purge' = [purge EXCEPT ![p] = [running |-> TRUE, todo |-> account.plan, done |-> {}]]
    /\ meanwhile' = IF Quiet THEN {} ELSE meanwhile
    /\ UNCHANGED <<account, stored>>

\* purgeResource or deleteAccountArchives has answered "purged".
ResourcePurged(p, r) ==
    /\ r \in purge[p].todo
    /\ purge' = [purge EXCEPT ![p].todo = @ \ {r}, ![p].done = @ \cup {r}]
    /\ stored' = stored \ {r}
    /\ UNCHANGED <<account, meanwhile>>

\* Mutant: any answer counts.
FailureCounted(p, r, gone) ==
    /\ r \in purge[p].todo
    /\ purge' = [purge EXCEPT ![p].todo = @ \ {r}, ![p].done = @ \cup {r}]
    /\ stored' = stored \ gone
    /\ UNCHANGED <<account, meanwhile>>

\* Another answer, or none: the purge is given up, the resource may be gone.
ResourceFails(p, r, gone) ==
    /\ r \in purge[p].todo /\ gone \subseteq {r}
    /\ purge' = [purge EXCEPT ![p] = NoPurge]
    /\ stored' = stored \ gone
    /\ UNCHANGED <<account, meanwhile>>

\* Everything is done; the store asks again before it records it.
CompletePurge(p) ==
    /\ purge[p].running /\ purge[p].todo = {}
    /\ account' = IF MayPurge /\ account.plan \subseteq purge[p].done
                    THEN [account EXCEPT !.state = "purged"] ELSE account
    /\ purge' = [purge EXCEPT ![p] = NoPurge]
    /\ UNCHANGED <<stored, meanwhile>>

Next ==
    \/ SoftDeleteAccount
    \/ \E r \in Resources : UserStores(r)
    \/ \E plan \in (SUBSET Resources) \ {{}}, date \in 0 .. MaxTime : RequestDeletion(plan, date)
    \/ \E date \in Dates : RestoreAccount(date) \/ QueuePurge(date)
    \/ \E h \in Holds : AddAccountHold(h) \/ ReleaseAccountHold(h)
    \/ \E p \in Purges :
          \/ StartPurge(p) \/ CompletePurge(p)
          \/ \E r \in Resources : \/ ResourcePurged(p, r)
                                  \/ \E gone \in SUBSET {r} : ResourceFails(p, r, gone)

Spec == Init /\ [][Next]_vars
-----------------------------------------------------------------------------
\* Of what is to go with an account recorded as purged, nothing is left but what its user stored
\* while a purge was under way, restored in the meantime; whatever ran, failed and was repeated.
PurgedMeansGone == account.state = "purged" => stored \cap account.plan \subseteq meanwhile

\* A hold stops what has not begun: while it lasts no purge starts, the account is neither queued
\* nor recorded as purged, and only what a purge under way had still to do is destroyed.  (Such
\* a purge goes on: it looks at the holds before its first resource only.)  A purged account
\* stays purged.
AccountSteps ==
    /\ account.holds # {} =>
          /\ \A p \in Purges : purge'[p].running => purge[p].running
          /\ stored \ stored' \subseteq UNION {purge[p].todo : p \in Purges}
          /\ account'.state \in {"purge_pending", "purged"} => account'.state = account.state
    /\ account.state = "purged" => account'.state = "purged"

AccountsHeld == [][AccountSteps]_vars
=============================================================================
