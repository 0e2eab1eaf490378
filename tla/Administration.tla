---------------------------- MODULE Administration ----------------------------
(***************************************************************************)
(* The administration suite: the books that decide who may do what and what *)
(* is kept for how long.  Its parts share a process and a clock but no      *)
(* state, and each keeps its own behind synchronous calls: a behaviour of   *)
(* the suite is one of a part of it, all the others at rest in their        *)
(* initial state.                                                           *)
(***************************************************************************)
EXTENDS Naturals, FiniteSets, TLC

CONSTANTS
    Tenants, Users, NoUser, Never,
    Home, GrossQuota, MaxEvents,
    TenantKey, OtherKeys, Subjects, Limit, Window, MaxBuckets,
    FailureThreshold, QuarantineThreshold, FailureWindow, LockoutTime, QuarantineTime,
    Holders, Credentials, NoHolder, ChallengeTtl,
    Resources, Holds, Purges, RecoveryTime,
    Items, Worker, OtherWorker, RetentionTime, LeaseTime,
    Archives, Members, Writers, Removers, Contents,
    MaxTime, DelegationTime, MaxReservations, MaxRecorded, MaxFailures, MaxChallenges, MaxCount,
    MaxGeneration               \* bounds

\* Names that stand for nobody are nobody's, files are told apart by their makers, and what the
\* code checks of its settings: a log and a limiter that hold something, limits, thresholds and
\* windows of at least 1, also to recover an account, keep an item and answer a challenge in.
ASSUME SuiteAssumption ==
    /\ NoUser \notin Users /\ NoHolder \notin Holders
    /\ Writers \cap {"none", "torn", "unknown", "gone"} = {} /\ "manifest" \notin Members
    /\ Contents \subseteq SUBSET (Members \cup {"metadata"})
    /\ Resources # {} /\ Archives # {} /\ IsFiniteSet(Users)
    /\ {MaxEvents, MaxBuckets, RecoveryTime, RetentionTime, ChallengeTtl} \subseteq Nat \ {0}
    /\ {Limit, Window, FailureThreshold, FailureWindow} \subseteq Nat \ {0}
    /\ {GrossQuota, LockoutTime, QuarantineTime, LeaseTime, MaxTime} \subseteq Nat
    /\ {MaxReservations, MaxRecorded, MaxFailures, MaxChallenges, MaxCount, MaxGeneration}
          \subseteq Nat
    /\ DelegationTime \in 0 .. MaxTime

VARIABLES
    part, now, delegation,
    allocation, usage, reservation, initial,
    auditLog, recorded, masterLogAccess,
    bucket, order, failure, lockedUntil, quarantinedUntil, admitted, evicted, failedAt,
    challenge, credential, completed, shown,
    account, purge, stored, meanwhile,
    item, holdUntil, batch,
    directories, disk, write, removal, known

Delegated == INSTANCE Delegation WITH MaxTime <- DelegationTime
Quota == INSTANCE QuotaLedger
Audit == INSTANCE AuditLog
Abuse == INSTANCE AbuseControls
Keyring == INSTANCE WebAuthn
Lifecycle == INSTANCE AccountLifecycle
Retained == INSTANCE Retention
Backup == INSTANCE BackupArchives

delegated == <<delegation>>
quota == <<allocation, usage, reservation, initial>>
audit == <<auditLog, recorded, masterLogAccess>>
abuse == <<bucket, order, failure, lockedUntil, quarantinedUntil, admitted, evicted, failedAt>>
keyring == <<challenge, credential, completed, shown>>
lifecycle == <<account, purge, stored, meanwhile>>
retained == <<item, holdUntil, batch>>
backup == <<directories, disk, write, removal, known>>

vars == <<part, now, delegated, quota, audit, abuse, keyring, lifecycle, retained, backup>>

Parts == {"delegation", "quota", "audit", "abuse", "webauthn", "lifecycle", "retention", "backup"}

Init ==
    /\ part \in Parts
    /\ Delegated!Init /\ Abuse!Init /\ Keyring!Init /\ Lifecycle!Init /\ Retained!Init
    /\ Backup!Init
    /\ Quota!Init /\ (part # "quota" => \A u \in Users : ~Quota!Known(u))
    /\ Audit!Init /\ (part # "audit" => ~masterLogAccess)

Next ==
    /\ UNCHANGED part
    /\ \/ /\ part = "delegation" /\ Delegated!Next
          /\ UNCHANGED <<quota, audit, abuse, keyring, lifecycle, retained, backup>>
       \/ /\ part = "quota" /\ Quota!Next
          /\ UNCHANGED <<now, delegated, audit, abuse, keyring, lifecycle, retained, backup>>
       \/ /\ part = "audit" /\ Audit!Next
          /\ UNCHANGED <<now, delegated, quota, abuse, keyring, lifecycle, retained, backup>>
       \/ /\ part = "abuse" /\ Abuse!Next
          /\ UNCHANGED <<delegated, quota, audit, keyring, lifecycle, retained, backup>>
       \/ /\ part = "webauthn" /\ Keyring!Next
          /\ UNCHANGED <<delegated, quota, audit, abuse, lifecycle, retained, backup>>
       \/ /\ part = "lifecycle" /\ Lifecycle!Next
          /\ UNCHANGED <<now, delegated, quota, audit, abuse, keyring, retained, backup>>
       \/ /\ part = "retention" /\ Retained!Next
          /\ UNCHANGED <<delegated, quota, audit, abuse, keyring, lifecycle, backup>>
       \/ /\ part = "backup" /\ Backup!Next
          /\ UNCHANGED <<now, delegated, quota, audit, abuse, keyring, lifecycle, retained>>

Spec == Init /\ [][Next]_vars

\* The writers of archives are alike.
WriterSymmetry == Permutations(Writers)
-----------------------------------------------------------------------------
TypeOK ==
    /\ part \in Parts /\ now \in 0 .. MaxTime /\ (part = "delegation" => Delegated!TypeOK)
    /\ Quota!TypeOK /\ Audit!TypeOK /\ Abuse!TypeOK /\ Keyring!TypeOK
    /\ Lifecycle!TypeOK /\ Retained!TypeOK /\ Backup!TypeOK

\* Nobody is shown more than he was given: of a delegation one user beside the owner, within
\* the tenant of who made it (delegation.ts), and of the one log of all tenants the events of
\* the reader's own tenant or person (admin-tools.ts).
ShownOnlyWhatWasGiven ==
    /\ part = "delegation" => Delegated!OneOutsiderAtMost
    /\ part = "audit" => Audit!LogShowsItsOwn

\* The books agree with what happened: quota with the reservations open (quota.ts), buckets and
\* lockouts with the calls and failures of any window (ops/abuse), spent challenges and stored
\* counters with the ceremonies completed (webauthn.ts), a purged account with what its user
\* stored meanwhile (account-lifecycle-wiring.ts), and each file of an archive with the last
\* undisturbed call on it (filesystem-backup-adapter.ts).
BooksAgree ==
    /\ part = "quota" => Quota!BooksBalance
    /\ part = "abuse" => Abuse!LimitsHold
    /\ part = "webauthn" => Keyring!CeremoniesSingle
    /\ part = "lifecycle" => Lifecycle!PurgedMeansGone
    /\ part = "backup" => Backup!ArchivesKept

\* What was decided stands: a master's delegation against its owner (delegation.ts), the end of
\* a credential (webauthn.ts), a hold against the purges that have not begun and against the
\* record of one, on an account and on an item, and the end of both
\* (account-lifecycle-wiring.ts, retention.ts).
DecisionsStand ==
    [][ /\ part = "delegation" => Delegated!GrantSteps
        /\ part = "webauthn" => Keyring!CredentialSteps
        /\ part = "lifecycle" => Lifecycle!AccountSteps
        /\ part = "retention" => Retained!RetentionSteps ]_vars
=============================================================================
