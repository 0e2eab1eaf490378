---------------------------- MODULE SecretRotation ----------------------------
(***************************************************************************)
(* One reference of the VersionedFileSecretStore: processes that rotate,    *)
(* roll back and read it through the files of one directory                 *)
(* (src/core/secrets/versioned-file-secret-store.ts).  Every file operation  *)
(* is a step; a process may crash between any two, and another goes on.      *)
(*                                                                         *)
(* Versions are numbered in the order in which they are created (their ids  *)
(* are random).  A lock goes stale when its process has crashed, or while it *)
(* is slower than lockStaleMs.  Expired values, closed rollback windows and  *)
(* unchanged candidates refuse a call at any time: they change nothing.     *)
(* Writing a file may fail, removing one does not, and the audit sink may   *)
(* be unavailable.                                                          *)
(***************************************************************************)
EXTENDS Integers, FiniteSets

CONSTANTS
    Writers, Readers,
    LockRetries,        \* lockRetryAttempts
    Retained,           \* retainedVersions
    Crashing,           \* writers that may crash
    Dead,               \* writers that crashed earlier, one of them perhaps under the lock
    Slow,               \* writers whose calls may take longer than lockStaleMs
    MaxVersions         \* bound

ASSUME RotationAssumption ==
    /\ Writers \cap Readers = {} /\ "none" \notin Writers
    /\ LockRetries \in Nat /\ Retained \in Nat \ {0, 1} /\ MaxVersions \in Nat
    /\ Crashing \subseteq Writers /\ Slow \subseteq Writers /\ Dead \subseteq Writers

Processes == Writers \cup Readers
Versions == 1 .. MaxVersions
NoVersion == 0

VARIABLES
    made,               \* history: versions created so far
    state,              \* active.json
    secret, meta,       \* the files of the versions: "absent", "partial" or "whole"
    lock,               \* .rotation.lock, with the token of its writer
    call,               \* the calls of the processes
    published,          \* history: versions that rotate has made active
    overtaken,          \* history: changes since a reader read active.json, at most 2
    wrote,              \* history: has the writer's call changed active.json?
    robbed              \* history: has a waiter removed the lock of a call at work?

files == <<state, secret, meta>>
history == <<published, overtaken, wrote, robbed>>
vars == <<made, files, lock, call, history>>

States == [active : {NoVersion} \cup Versions, previous : {NoVersion} \cup Versions]
FileStates == {"absent", "partial", "whole"}
NoLock == [holder |-> "none", token |-> 0, stale |-> FALSE]

Steps == {"idle", "crashed", "lock", "stat", "unlink", "state", "value", "create-secret", "write-secret",
          "create-meta", "write-meta", "rename", "audit", "prune", "remove-secret", "remove-meta",
          "release", "release-unlink", "read-state", "read-meta", "read-value"}
Idle == [at |-> "idle", op |-> "none", expected |-> NoVersion, attempt |-> 0, token |-> 0,
         seen |-> [active |-> NoVersion, previous |-> NoVersion], version |-> NoVersion,
         doomed |-> {}, answer |-> "none"]
Crashed == [Idle EXCEPT !.at = "crashed"]

At(p) == call[p].at
Goto(p, step) == call' = [call EXCEPT ![p].at = step]
Over(p) == [Idle EXCEPT !.token = call[p].token]

Init ==
    /\ made = 0
    /\ state = [active |-> NoVersion, previous |-> NoVersion]
    /\ secret = [v \in Versions |-> "absent"] /\ meta = [v \in Versions |-> "absent"]
    /\ lock \in {NoLock} \cup [holder : Dead, token : {0}, stale : {FALSE}]
    /\ call = [p \in Processes |-> IF p \in Dead THEN Crashed ELSE Idle]
    /\ published = {}
    /\ overtaken = [p \in Readers |-> 0]
    /\ wrote = [p \in Writers |-> FALSE]
    /\ robbed = FALSE
-----------------------------------------------------------------------------
(* The rotation lock. *)

\* A rotation or rollback is called with the version the caller believes active.
Call(p, op, expected) ==
    /\ At(p) = "idle" /\ op \in {"rotate", "rollback"} /\ (op = "rotate" => made < MaxVersions)
    /\ op = "rollback" => expected # NoVersion
    /\ call' = [call EXCEPT ![p] = [Over(p) EXCEPT !.at = "lock", !.op = op, !.expected = expected]]
    /\ wrote' = [wrote EXCEPT ![p] = FALSE]
    /\ UNCHANGED <<made, files, lock, published, overtaken, robbed>>

\* The call has taken the lock, and it is still the one on the disk.
Holds(p) == lock.holder = p /\ At(p) \notin {"idle", "crashed", "lock", "stat", "unlink"}

\* Tokens are random: here, the next number of the process, modulo 2.
Token(p) == 1 - call[p].token

\* Mutant: an existing lock file is opened as well.
TakeLockShared(p) ==
    /\ At(p) = "lock"
    /\ lock' = [holder |-> p, token |-> Token(p), stale |-> FALSE]
    /\ call' = [call EXCEPT ![p].at = "state", ![p].token = Token(p)]
    /\ UNCHANGED <<made, files, history>>

TakeLock(p) ==
    /\ At(p) = "lock"
    /\ \/ /\ lock = NoLock
          /\ lock' = [holder |-> p, token |-> Token(p), stale |-> FALSE]
          /\ call' = [call EXCEPT ![p].at = "state", ![p].token = Token(p)]
       \/ /\ lock # NoLock /\ Goto(p, "stat") /\ UNCHANGED lock
    /\ UNCHANGED <<made, files, history>>

\* Mutant: one retry too many.
RetryOnceMore(p) ==
    call' = [call EXCEPT ![p] = IF @.attempt <= LockRetries
                                THEN [@ EXCEPT !.at = "lock", !.attempt = @ + 1] ELSE Over(p)]

\* ROTATION_LOCK_TIMEOUT after the last attempt
Retry(p) ==
    LET attempt == call[p].attempt IN
    call' = [call EXCEPT ![p] = IF attempt < LockRetries
                                THEN [@ EXCEPT !.at = "lock", !.attempt = attempt + 1] ELSE Over(p)]

StatLock(p) ==
    /\ At(p) = "stat"
    /\ IF lock # NoLock /\ lock.stale THEN Goto(p, "unlink") ELSE Retry(p)
    /\ UNCHANGED <<made, files, lock, history>>

\* The stale lock is removed, whoever's lock it is by now.
UnlinkStale(p) ==
    /\ At(p) = "unlink"
    /\ lock' = NoLock
    /\ robbed' = (robbed \/ \E q \in Writers : Holds(q))
    /\ Retry(p)
    /\ UNCHANGED <<made, files, published, overtaken, wrote>>

\* release: the lock file is read, and removed if it is still this call's.
Release(p) ==
    /\ At(p) = "release"
    /\ IF lock.holder = p /\ lock.token = call[p].token THEN Goto(p, "release-unlink")
       ELSE call' = [call EXCEPT ![p] = Over(p)]
    /\ UNCHANGED <<made, files, lock, history>>

ReleaseUnlink(p) ==
    /\ At(p) = "release-unlink"
    /\ lock' = NoLock
    /\ call' = [call EXCEPT ![p] = Over(p)]
    /\ UNCHANGED <<made, files, history>>

\* The caller's answer; the lock is released on the way out.
Answer(p, answer) == call' = [call EXCEPT ![p] = [Over(p) EXCEPT !.at = "release", !.answer = answer]]
Refuse(p) == Answer(p, "refused") /\ UNCHANGED <<made, files, lock, history>>
-----------------------------------------------------------------------------
(* rotate *)

\* Mutant: the expected version is not compared.
ReadCurrentLoose(p) ==
    /\ At(p) = "state" /\ call[p].op = "rotate"
    /\ call' = [call EXCEPT ![p].seen = state,
                            ![p].at = IF state.active = NoVersion THEN "create-secret" ELSE "value"]
    /\ UNCHANGED <<made, files, lock, history>>

ReadCurrent(p) ==
    /\ At(p) = "state" /\ call[p].op = "rotate"
    /\ \/ /\ state.active = call[p].expected
          /\ call' = [call EXCEPT ![p].seen = state,
                                  ![p].at = IF state.active = NoVersion THEN "create-secret"
                                            ELSE "value"]
          /\ UNCHANGED <<made, files, lock, history>>
       \/ state.active # call[p].expected /\ Refuse(p)      \* VERSION_CONFLICT

ReadCurrentValue(p) ==
    /\ At(p) = "value" /\ call[p].op = "rotate"
    /\ \/ /\ secret[call[p].seen.active] = "whole"
          /\ Goto(p, "create-secret")
          /\ UNCHANGED <<made, files, lock, history>>
       \/ Refuse(p)                                         \* not found, UNCHANGED_SECRET

CreateSecret(p) ==
    /\ At(p) = "create-secret"
    /\ \/ /\ made < MaxVersions
          /\ made' = made + 1
          /\ secret' = [secret EXCEPT ![made + 1] = "partial"]
          /\ call' = [call EXCEPT ![p].at = "write-secret", ![p].version = made + 1]
          /\ UNCHANGED <<state, meta, lock, history>>
       \/ Refuse(p)

WriteSecret(p) ==
    /\ At(p) = "write-secret"
    /\ \/ /\ secret' = [secret EXCEPT ![call[p].version] = "whole"]
          /\ Goto(p, "create-meta")
          /\ UNCHANGED <<made, state, meta, lock, history>>
       \/ Refuse(p)

CreateMeta(p) ==
    /\ At(p) = "create-meta"
    /\ meta' = [meta EXCEPT ![call[p].version] = "partial"]
    /\ Goto(p, "write-meta")
    /\ UNCHANGED <<made, state, secret, lock, history>>

WriteMeta(p) ==
    /\ At(p) = "write-meta"
    /\ \/ /\ meta' = [meta EXCEPT ![call[p].version] = "whole"]
          /\ Goto(p, "rename")
          /\ UNCHANGED <<secret>>
       \/ /\ secret' = [secret EXCEPT ![call[p].version] = "absent"]
          /\ Answer(p, "refused")
          /\ UNCHANGED <<meta>>
    /\ UNCHANGED <<made, state, lock, history>>

\* writeAtomic: active.json is replaced by a rename, whatever it is by now.
Replace(p, next) ==
    /\ state' = next
    /\ wrote' = [wrote EXCEPT ![p] = TRUE]
    /\ overtaken' = [q \in Readers |-> IF overtaken[q] < 2 THEN overtaken[q] + 1 ELSE 2]
    /\ Goto(p, "audit")
    /\ UNCHANGED <<made, secret, meta, lock, robbed>>

RenameState(p) ==
    /\ At(p) = "rename" /\ call[p].op = "rotate"
    /\ \/ /\ Replace(p, [active |-> call[p].version, previous |-> call[p].seen.active])
          /\ published' = published \cup {call[p].version}
       \/ Refuse(p)

\* The audit sink is told after the fact.
Audit(p) ==
    /\ At(p) = "audit"
    /\ \/ call[p].op = "rotate" /\ Goto(p, "prune")
       \/ call[p].op = "rollback" /\ Answer(p, "done")
       \/ Answer(p, "unaudited")                            \* AUDIT_UNAVAILABLE
    /\ UNCHANGED <<made, files, lock, history>>

\* prune: the newest versions are retained, and those of the new active.json.
Listed == {v \in Versions : meta[v] = "whole"}
Newest(vs) == {v \in vs : Cardinality({u \in vs : u > v}) < Retained}

\* Mutant: only the newest versions are retained.
DoomedForgettingPrevious(p) == Listed \ (Newest(Listed) \cup {call[p].version})

Doomed(p) == Listed \ (Newest(Listed) \cup {call[p].version, call[p].seen.active})

PruneNext(p, doomed) ==
    IF doomed = {} THEN Answer(p, "done")
    ELSE call' = [call EXCEPT ![p].doomed = doomed, ![p].at = "remove-secret"]

\* Mutant: a failure of prune fails the rotation.
PruneStrict(p) ==
    /\ At(p) = "prune"
    /\ PruneNext(p, Doomed(p)) \/ Answer(p, "refused")
    /\ UNCHANGED <<made, files, lock, history>>

Prune(p) ==
    /\ At(p) = "prune"
    /\ PruneNext(p, Doomed(p)) \/ PruneNext(p, {})          \* its failure is ignored
    /\ UNCHANGED <<made, files, lock, history>>

RemoveSecret(p) ==
    /\ At(p) = "remove-secret"
    /\ \E v \in call[p].doomed :
         /\ secret' = [secret EXCEPT ![v] = "absent"]
         /\ call' = [call EXCEPT ![p].at = "remove-meta", ![p].version = v]
    /\ UNCHANGED <<made, state, meta, lock, history>>

RemoveMeta(p) ==
    /\ At(p) = "remove-meta"
    /\ meta' = [meta EXCEPT ![call[p].version] = "absent"]
    /\ PruneNext(p, call[p].doomed \ {call[p].version})
    /\ UNCHANGED <<made, state, secret, lock, history>>
-----------------------------------------------------------------------------
(* rollback *)

ReadForRollback(p) ==
    /\ At(p) = "state" /\ call[p].op = "rollback"
    /\ \/ /\ state.active = call[p].expected /\ state.previous # NoVersion
          /\ call' = [call EXCEPT ![p].seen = state, ![p].at = "value"]
          /\ UNCHANGED <<made, files, lock, history>>
       \/ Refuse(p)           \* VERSION_CONFLICT, ROLLBACK_NOT_AVAILABLE, window, another target

ReadTarget(p) ==
    /\ At(p) = "value" /\ call[p].op = "rollback"
    /\ \/ /\ meta[call[p].seen.previous] = "whole" /\ secret[call[p].seen.previous] = "whole"
          /\ Goto(p, "rename")
          /\ UNCHANGED <<made, files, lock, history>>
       \/ Refuse(p)

\* Mutant: the version that is rolled back is forgotten as the rollback target.
RenameBackOnly(p) ==
    /\ At(p) = "rename" /\ call[p].op = "rollback"
    /\ \/ /\ Replace(p, [call[p].seen EXCEPT !.active = call[p].seen.previous])
          /\ UNCHANGED published
       \/ Refuse(p)

RenameBack(p) ==
    /\ At(p) = "rename" /\ call[p].op = "rollback"
    /\ \/ /\ Replace(p, [active |-> call[p].seen.previous, previous |-> call[p].seen.active])
          /\ UNCHANGED published
       \/ Refuse(p)
-----------------------------------------------------------------------------
(* get: three reads without the lock. *)

Get(p) ==
    /\ At(p) = "idle"
    /\ call' = [call EXCEPT ![p] = [Idle EXCEPT !.at = "read-state", !.op = "get"]]
    /\ UNCHANGED <<made, files, lock, history>>

GetState(p) ==
    /\ At(p) = "read-state"
    /\ call' = [call EXCEPT ![p] =
                  IF state.active = NoVersion THEN [@ EXCEPT !.at = "idle", !.answer = "missing"]
                  ELSE [@ EXCEPT !.at = "read-meta", !.seen = state]]
    /\ overtaken' = [overtaken EXCEPT ![p] = 0]
    /\ UNCHANGED <<made, files, lock, published, wrote, robbed>>

GetFile(p, step, file, then) ==
    /\ At(p) = step
    /\ call' = [call EXCEPT ![p] =
                  IF file[call[p].seen.active] = "whole" THEN [@ EXCEPT !.at = then.at,
                                                                        !.answer = then.answer]
                  ELSE [@ EXCEPT !.at = "idle", !.answer = "lost"]]
    /\ UNCHANGED <<made, files, lock, history>>

GetMeta(p) == GetFile(p, "read-meta", meta, [at |-> "read-value", answer |-> "none"])
GetValue(p) == GetFile(p, "read-value", secret, [at |-> "idle", answer |-> "served"])
-----------------------------------------------------------------------------
(* Crashes and time. *)

Crash(p) ==
    /\ p \in Crashing /\ At(p) \notin {"idle", "crashed"}
    /\ call' = [call EXCEPT ![p] = Crashed]
    /\ UNCHANGED <<made, files, lock, history>>

LockAges ==
    /\ lock # NoLock /\ ~lock.stale
    /\ \A p \in Writers \ Slow : ~Holds(p)
    /\ lock' = [lock EXCEPT !.stale = TRUE]
    /\ UNCHANGED <<made, files, call, history>>

Rotation(p) ==
    \/ ReadCurrent(p) \/ ReadCurrentValue(p) \/ CreateSecret(p) \/ WriteSecret(p) \/ CreateMeta(p)
    \/ WriteMeta(p) \/ RenameState(p) \/ Audit(p) \/ Prune(p) \/ RemoveSecret(p) \/ RemoveMeta(p)

Write(p) ==
    \/ \E op \in {"rotate", "rollback"}, expected \in {NoVersion} \cup published : Call(p, op, expected)
    \/ TakeLock(p) \/ StatLock(p) \/ UnlinkStale(p) \/ Release(p) \/ ReleaseUnlink(p)
    \/ Rotation(p) \/ ReadForRollback(p) \/ ReadTarget(p) \/ RenameBack(p) \/ Crash(p)

Read(p) == Get(p) \/ GetState(p) \/ GetMeta(p) \/ GetValue(p)

Next == LockAges \/ (\E p \in Writers : Write(p)) \/ (\E p \in Readers : Read(p))

Spec == Init /\ [][Next]_vars

\* Bound: a run of TLC need not go on from a stolen lock.
LockKept == ~robbed
-----------------------------------------------------------------------------
(* Properties. *)

TypeOK ==
    /\ made \in 0 .. MaxVersions
    /\ state \in States
    /\ secret \in [Versions -> FileStates] /\ meta \in [Versions -> FileStates]
    /\ lock.holder \in Writers \cup {"none"} /\ lock.stale \in BOOLEAN
    /\ \A p \in Processes : At(p) \in Steps /\ call[p].attempt \in 0 .. LockRetries
    /\ published \subseteq 1 .. made

\* active.json always names a version whose files are complete, and so does its
\* rollback target: at every crash, and under every prune (writeAtomic is last,
\* prune retains both).  This and the next three need the lock, and so they end where
\* a waiter has removed the lock of a call that is still at work.
NamedWhole ==
    \A v \in {state.active, state.previous} \ {NoVersion} : secret[v] = "whole" /\ meta[v] = "whole"

NamedVersionsWhole == ~robbed => NamedWhole

\* "This compare-and-swap check prevents a stale operator from overwriting a newer
\* secret": when active.json is replaced, it still names the version that the
\* caller expected.
Swaps == \A p \in Writers : At(p) = "rename" /\ At(p)' = "audit" => state.active = call[p].expected

SwapExpected == [][Swaps]_vars

\* The code keeps that promise as long as nobody has lost his lock at work: only the removal
\* of a lock that its holder still needs lets two calls decide on one active.json.
SwapUnderLock == [][robbed \/ Swaps]_vars

\* A call that is refused has changed nothing: whatever can still fail after the
\* rename (audit, prune) is reported as such or ignored.
RefusedChangedNothing ==
    \A p \in Writers : At(p) \in {"release", "release-unlink"} /\ call[p].answer = "refused"
                       => ~wrote[p]

\* get reads three files without the lock, but it loses a version (SECRET_NOT_FOUND,
\* VERSION_NOT_FOUND) only if active.json has changed twice since it was read: a
\* version that has just been replaced is the rollback target, which prune retains.
ReaderOvertaken ==
    ~robbed => \A p \in Readers : call[p].answer = "lost" => overtaken[p] = 2

\* The files implement the compare-and-swap register.
Contract == INSTANCE SecretContract WITH
    active <- state.active, previous <- state.previous, used <- published

ImplementsContract == Contract!Init /\ [][robbed \/ Contract!Next]_(Contract!cvars)
=============================================================================
