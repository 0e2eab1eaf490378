----------------------------- MODULE PostgresStore -----------------------------
(***************************************************************************)
(* PostgreSQL beside the DAV stores.                                        *)
(*                                                                         *)
(* One tenant (src/integrations/postgres-store.ts): its bootstrap, its      *)
(* users and their quota, each in a transaction that is tried again after   *)
(* any error, and the pool the calls share.  A transaction reads, then      *)
(* writes and commits, under the lock of the tenant's row; where the row is *)
(* not there yet, nothing is locked until the insert.  The connection may   *)
(* break at any point, at the commit on either side of it.  `overlapped` is *)
(* history: two calls resolved the secret at a time, or one did when the    *)
(* store was closed.                                                        *)
(*                                                                         *)
(* The migration runner (src/integrations/migration-runner.ts): replicas    *)
(* that start at the same time, each with the migrations its release ships, *)
(* bring one schema up in one transaction under an advisory lock.  A        *)
(* version's checksum is the release that wrote it.                         *)
(*                                                                         *)
(* The two touch different tables and are state machines of their own, each  *)
(* with its initial predicate and next-state relation.                      *)
(***************************************************************************)
EXTENDS Naturals, FiniteSets, Folds

CONSTANTS
    Clients, Members, NoClient, GrossQuotas, RetryAttempts,
    Runners, Versions, Releases, NoRunner

VARIABLES
    tenant, allocation, lock, call, pools, pool, closed, overlapped,     \* the tenant store's
    release, runner, lockedBy, applied, executed                        \* the runner's

database == <<tenant, allocation>>
poolVars == <<pools, pool, closed, overlapped>>

None == 0                           \* no tenant, no pool
Highest == CHOOSE most \in GrossQuotas : \A g \in GrossQuotas : g <= most
Amounts == 1 .. Highest
NoRow == Highest + 1       \* no user, no allocation

Stages == {"idle", "resolving", "ready", "reading", "writing", "committing"}
Operations == {"bootstrap", "create", "allocate"}
Calls == [operation : Operations, member : Members, amount : Amounts, stage : Stages,
          row : GrossQuotas \cup {None},       \* the tenant as the transaction read it
          attempt : 0 .. RetryAttempts, answer : {"none", "ok", "error"}]

TenantInit ==
    /\ tenant \in GrossQuotas \cup {None} /\ allocation = [m \in Members |-> NoRow] /\ lock = NoClient
    /\ call \in [Clients -> [operation : Operations, member : Members, amount : Amounts,
                             stage : {"idle"}, row : {None}, attempt : {0}, answer : {"none"}]]
    /\ \A c \in Clients :
          /\ call[c].operation = "bootstrap" =>
                 call[c].amount \in GrossQuotas /\ call[c].member = CHOOSE m \in Members : TRUE
          /\ call[c].operation = "create" => call[c].amount = 1       \* bound
    /\ pools = {} /\ pool = None /\ closed = FALSE /\ overlapped = FALSE
-----------------------------------------------------------------------------
At(c, stage) == call[c].stage = stage
To(c, stage) == call' = [call EXCEPT ![c].stage = stage]
Answer(c, answer) == [call EXCEPT ![c].stage = "idle", ![c].answer = answer]

\* retry: an error of any kind starts the transaction again, as often as it may.
Failed(c) ==
    /\ call' = IF call[c].attempt = RetryAttempts THEN Answer(c, "error")
               ELSE [call EXCEPT ![c].stage = "ready", ![c].attempt = @ + 1]
    /\ lock' = IF lock = c THEN NoClient ELSE lock

\* getPool waits for the secret unless there is a pool.
Start(c) ==
    /\ (At(c, "idle") /\ call[c].answer = "none") \/ At(c, "ready")
    /\ IF closed THEN Failed(c) /\ UNCHANGED poolVars
       ELSE /\ To(c, IF pool = None THEN "resolving" ELSE "reading") /\ UNCHANGED lock
            /\ overlapped' = (overlapped \/ (pool = None /\ \E d \in Clients : At(d, "resolving")))
            /\ UNCHANGED <<pools, pool, closed>>
    /\ UNCHANGED database

\* PoolClass
SecretResolved(c) ==
    /\ At(c, "resolving")
    /\ LET new == CHOOSE i \in 1 .. 2 * Cardinality(Clients) : i \notin pools
       IN  pools' = pools \cup {new} /\ pool' = new
    /\ To(c, "reading")
    /\ UNCHANGED <<database, lock, closed, overlapped>>

Close ==
    /\ ~closed /\ closed' = TRUE
    /\ pools' = pools \ {pool} /\ pool' = None
    /\ overlapped' = (overlapped \/ \E c \in Clients : At(c, "resolving"))
    /\ UNCHANGED <<database, lock, call>>

\* Mutant: the row is read without a lock.
LocksNothing(c) == UNCHANGED lock

\* SELECT ... FOR UPDATE
Locks(c) == lock = NoClient /\ lock' = IF tenant = None THEN lock ELSE c

Used(except) ==
    LET Allocated(m) == IF allocation[m] = NoRow THEN 0 ELSE allocation[m]
    IN  MapThenFoldSet(+, 0, Allocated, LAMBDA some : CHOOSE m \in some : TRUE, Members \ except)

\* What the statements read forbids the call; createUserReference counts every row,
\* allocateQuota every row but the user's own.
Refused(c) ==
    LET row == call[c].row
    IN  CASE call[c].operation = "bootstrap" -> row \notin {None, call[c].amount}
          [] call[c].operation = "create" -> row = None \/ Used({}) + call[c].amount > row
          [] call[c].operation = "allocate" ->
                \/ row = None \/ allocation[call[c].member] = NoRow
                \/ Used({call[c].member}) + call[c].amount > row

Read(c) ==
    /\ At(c, "reading") /\ Locks(c)
    /\ call' = [call EXCEPT ![c].stage = "writing", ![c].row = tenant]
    /\ UNCHANGED <<database, poolVars>>

\* The statements after the lock, up to the writes.
Check(c) ==
    /\ At(c, "writing")
    /\ IF Refused(c) THEN Failed(c)
       ELSE To(c, "committing") /\ UNCHANGED lock
    /\ UNCHANGED <<database, poolVars>>

\* An insert waits for whoever inserted the same key, and fails if he committed.
Duplicate(c) ==
    \/ call[c].operation = "create" /\ allocation[call[c].member] # NoRow
    \/ call[c].operation = "bootstrap" /\ call[c].row = None /\ tenant # None

Written(c) ==
    IF call[c].operation = "bootstrap"
    THEN tenant' = call[c].amount /\ UNCHANGED allocation
    ELSE allocation' = [allocation EXCEPT ![call[c].member] = call[c].amount] /\ UNCHANGED tenant

Commit(c) ==
    /\ At(c, "committing") /\ lock \in {c, NoClient}
    /\ IF Duplicate(c) THEN Failed(c) /\ UNCHANGED database
       ELSE /\ Written(c)
            /\ lock' = NoClient
            /\ \/ call' = Answer(c, "ok")
               \/ Failed(c)                                 \* the answer is lost
    /\ UNCHANGED poolVars

\* A statement or the connection fails, the commit before it took effect.
Breaks(c) ==
    /\ call[c].stage \in {"resolving", "reading", "writing", "committing"} /\ Failed(c)
    /\ UNCHANGED <<database, poolVars>>

TenantNext == Close \/ \E c \in Clients : \/ Start(c) \/ SecretResolved(c) \/ Read(c) \/ Check(c)
                                    \/ Commit(c) \/ Breaks(c)

-----------------------------------------------------------------------------
TenantTypeOK ==
    /\ tenant \in GrossQuotas \cup {None} /\ allocation \in [Members -> Amounts \cup {NoRow}]
    /\ lock \in Clients \cup {NoClient} /\ call \in [Clients -> Calls]
    /\ closed \in BOOLEAN /\ overlapped \in BOOLEAN

\* Whatever breaks and is tried again, the allocations of a tenant's users never exceed its
\* gross quota, a call that was answered has the effect it was asked for unless a later one
\* changed it, and the store never leaves a pool behind that it does not know, as long as one
\* call at a time asks for the secret (postgres-store.ts: createUserReference, allocateQuota,
\* retry, getPool).
QuotaHeldThroughRetries ==
    /\ tenant # None => Used({}) <= tenant
    /\ \A c \in Clients : call[c].answer = "ok" =>
           IF call[c].operation = "bootstrap" THEN tenant = call[c].amount
           ELSE allocation[call[c].member] # NoRow
    /\ ~overlapped => pools \subseteq {pool}

\* The gross quota of a tenant never changes once it is there, and no user is lost.
TenantSteps ==
    /\ tenant # None => tenant' = tenant
    /\ \A m \in Members : allocation[m] # NoRow => allocation'[m] # NoRow
-----------------------------------------------------------------------------
(* The migration runner. *)

Latest == CHOOSE v \in Versions : \A w \in Versions : w <= v
NotApplied == "none"
NotShipped == "absent"

\* Of a release: the checksum of each version it ships.  An older one ships fewer, and nothing
\* says which: what is in its directory is what it knows.
Checksums == [Versions -> Releases \cup {NotShipped}]
Ships(r) == {v \in Versions : release[r][v] # NotShipped}
RunnerRecords == [stage : {"idle", "locking", "running", "done", "failed"},
                  known : [Versions -> Releases \cup {NotApplied}], at : 1 .. Latest + 1,
                  pending : SUBSET Versions]

SchemaInit ==
    /\ release \in [Runners -> Checksums]
    /\ runner = [r \in Runners |-> [stage |-> "idle", known |-> [v \in Versions |-> NotApplied],
                                    at |-> 1, pending |-> {}]]
    /\ lockedBy = NoRunner
    /\ applied = [v \in Versions |-> NotApplied]        \* schema_migrations
    /\ executed = [v \in Versions |-> 0]                \* how often its statements took effect
-----------------------------------------------------------------------------
RunnerAt(r, stage) == runner[r].stage = stage

\* loadMigrations, BEGIN
Begin(r) ==
    /\ RunnerAt(r, "idle") /\ runner' = [runner EXCEPT ![r].stage = "locking"]
    /\ UNCHANGED <<release, lockedBy, applied, executed>>

\* pg_advisory_xact_lock
AdvisoryLock(r) == lockedBy = NoRunner /\ lockedBy' = r

\* ensureTable, and what is applied so far.
ReadApplied(r) ==
    /\ RunnerAt(r, "locking") /\ AdvisoryLock(r)
    /\ runner' = [runner EXCEPT ![r].stage = "running", ![r].known = applied]
    /\ UNCHANGED <<release, applied, executed>>

Unlocked(r) == lockedBy' = IF lockedBy = r THEN NoRunner ELSE lockedBy

\* ROLLBACK: nothing of it stays.
Fail(r) ==
    /\ runner' = [runner EXCEPT ![r].stage = "failed", ![r].pending = {}]
    /\ Unlocked(r) /\ UNCHANGED <<release, applied, executed>>

\* Mutant: a version that was changed since is taken for the same.
MismatchIgnored(r, v) == FALSE

Mismatch(r, v) == v \in Ships(r) /\ runner[r].known[v] \notin {NotApplied, release[r][v]}

Migrate(r) ==
    /\ RunnerAt(r, "running") /\ runner[r].at \in Versions
    /\ LET v == runner[r].at
       IN  IF Mismatch(r, v) THEN Fail(r)
           ELSE /\ runner' = [runner EXCEPT
                        ![r].at = v + 1,
                        ![r].pending = IF v \in Ships(r) /\ runner[r].known[v] = NotApplied
                                       THEN @ \cup {v} ELSE @]
                /\ UNCHANGED <<release, lockedBy, applied, executed>>

\* schema_migrations has a version once: a second insert fails.
CommitMigrations(r) ==
    /\ RunnerAt(r, "running") /\ runner[r].at = Latest + 1
    /\ \A v \in runner[r].pending : applied[v] = NotApplied
    /\ applied' = [v \in Versions |-> IF v \in runner[r].pending THEN release[r][v] ELSE applied[v]]
    /\ executed' = [v \in Versions |-> IF v \in runner[r].pending THEN executed[v] + 1 ELSE executed[v]]
    /\ runner' = [runner EXCEPT ![r].stage = "done", ![r].pending = {}]
    /\ Unlocked(r) /\ UNCHANGED release

\* A statement fails or the replica dies, and the runner starts over.
RunnerBreaks(r) == runner[r].stage \in {"locking", "running"} /\ Fail(r)

Restart(r) ==
    /\ RunnerAt(r, "failed")
    /\ runner' = [runner EXCEPT ![r] = [@ EXCEPT !.stage = "idle", !.at = 1]]
    /\ UNCHANGED <<release, lockedBy, applied, executed>>

SchemaNext == \E r \in Runners : Begin(r) \/ ReadApplied(r) \/ Migrate(r) \/ CommitMigrations(r) \/ RunnerBreaks(r) \/ Restart(r)

-----------------------------------------------------------------------------
SchemaTypeOK ==
    /\ release \in [Runners -> Checksums] /\ runner \in [Runners -> RunnerRecords]
    /\ lockedBy \in Runners \cup {NoRunner}
    /\ applied \in [Versions -> Releases \cup {NotApplied}] /\ executed \in [Versions -> Nat]

\* The statements of a version take effect once, whoever starts, fails and starts again, and
\* the table says so; a runner that is done finds every version of its own release applied as
\* that release wrote it, then and ever after, whatever an older or newer one does beside it
\* (migration-runner.ts: run).
MigratedOnce ==
    /\ \A v \in Versions : executed[v] = IF applied[v] = NotApplied THEN 0 ELSE 1
    /\ \A r \in Runners : RunnerAt(r, "done") => \A v \in Ships(r) : applied[v] = release[r][v]
=============================================================================
