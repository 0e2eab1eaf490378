----------------------------- MODULE Operations -----------------------------
(***************************************************************************)
(* The operations suite: what carries a request, a message or an alert      *)
(* through one process, from the page in the browser and the DAV frontend   *)
(* over the mail core, its policy, scanners and IMAP client, to the sources  *)
(* of identity and their hashes, the tenant store, its schema, the log and  *)
(* the alerts about all of them.  The parts share no state: a behaviour of   *)
(* the suite is one of a part of it, all the others at rest in one initial   *)
(* state of theirs.                                                         *)
(***************************************************************************)
EXTENDS Naturals, Sequences, FiniteSets

CONSTANTS
    Clients, Members, NoClient,
    FailureLimit, FailureWindow, SubmissionLimit, SubmissionWindow, MaxAge,
    GrossQuotas, RetryAttempts, AlertRetries,
    Runners, MigrationVersions, Releases, NoRunner, Stoppers,
    Letters, MaxLiteral,
    LookupRetries, LoggedObjects,
    MaxPersonChanges, MaxDeployments, MaxContexts,
    EditedFields, MaxEdits, MaxSettings, MaxProjections, MaxReads,
    MaxRequests, MaxIssued, MaxUpdates, MaxRenewals, Top, MaxAlerts, MaxRecipients, MaxResolved,
    SubmissionTime, MaxGenerations, SignatureTime, MaxConnections, DavTime, MaxVersion,
    MaxDavRequests              \* bounds

ASSUME OperationsAssumption ==
    /\ NoClient \notin Clients /\ IsFiniteSet(Clients) /\ IsFiniteSet(Members)
    /\ GrossQuotas \subseteq Nat \ {0} /\ \E most \in GrossQuotas : \A g \in GrossQuotas : g <= most
    /\ RetryAttempts \in Nat /\ MaxConnections \in Nat
    /\ Top \in Nat /\ MaxAlerts \in Nat /\ AlertRetries \in Nat
    /\ MaxResolved \in Nat /\ MaxAge \in Nat /\ MaxGenerations \in Nat /\ SignatureTime \in Nat
    /\ SubmissionLimit \in Nat \ {0} /\ SubmissionWindow \in Nat \ {0} /\ SubmissionTime \in Nat
    /\ LookupRetries \in Nat /\ MaxPersonChanges \in Nat /\ MaxDeployments \in Nat
    /\ LoggedObjects # {} /\ MaxContexts \in Nat /\ MaxProjections \in Nat /\ MaxReads \in Nat
    /\ NoRunner \notin Runners /\ "none" \notin Releases
    /\ \E n \in MigrationVersions : n \in Nat /\ MigrationVersions = 1 .. n

VARIABLES
    part,
    page, request, server, disturbed,
    answer, wire, buffer, pendingLines, reader,
    client, readers, idleLines, toServer, toClient, imapServer, updates, heard, strayed,
    tenant, allocation, lock, call, pools, pool, closed, overlapped,
    release, runner, lockedBy, applied, executed,
    threshold, snapshot, report,
    alerts, delivery, received,
    directory, submitted, clock, accepted, last,
    path, resolved, message,
    manifest, active, signatureReader,
    state, socket, started, stop, dependency, probe,
    now, failures, wrong, verifiedTogether, kind, dav, stored, versions, handled,
    source, settings, person, changes, signIn,
    cost, minLength, hash, lastHashCall, deployments,
    heap, todo, expanded, shown, contexts, context, record, event,
    mount, file, environment, process, edits,
    service, configured, override, own, named,
    orchestrator, linked, files, read, recorded, reads

Browser == INSTANCE WebClient
Wire == INSTANCE ImapWire
Watch == INSTANCE ImapIdle WITH pendingLines <- idleLines, server <- imapServer
Postgres == INSTANCE PostgresStore WITH Versions <- MigrationVersions
Alerting == INSTANCE Alerts
Submission == INSTANCE MailPolicy
Core == INSTANCE MailCore WITH reader <- signatureReader
Lifecycle == INSTANCE ServerLifecycle
Identity == INSTANCE LoginIdentity
Hashes == INSTANCE PasswordHashes WITH stored <- hash, last <- lastHashCall
Log == INSTANCE Logging
Startup == INSTANCE Configuration
Told == INSTANCE Discovery
Projection == INSTANCE ProjectedSecrets
Frontend == INSTANCE DavFrontend WITH overlapped <- verifiedTogether

\* One failed password at least is let through, and is remembered for a while.
ASSUME FrontendAssumption ==
    /\ FailureLimit \in Nat \ {0} /\ FailureWindow \in Nat \ {0}
    /\ DavTime \in Nat /\ MaxVersion \in Nat /\ MaxDavRequests \in Nat

\* A bound of the model's own.
ASSUME WatchAssumption == MaxUpdates \in Nat /\ MaxRenewals \in Nat

\* What an operator edits is a field of the configuration.
ASSUME EditsAssumption == EditedFields \subseteq Startup!Fields /\ MaxEdits \in Nat

browser == <<page, request, server, disturbed>>
imap == <<answer, wire, buffer, pendingLines, reader>>
watch == <<client, readers, idleLines, toServer, toClient, imapServer, updates, heard, strayed>>
tenants == <<tenant, allocation, lock, call, pools, pool, closed, overlapped>>
schema == <<release, runner, lockedBy, applied, executed>>
policy == <<threshold, snapshot, report>>
webhook == <<alerts, delivery, received>>
submission == <<directory, submitted, accepted, last>>
core == <<path, resolved, message>>
signatures == <<manifest, active, signatureReader>>
lifecycle == <<state, socket, started, stop, dependency, probe>>
frontend == <<now, failures, wrong, verifiedTogether, kind, dav, stored, versions, handled>>

identity == <<source, settings, person, changes, signIn>>
hashes == <<cost, minLength, hash, lastHashCall, deployments>>
redaction == <<heap, todo, expanded, shown>>
records == <<contexts, context, record, event>>
startup == <<mount, file, environment, process, edits>>
told == <<service, configured, override, own, named>>
projection == <<orchestrator, linked, files, read, recorded, reads>>

clients == <<browser, frontend, lifecycle>>
credentials == <<identity, hashes>>
logging == <<redaction, records>>
surroundings == <<startup, told, projection>>
mail == <<imap, watch, submission, core, signatures, clock>>
backing == <<tenants, schema, policy, webhook>>
vars == <<part, clients, mail, backing, credentials, logging, surroundings>>

Parts == {"browser", "wire", "watch", "store", "schema", "policy", "webhook", "submission",
          "core", "signatures", "lifecycle", "frontend", "identity", "hashes", "redaction", "records",
          "startup", "told", "projection"}

\* A part that is not the one of the behaviour has one initial state.
AtRest ==
    LET u == CHOOSE m \in Members : TRUE
        r == CHOOSE x \in Releases : TRUE
    IN  /\ part # "browser" => server = [session |-> 0, challenges |-> {}, tokens |-> {}, issued |-> 0]
        /\ part # "wire" => answer = [before |-> <<>>, literal |-> <<>>, tail |-> <<>>]
        /\ part # "store" =>
              /\ tenant = 0
              /\ call = [c \in Clients |->
                            [operation |-> "create", member |-> u, amount |-> 1, stage |-> "idle",
                             row |-> 0, attempt |-> 0, answer |-> "none"]]
        /\ part # "schema" => release = [q \in Runners |-> [v \in MigrationVersions |-> r]]
        /\ part # "policy" =>
              /\ threshold = [warning |-> 1, critical |-> 1]
              /\ snapshot = [queue |-> 0, storage |-> 0, auth |-> 0, certificate |-> 0, dependency |-> "ok"]
        /\ part # "webhook" => alerts = 0
        /\ part # "submission" =>
              /\ directory = [active |-> {}, destinations |-> {}]
              /\ last = [path |-> "none", user |-> u, sender |-> u, recipients |-> {}]
        /\ part # "core" => path = "inbound" /\ resolved = <<u>>
        /\ part # "lifecycle" => dependency = "ok"
        /\ part # "frontend" => kind = "caldav"
        /\ part # "identity" =>
              /\ source = "cpanel" /\ settings = "ok"
              /\ person = [entries |-> 0, active |-> TRUE, password |-> "p1", roles |-> {}]
        /\ part # "hashes" => cost = [N |-> 2 ^ 14, r |-> 8, p |-> 1] /\ minLength = 8
        /\ part # "redaction" =>
              heap = [o \in LoggedObjects |-> [list |-> FALSE, detail |-> "none", password |-> "none"]]
        /\ part # "startup" => file = <<>>
        /\ part # "told" => service = "imap"
        /\ part # "projection" => orchestrator = "docker"

Init ==
    /\ part \in Parts /\ AtRest
    /\ Browser!Init /\ Wire!Init /\ Watch!Init /\ Postgres!TenantInit /\ Postgres!SchemaInit /\ Alerting!PolicyInit
    /\ Alerting!WebhookInit /\ Submission!Init /\ Core!CoreInit /\ Core!SignatureInit /\ Lifecycle!Init
    /\ Frontend!Init /\ Identity!Init /\ Hashes!Init /\ Log!RedactionInit /\ Log!RecordInit
    /\ Startup!Init /\ Told!Init /\ Projection!Init

ClientsNext ==
    \/ part = "browser" /\ Browser!Next /\ UNCHANGED <<frontend, lifecycle>>
    \/ part = "frontend" /\ Frontend!Next /\ UNCHANGED <<browser, lifecycle>>
    \/ part = "lifecycle" /\ Lifecycle!Next /\ UNCHANGED <<browser, frontend>>

MailNext ==
    \/ part = "wire" /\ Wire!Next /\ UNCHANGED <<watch, submission, core, signatures, clock>>
    \/ part = "watch" /\ Watch!Next /\ UNCHANGED <<imap, submission, core, signatures, clock>>
    \/ part = "submission" /\ Submission!Next /\ UNCHANGED <<imap, watch, core, signatures>>
    \/ part = "core" /\ Core!CoreNext /\ UNCHANGED <<imap, watch, submission, signatures, clock>>
    \/ part = "signatures" /\ Core!SignatureNext /\ UNCHANGED <<imap, watch, submission, core>>

BackingNext ==
    \/ part = "store" /\ Postgres!TenantNext /\ UNCHANGED <<schema, policy, webhook>>
    \/ part = "schema" /\ Postgres!SchemaNext /\ UNCHANGED <<tenants, policy, webhook>>
    \/ part = "policy" /\ Alerting!PolicyNext /\ UNCHANGED <<tenants, schema, webhook>>
    \/ part = "webhook" /\ Alerting!WebhookNext /\ UNCHANGED <<tenants, schema, policy>>

CredentialsNext ==
    \/ part = "identity" /\ Identity!Next /\ UNCHANGED hashes
    \/ part = "hashes" /\ Hashes!Next /\ UNCHANGED identity

LoggingNext ==
    \/ part = "redaction" /\ Log!Sanitize /\ UNCHANGED records
    \/ part = "records" /\ Log!RecordNext /\ UNCHANGED redaction

SurroundingsNext ==
    \/ part = "startup" /\ Startup!Next /\ UNCHANGED <<told, projection>>
    \/ part = "told" /\ Told!Next /\ UNCHANGED <<startup, projection>>
    \/ part = "projection" /\ Projection!Next /\ UNCHANGED <<startup, told>>

Next ==
    /\ UNCHANGED part
    /\ \/ ClientsNext /\ UNCHANGED <<mail, backing, credentials, logging, surroundings>>
       \/ MailNext /\ UNCHANGED <<clients, backing, credentials, logging, surroundings>>
       \/ BackingNext /\ UNCHANGED <<clients, mail, credentials, logging, surroundings>>
       \/ CredentialsNext /\ UNCHANGED <<clients, mail, backing, logging, surroundings>>
       \/ LoggingNext /\ UNCHANGED <<clients, mail, backing, credentials, surroundings>>
       \/ SurroundingsNext /\ UNCHANGED <<clients, mail, backing, credentials, logging>>

Spec == Init /\ [][Next]_vars
-----------------------------------------------------------------------------
TypeOK ==
    /\ part \in Parts
    /\ part = "browser" => Browser!TypeOK
    /\ part = "wire" => Wire!TypeOK
    /\ part = "watch" => Watch!TypeOK
    /\ part = "store" => Postgres!TenantTypeOK
    /\ part = "schema" => Postgres!SchemaTypeOK
    /\ part = "policy" => Alerting!PolicyTypeOK
    /\ part = "webhook" => Alerting!WebhookTypeOK
    /\ part = "submission" => Submission!TypeOK
    /\ part = "core" => Core!CoreTypeOK
    /\ part = "signatures" => Core!SignatureTypeOK
    /\ part = "lifecycle" => Lifecycle!TypeOK
    /\ part = "frontend" => Frontend!TypeOK
    /\ part = "identity" => Identity!TypeOK
    /\ part = "hashes" => Hashes!TypeOK
    /\ part = "redaction" => Log!RedactionTypeOK
    /\ part = "records" => Log!RecordTypeOK
    /\ part = "startup" => Startup!TypeOK
    /\ part = "told" => Told!TypeOK
    /\ part = "projection" => Projection!TypeOK

\* Every part gives what it is asked for, whatever is late, lost, repeated or overlapping: the
\* page what it holds (web/src/app.ts), the frontend what a principal may name and the headers
\* ask for, and a stop its end (server.ts); the IMAP client the whole answer and every update
\* (imap-client.ts), the policy, the core and the signatures what they accept, account for and
\* call ready (mail-policy.ts, mail-core.ts, scanner-signatures.ts); the store its quota
\* (postgres-store.ts), the runner its schema (migration-runner.ts), and the alerts the worst
\* of what was measured, delivered in order (alert-policy.ts, webhook-alert-adapter.ts); a
\* sign-in what its account earns (login.ts), a stored hash its password (password-hashing.ts),
\* a log record all its own and no secret (logger.ts), a process
\* the settings it was given (config.ts), a client the services there are (discovery/index.ts),
\* and a reader a secret that was there (projected-secret-file-store.ts).
OperationsHold ==
    /\ part = "browser" => Browser!PageHoldsItsOwn /\ Browser!PageAgreesWithServer
    /\ part = "frontend" => Frontend!FrontendHolds
    /\ part = "lifecycle" => Lifecycle!StopIsAnEnd
    /\ part = "wire" => Wire!AnswerReadWhole
    /\ part = "watch" => Watch!WatchHearsAll
    /\ part = "submission" => Submission!PolicyHolds
    /\ part = "core" => Core!MessageAccounted
    /\ part = "signatures" => Core!StatusIsTrue
    /\ part = "store" => Postgres!QuotaHeldThroughRetries
    /\ part = "schema" => Postgres!MigratedOnce
    /\ part = "policy" => Alerting!StatusIsTheWorst
    /\ part = "webhook" => Alerting!ReportDelivered
    /\ part = "identity" => Identity!SignInIsEarned
    /\ part = "hashes" => Hashes!PasswordStands
    /\ part = "redaction" => Log!LogShowsAllButSecrets
    /\ part = "records" => Log!RecordsBelong
    /\ part = "startup" => Startup!ConfigurationHolds
    /\ part = "told" => Told!DiscoveryHolds
    /\ part = "projection" => Projection!ProjectedHolds

\* What is there is not taken back: the gross quota of a tenant and its users
\* (postgres-store.ts), and an alert as long as nothing got better (alert-policy.ts).
OperationsKeep ==
    [][ /\ part = "store" => Postgres!TenantSteps
        /\ part = "policy" => Alerting!WorseIsNoMilder ]_vars
=============================================================================
