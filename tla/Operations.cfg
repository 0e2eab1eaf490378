\* Every part of the operations suite, one at a time.
SPECIFICATION Spec
CONSTANTS
    Clients = {"c1", "c2"}
    Members = {"u1", "u2"}
    NoClient = "none"
    FailureLimit = 2
    FailureWindow = 2
    SubmissionLimit = 1
    SubmissionWindow = 2
    MaxAge = 1
    GrossQuotas = {1, 2}
    RetryAttempts = 1
    AlertRetries = 2
    Runners = {"r1", "r2"}
    MigrationVersions = {1, 2}
    Releases = {"old", "new"}
    NoRunner = "none"
    Stoppers = {"s1", "s2"}
    Letters = {"x", "T", "h"}
    MaxLiteral = 3
    LookupRetries = 1
    LoggedObjects = {"o1", "o2"}
    MaxPersonChanges = 1
    MaxDeployments = 2
    MaxContexts = 2
    EditedFields = {"ldap.url", "ldap.startTls", "ldap.bindSecretRef", "identity.source", "postgres.enabled", "cpanel.username", "controlPanel.syncMode", "runtime.port"}
    MaxEdits = 2
    MaxSettings = 2
    MaxProjections = 2
    MaxReads = 2
    MaxRequests = 3
    MaxIssued = 3
    MaxUpdates = 2
    MaxRenewals = 2
    Top = 2
    MaxAlerts = 3
    MaxRecipients = 2
    MaxResolved = 3
    SubmissionTime = 3
    MaxGenerations = 3
    SignatureTime = 2
    MaxConnections = 2
    DavTime = 2
    MaxVersion = 2
    MaxDavRequests = 3
INVARIANTS
    TypeOK
    OperationsHold
PROPERTIES
    OperationsKeep
CHECK_DEADLOCK FALSE
