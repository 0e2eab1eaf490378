\* Every part of the administration suite, one at a time.
SPECIFICATION Spec
CONSTANTS
    Tenants = {"t1", "t2"}
    Users = {"u1", "u2"}
    NoUser = "none"
    Never = 99
    Home = "t1"
    GrossQuota = 3
    MaxEvents = 2
    TenantKey = "tenant"
    OtherKeys = {"address", "session", "other"}
    Subjects = {"session"}
    Limit = 1
    Window = 2
    MaxBuckets = 3
    FailureThreshold = 2
    QuarantineThreshold = 3
    FailureWindow = 2
    LockoutTime = 2
    QuarantineTime = 2
    Holders = {"u1", "u2"}
    Credentials = {"k1", "k2"}
    NoHolder = "none"
    ChallengeTtl = 1
    Resources = {"mail", "backups"}
    Holds = {"h1"}
    Purges = {"p1", "p2"}
    RecoveryTime = 1
    Items = {"i1"}
    Worker = "w1"
    OtherWorker = "w2"
    RetentionTime = 1
    LeaseTime = 1
    Archives = {"a1", "a2"}
    Members = {"m1"}
    Writers = {v1, v2}
    Removers = {"r1"}
    Contents = {{}, {"m1", "metadata"}}
    MaxTime = 2
    DelegationTime = 1
    MaxReservations = 3
    MaxRecorded = 3
    MaxFailures = 4
    MaxChallenges = 2
    MaxCount = 2
    MaxGeneration = 2
SYMMETRY WriterSymmetry
INVARIANTS
    TypeOK
    ShownOnlyWhatWasGiven
    BooksAgree
PROPERTIES
    DecisionsStand
CHECK_DEADLOCK FALSE
