SPECIFICATION Spec
CONSTANTS
    Challenges = {c1, c2}
    RecoveryCodes = {r1}
    Wrong = Wrong
    Malformed = Malformed
    Policy <- BothRequired
    Managers = {"totp", "webauthn"}
    RecoveryEnabled = TRUE
    Revocations = TRUE
    Period = 1
    Window = 1
    FactorFailures = 2
    Lockout = 2
    Ttl = 2
    MaxFailures = 2
    MaxPending = 2
    MaxTotps = 1
    MaxRecoverySets = 2
    MaxCredentials = 1
    MaxTime = 2
SYMMETRY AllSymmetry
CHECK_DEADLOCK FALSE
INVARIANTS TypeOK EveryDemandedFactorProven ProofsSpentOnce GuessesSpaced
