SPECIFICATION Spec
CONSTANTS
    Challenges = {c1, c2}
    RecoveryCodes = {r1}
    Wrong = Wrong
    Malformed = Malformed
    Policy <- TotpRequired
    Managers = {"totp", "webauthn"}
    RecoveryEnabled = TRUE
    Revocations = FALSE
    Period = 1
    Window = 1
    FactorFailures = 2
    Lockout = 2
    Ttl = 2
    MaxFailures = 2
    MaxPending = 2
    MaxTotps = 2
    MaxRecoverySets = 2
    MaxCredentials = 1
    MaxTime = 2
CHECK_DEADLOCK FALSE
PROPERTIES EnrollmentNeedsEveryFactor
