SPECIFICATION Spec
CONSTANTS
    Calls = {r1, r2}
    SessionTtl = 2
    TokenTtl = 1
    MaxOutstanding = 2
    FailureLimit = 2
    MaxSessions = 2
    MaxTokens = 4
    MaxTime = 2
SYMMETRY CallSymmetry
CHECK_DEADLOCK FALSE
INVARIANTS TypeOK OneChangeAtATime TokenBuysOnce NothingOutlivesSession
