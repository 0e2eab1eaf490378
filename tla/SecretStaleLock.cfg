\* w1 has crashed under the lock, two others find it stale.
SPECIFICATION Spec
CONSTANTS
    w1 = w1
    w2 = w2
    w3 = w3
    r1 = r1
    Writers = {w1, w2, w3}
    Readers = {r1}
    LockRetries = 1
    Retained = 2
    Crashing = {}
    Dead = {w1}
    Slow = {}
    MaxVersions = 2
PROPERTIES SwapExpected
